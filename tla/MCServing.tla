----------------------------- MODULE MCServing -----------------------------
(***************************************************************************)
(* The parts of the agent that serve the relay and share no state, each by *)
(* itself in one run: a behaviour is one of the session, of the listing of *)
(* sessions, of the reading of a source file, of the fitting of a session, *)
(* of the catalog of projects, or of the result of a turn.  The other      *)
(* parts stay as they begin.                                               *)
(***************************************************************************)
EXTENDS RelaySession, Inventory, SourceReader, ThreadDetail, Workspace,
        GitResult

VARIABLE part

servingVars == <<sessionVars, inventoryVars, sourceVars, detailVars, workspaceVars,
                 gitVars, part>>

\* Lines of 0, 1 or 3 bytes, in a file of up to four; a focus before, in and behind it.
ShortFiles == UNION {[1..n -> {0, 1, 3}] : n \in 1..4}
AnyFocus == -1..5
AnyContext == 0..3

\* Up to two turns of up to two items.
Upto2(S) == {<< >>} \cup [1..1 -> S] \cup [1..2 -> S]
SmallItems == [text : {1, 3}, changes : {<< >>, <<2, 1>>, <<0, 2>>}]
SmallHistories == Upto2(Upto2(SmallItems))

\* A root with a directory in a directory, a link beside them, a link out of the root,
\* a link that leads nowhere, a file, and a directory outside.
LeadsTo == [path \in {<<"r">>, <<"r", "a">>, <<"r", "a", "b">>, <<"r", "link">>,
                      <<"r", "link", "b">>, <<"r", "out">>, <<"r", "f">>,
                      <<"x">>} |->
               CASE path = <<"r", "link">> -> <<"r", "a">>
                 [] path = <<"r", "link", "b">> -> <<"r", "a", "b">>
                 [] path = <<"r", "out">> -> <<"x">>
                 [] OTHER -> path]
NoFiles == {LeadsTo[path] : path \in DOMAIN LeadsTo} \ {<<"r", "f">>}
AnyPath == DOMAIN LeadsTo \cup {<<"r", "gone">>}
OneRoot == {<<"r">>}
\* The projects in any order, the first once more behind the others.  An order that
\* omits the last ones is a beginning of one of these: List goes through it on the way.
AnyOrder == {Append(order, order[1]) : order \in SetToSeqs(Projects)}
RootLists ==
    {<< >>} \cup [1..1 -> AnyPath]
    \cup {<<<<"r", "link">>, <<"r", "a">>>>, <<<<"r", "out">>, <<"r">>>>,
          <<<<"r", "gone">>, <<"r", "a", "b">>>>, <<<<"r", "a", "b">>, <<"r">>>>}

\* The working directory with two directories in it and one in each of them, besides a
\* repository behind a skipped name: the repository around all, or nested ones, or ones
\* beside a directory that cannot be read or searched, or the directory itself as one.
Working == <<"w">>
InOrder == <<<< >>, <<"w">>, <<"w", "a">>, <<"w", "a", "n">>, <<"w", "b">>,
             <<"w", "vendor">>, <<"w", "vendor", "v">>>>
TreeOf(top, a, n, b) ==
    [dir \in ToSet(InOrder) |->
        CASE dir = << >> -> top [] dir = <<"w", "a">> -> a
          [] dir = <<"w", "a", "n">> -> n [] dir = <<"w", "b">> -> b
          [] dir = <<"w", "vendor", "v">> -> "repo" [] OTHER -> "plain"]
SomeTrees ==
    {TreeOf("repo", "repo", "plain", "plain"), TreeOf("plain", "repo", "repo", "plain"),
     TreeOf("plain", "unlistable", "repo", "repo"),
     TreeOf("plain", "plain", "repo", "repo"),
     TreeOf("plain", "plain", "repo", "unsearchable"),
     [TreeOf("plain", "repo", "plain", "plain") EXCEPT ![Working] = "repo"]}

\* A file that is changed, with a byte that is no character at its end, the same name
\* staged for a file moved there, and another file.
Char(n) == [width |-> n, valid |-> TRUE]
SomeChanges ==
    {[file |-> <<"f">>, code |-> "M", origin |-> << >>,
      patch |-> <<Char(1), Char(3), [width |-> 1, valid |-> FALSE]>>],
     [file |-> <<"f">>, code |-> "R", origin |-> <<"o">>, patch |-> << >>],
     [file |-> <<"h">>, code |-> "M", origin |-> << >>, patch |-> <<Char(2)>>]}

ServingInit ==
    /\ part \in {"session", "inventory", "source", "detail", "workspace", "git"}
    /\ SessionInit /\ InventoryInit
    /\ IF part = "source" THEN SourceInit
       ELSE file = Missing /\ read = [pc |-> "none"]
    /\ IF part = "detail" THEN DetailInit
       ELSE history = << >> /\ detail = [pc |-> "none"]
    /\ IF part = "workspace" THEN WorkspaceInit
       ELSE /\ desktop = [order |-> << >>]
            /\ catalog = [next |-> 1, path |-> 1, roots |-> << >>, projects |-> << >>]
    /\ IF part = "git" THEN GitInit
       ELSE /\ tree = << >> /\ refused = FALSE /\ dirty = << >> /\ edited = {}
            /\ collect = [pc |-> "none"]

ServingNext ==
    /\ UNCHANGED part
    /\ \/ /\ part = "session" /\ SessionNext
          /\ UNCHANGED <<inventoryVars, sourceVars, detailVars, workspaceVars, gitVars>>
       \/ /\ part = "inventory" /\ InventoryNext
          /\ UNCHANGED <<sessionVars, sourceVars, detailVars, workspaceVars, gitVars>>
       \/ /\ part = "source" /\ SourceNext
          /\ UNCHANGED <<sessionVars, inventoryVars, detailVars, workspaceVars, gitVars>>
       \/ /\ part = "detail" /\ DetailNext
          /\ UNCHANGED <<sessionVars, inventoryVars, sourceVars, workspaceVars, gitVars>>
       \/ /\ part = "workspace" /\ WorkspaceNext
          /\ UNCHANGED <<sessionVars, inventoryVars, sourceVars, detailVars, gitVars>>
       \/ /\ part = "git" /\ GitNext
          /\ UNCHANGED <<sessionVars, inventoryVars, sourceVars, detailVars,
                         workspaceVars>>

\* A part that has not begun has no step to be fair to.
ServingSpec ==
    /\ ServingInit /\ [][ServingNext]_servingVars
    /\ SessionFairness /\ InventoryFairness

\* Every part keeps to its types, and what is bounded to its bounds.
ServingTypeOK == SessionTypeOK /\ InventoryTypeOK
=============================================================================
