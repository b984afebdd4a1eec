----------------------------- MODULE GitResult -----------------------------
(***************************************************************************)
(* What a turn has changed (internal/result/git.go): the repositories of   *)
(* the working directory are looked for, and Git is asked for the changed  *)
(* files and then for the diff of one after the other, while Codex or the  *)
(* user may go on editing between two answers.                             *)
(*                                                                         *)
(* A path is the sequence of its names.  Git itself is external: it knows  *)
(* the changes of a repository and prints each as an entry of the status,  *)
(* followed by the origin of what was renamed or copied, and as a patch,   *)
(* which is empty for what is staged or untracked.  A patch is a sequence  *)
(* of characters and of runs of bytes that are no characters (Latin-1, for *)
(* one), of which only the width in bytes matters.                         *)
(***************************************************************************)
EXTENDS Integers, Sequences, FiniteSets, SequencesExt

CONSTANTS
    WorkingDir,        \* the directory of the turn
    DirOrder,          \* the directories in lexical order, each before what is in it
    Trees,             \* what may be in them: dir -> a kind of directory
    SkippedNames,      \* names the walk does not look into: hidden ones, "vendor", ...
    Changes,           \* what may have been changed in a repository
    MaxDiffBytes,
    MaxEdits           \* bound on the edits during a collection

ASSUME MaxDiffBytesAssumption == MaxDiffBytes \in Nat \ {0}
ASSUME DirOrderAssumption ==
    /\ DirOrder \in Seq(Seq(STRING)) /\ WorkingDir \in ToSet(DirOrder)
    /\ \A i, j \in DOMAIN DirOrder : IsPrefix(DirOrder[i], DirOrder[j]) => i <= j

\* A character takes up to four bytes; a run of invalid bytes is as long as it is, and
\* none follows another.  A patch begins with a line of characters.
Pieces == [width : Nat \ {0}, valid : BOOLEAN]
ASSUME ChangesAssumption ==
    /\ Changes \subseteq [file : Seq(STRING), code : STRING, origin : Seq(STRING),
                           patch : Seq(Pieces)]
    /\ IsFiniteSet(Changes)
    /\ \A c \in Changes : \A k \in DOMAIN c.patch :
          IF c.patch[k].valid THEN c.patch[k].width <= 4
                              ELSE k > 1 /\ c.patch[k - 1].valid

Kinds == {"plain", "repo", "unlistable", "unsearchable"}
ASSUME TreesAssumption == Trees \subseteq [ToSet(DirOrder) -> Kinds]

VARIABLES
    tree,              \* external: the directories of the behaviour
    refused,           \* external: Git does not tell the repository around one
    dirty,             \* external: repository -> its changes
    edited,            \* history: what was edited since the collection began
    collect            \* the call of CollectGit

gitVars == <<tree, refused, dirty, edited, collect>>

Repositories == {dir \in DOMAIN tree : tree[dir] = "repo"}
OneChangeEach(changes) ==
    \A c, d \in changes : c.file = d.file => c = d

-----------------------------------------------------------------------------
(* discoverGitRepositories *)

\* rev-parse: the closest repository around the working directory.  That it exits with
\* an error inside of one, whose owner is not trusted, say, is as if there were none.
Around == {repo \in Repositories : IsPrefix(repo, WorkingDir) /\ ~ refused}
Toplevel == CHOOSE repo \in Around : \A other \in Around : Len(other) <= Len(repo)

SkipDiscoveryDirectory(name) == name \in SkippedNames

\* One call of the function that WalkDir is given, and what WalkDir makes of it: a
\* directory whose entries cannot be read is skipped, one that cannot be searched for
\* .git ends the walk with an error.
Visit(walk, dir) ==
    LET elsewhere == ~ IsPrefix(WorkingDir, dir)
        behind == \E top \in walk.skipped : IsPrefix(top, dir)
        named == dir # WorkingDir /\ SkipDiscoveryDirectory(Last(dir))
        skip == [walk EXCEPT !.skipped = @ \cup {dir}]
    IN IF walk.failed \/ elsewhere \/ behind THEN walk
       ELSE IF named \/ tree[dir] = "unlistable" THEN skip
       ELSE IF tree[dir] = "repo" THEN [skip EXCEPT !.found = Append(@, dir)]
       ELSE [walk EXCEPT !.failed = tree[dir] = "unsearchable"]

Walk ==
    FoldLeft(Visit, [found |-> << >>, skipped |-> {}, failed |-> FALSE], DirOrder)

Failed == [pc |-> "failed"]
Collecting(todo) ==
    [pc |-> "status", todo |-> todo, files |-> {}, diff |-> << >>]

Discover ==
    /\ collect.pc = "discover"
    /\ collect' = IF Around # {} THEN Collecting(<<Toplevel>>)
                  ELSE IF Walk.failed THEN Failed
                  ELSE Collecting(Walk.found)
    /\ UNCHANGED <<tree, refused, dirty, edited>>

-----------------------------------------------------------------------------
(* CollectGit, one answer of Git at a time *)

\* repositoryPrefix
Prefix(repo) ==
    IF IsPrefix(WorkingDir, repo)
      THEN SubSeq(repo, Len(WorkingDir) + 1, Len(repo)) ELSE << >>

\* git status --porcelain=v1 -z: entries of a code and a path; an origin stands alone,
\* and who takes it for an entry reads its first letters as the code.
Moved == {"R", "C"}
StatusOf(repo) ==
    LET print(c) == <<[code |-> c.code, path |-> c.file]>>
                    \o IF c.code \in Moved
                         THEN <<[code |-> "?", path |-> <<"...">> \o c.origin]>>
                         ELSE << >>
        changes == SetToSeq(dirty[repo])
    IN FlattenSeq([k \in DOMAIN changes |-> print(changes[k])])

ParseOriginsToo(entries) ==        \* mutant: the origin of a rename is not skipped
    {entries[k].path : k \in DOMAIN entries}

\* parsePorcelainZ
ParsePorcelain(entries) ==
    LET parse(s, entry) ==
            IF s.origin THEN [s EXCEPT !.origin = FALSE]
            ELSE [files |-> s.files \cup {entry.path}, origin |-> entry.code \in Moved]
    IN FoldLeft(parse, [files |-> {}, origin |-> FALSE], entries).files

Repo == collect.todo[1]

Status ==
    /\ collect.pc = "status" /\ collect.todo # << >>
    /\ collect' = [collect EXCEPT
                      !.pc = "diff",
                      !.files = @ \cup {Prefix(Repo) \o file :
                                            file \in ParsePorcelain(StatusOf(Repo))}]
    /\ UNCHANGED <<tree, refused, dirty, edited>>

PatchOf(repo, c) ==
    [k \in DOMAIN c.patch |-> [file |-> Prefix(repo) \o c.file,
                               width |-> c.patch[k].width, valid |-> c.patch[k].valid]]

DiffOf(repo) ==
    LET changes == SetToSeq(dirty[repo])
    IN FlattenSeq([k \in DOMAIN changes |-> PatchOf(repo, changes[k])])

Diff ==
    /\ collect.pc = "diff"
    /\ collect' = [collect EXCEPT !.pc = "status", !.todo = Tail(@),
                                  !.diff = @ \o DiffOf(Repo)]
    /\ UNCHANGED <<tree, refused, dirty, edited>>

Width(text) == FoldLeft(LAMBDA n, char : n + char.width, 0, text)

CutBehind(text, max) ==            \* mutant: with the piece that the cut goes through
    LET whole == SelectInSeq([k \in 1..Len(text) |-> Width(SubSeq(text, 1, k)) > max],
                             LAMBDA beyond : beyond)
    IN IF whole = 0 THEN text ELSE SubSeq(text, 1, whole)

\* The first max bytes.  Of the piece that the cut goes through a run of invalid bytes
\* is left, or more of the run before it.
CutTo(text, max) ==
    LET whole == SelectInSeq([k \in 1..Len(text) |-> Width(SubSeq(text, 1, k)) > max],
                             LAMBDA beyond : beyond)
        kept == IF whole = 0 THEN text ELSE SubSeq(text, 1, whole - 1)
        left == max - Width(kept)
        joins == kept # << >> /\ ~ Last(kept).valid
    IN IF whole = 0 \/ left = 0 \/ joins THEN kept
       ELSE Append(kept, [file |-> text[whole].file, width |-> left, valid |-> FALSE])

\* strings.ToValidUTF8: a replacement of three bytes for each run.
ToValidUTF8(text) ==
    [k \in DOMAIN text |-> IF text[k].valid THEN text[k] ELSE [text[k] EXCEPT !.width = 3]]

Finish ==
    /\ collect.pc = "status" /\ collect.todo = << >>
    /\ collect' = [pc |-> "done", files |-> collect.files,
                   diff |-> ToValidUTF8(CutTo(collect.diff, MaxDiffBytes)),
                   truncated |-> Width(collect.diff) > MaxDiffBytes]
    /\ UNCHANGED <<tree, refused, dirty, edited>>

\* Git is missing, reports an error for a repository, or the context is done.
GitFails ==
    /\ \/ collect.pc \in {"discover", "diff"}
       \/ collect.pc = "status" /\ collect.todo # << >>
    /\ collect' = Failed
    /\ UNCHANGED <<tree, refused, dirty, edited>>

\* Somebody makes or takes back a change while the collection is at work.
EditTree(repo, c) ==
    /\ collect.pc \in {"status", "diff"}
    /\ Cardinality(edited) < MaxEdits
    /\ dirty' = [dirty EXCEPT ![repo] = IF c \in @ THEN @ \ {c}
                                        ELSE {d \in @ : d.file # c.file} \cup {c}]
    /\ edited' = edited \cup {<<repo, c.file>>}
    /\ UNCHANGED <<tree, refused, collect>>

GitInit ==
    /\ tree \in Trees /\ refused \in BOOLEAN
    /\ dirty \in [Repositories -> {s \in SUBSET Changes : OneChangeEach(s)}]
    /\ edited = {}
    /\ collect = [pc |-> "discover"]

GitNext ==
    \/ Discover \/ Status \/ Diff \/ Finish \/ GitFails
    \/ \E repo \in Repositories, c \in Changes : EditTree(repo, c)

GitSpec == GitInit /\ [][GitNext]_gitVars

-----------------------------------------------------------------------------
(* Properties *)

\* The repositories of the working directory: the one it is in, or else all from it on
\* that are in no other and can be reached without a directory that is skipped.
InWay(dir, repo) ==
    /\ IsPrefix(WorkingDir, dir) /\ IsPrefix(dir, repo)
    /\ \/ dir # WorkingDir /\ Last(dir) \in SkippedNames
       \/ dir # repo /\ tree[dir] \in {"repo", "unlistable"}
Expected ==
    IF Around # {} THEN {Toplevel}
    ELSE {repo \in Repositories :
             IsPrefix(WorkingDir, repo) /\ ~ \E dir \in DOMAIN tree : InWay(dir, repo)}

\* A patch stands in one piece in a diff that has nothing else of the file.
StandsWhole(patch, path, diff) ==
    \E start \in 0..Len(diff) - Len(patch) :
        /\ \A k \in 1..Len(patch) : diff[start + k] = patch[k]
        /\ \A k \in 1..Len(diff) :
              diff[k].file = path => k \in start + 1..start + Len(patch)

\* A result is of the repository around the working directory, or, if Git tells of none,
\* of those below.  It tells every change that was there all the time, by its path from
\* the one directory or the other, and with its whole patch, but for bytes that are no
\* characters, unless the diff is marked as cut.  It names nothing that was not changed,
\* the origin of a rename neither, and is longer than the limit only by what the
\* replacements take.
Replaced(text) == {k \in DOMAIN text : ~ text[k].valid}
ResultIsWhole ==
    collect.pc = "done" =>
        /\ \A repo \in Expected : \A c \in dirty[repo] :
              LET path == Prefix(repo) \o c.file IN
              <<repo, c.file>> \notin edited =>
                  /\ path \in collect.files
                  /\ ~ collect.truncated =>
                        StandsWhole(ToValidUTF8(PatchOf(repo, c)), path, collect.diff)
        /\ \A file \in collect.files : \E repo \in Expected :
              LET changed == {c.file : c \in dirty[repo]}
                             \cup {e[2] : e \in {e \in edited : e[1] = repo}}
              IN file \in {Prefix(repo) \o name : name \in changed}
        /\ Width(collect.diff) <= MaxDiffBytes + 2 * Cardinality(Replaced(collect.diff))
=============================================================================
