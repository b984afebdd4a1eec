----------------------------- MODULE Workspace -----------------------------
(***************************************************************************)
(* Which projects there are, and whose a session or a file is              *)
(* (internal/workspace/catalog.go, List and MatchPath;                     *)
(* internal/inventory/service.go, projectOwner; internal/source/reader.go, *)
(* resolveProjectFile).                                                    *)
(*                                                                         *)
(* The projects and the assignment of sessions to them are read from the   *)
(* state file of Codex Desktop at every request.  A path is the sequence   *)
(* of its names; it may lead through symbolic links to a directory         *)
(* elsewhere, or nowhere.  Roots are checked where they lead to and        *)
(* matched as they are written.                                            *)
(***************************************************************************)
EXTENDS Integers, Sequences, SequencesExt, FiniteSets

CONSTANTS
    Canonical,         \* external: path -> where it leads, for all that exist
    Directories,       \* those of the places it leads to that are directories
    AllowedRoots,      \* the canonical roots of the configuration
    Projects,          \* ids of projects in Codex Desktop
    ProjectOrders,     \* what project-order may be: some may be missing or repeated
    Unassigned,        \* no assignment, or one that is not local or incomplete
    DesktopRoots,      \* what the roots of a project may be: sequences of paths
    Paths              \* where a session may work, and what may be asked for

ASSUME UnassignedAssumption == Unassigned \notin Projects
ASSUME PathsAssumption ==
    /\ \A path \in DOMAIN Canonical : Canonical[path] \in Seq(STRING)
    /\ Paths \subseteq Seq(STRING)
ASSUME RootsAssumption ==
    /\ ProjectOrders \subseteq Seq(Projects)
    /\ \A root \in AllowedRoots : Canonical[root] = root /\ root \in Seq(STRING)
    /\ \A list \in DesktopRoots : list \in Seq(Paths)

VARIABLES
    desktop,           \* external: the state file, with the project that a session
                       \* is assigned to and its directory there
    catalog            \* a call of List and what it has found so far

workspaceVars == <<desktop, catalog>>

Exists(path) == path \in DOMAIN Canonical
ExistingDirectory(path) == Exists(path) /\ Canonical[path] \in Directories
PathWithin(root, path) == IsPrefix(root, path)
ContainsAny(roots, path) == \E root \in roots : PathWithin(root, path)

AllowedLogical(path) ==            \* mutant: looks at the path as it is written
    ExistingDirectory(path) /\ ContainsAny(AllowedRoots, path)

Allowed(path) ==
    ExistingDirectory(path) /\ ContainsAny(AllowedRoots, Canonical[path])

Leads(paths) == {Canonical[paths[k]] : k \in DOMAIN paths}
Id(p) == Canonical[p.roots[1]]     \* projectID, a digest

-----------------------------------------------------------------------------
(* List, one path of a project at a time, and then the project *)

Ordered == catalog.next <= Len(desktop.order)
Listed == desktop.order[catalog.next]

\* allowedProjectRoots: the first path to each directory.
AllowRoot ==
    /\ Ordered /\ catalog.path <= Len(desktop.roots[Listed])
    /\ LET path == desktop.roots[Listed][catalog.path] IN
       catalog' = [catalog EXCEPT
                      !.path = @ + 1,
                      !.roots = IF Allowed(path) /\ Canonical[path] \notin Leads(@)
                                  THEN Append(@, path) ELSE @]
    /\ UNCHANGED desktop

\* The assignment of the session counts if its directory is still in the project.
Assigned(name, roots) ==
    /\ desktop.owner = name /\ ExistingDirectory(desktop.cwd)
    /\ ContainsAny(Leads(roots), Canonical[desktop.cwd])

ListProject ==
    /\ Ordered /\ catalog.path > Len(desktop.roots[Listed])
    /\ LET roots == catalog.roots
           project == [roots |-> roots, assigned |-> Assigned(Listed, roots)]
           known == {Id(catalog.projects[k]) : k \in DOMAIN catalog.projects}
       IN catalog' = [next |-> catalog.next + 1, path |-> 1, roots |-> << >>,
                      projects |-> IF roots # << >> /\ Canonical[roots[1]] \notin known
                                     THEN Append(catalog.projects, project)
                                     ELSE catalog.projects]
    /\ UNCHANGED desktop

WorkspaceInit ==
    /\ \E roots \in [Projects -> DesktopRoots], owner \in Projects \cup {Unassigned},
          order \in ProjectOrders, cwd \in Paths :
          desktop = [roots |-> roots, order |-> order, owner |-> owner, cwd |-> cwd]
    /\ catalog = [next |-> 1, path |-> 1, roots |-> << >>, projects |-> << >>]

WorkspaceNext == AllowRoot \/ ListProject
WorkspaceSpec == WorkspaceInit /\ [][WorkspaceNext]_workspaceVars

-----------------------------------------------------------------------------
(* Ownership, and files *)

Positions(list) == [k \in DOMAIN list |-> k]

\* What a request may name: a path, or names below a root of the project.
Requests ==
    [absolute : {TRUE}, path : Paths]
    \cup [absolute : {FALSE},
          path : UNION {{SubSeq(p, k, Len(p)) : k \in 2..Len(p)} : p \in Paths}]

\* The file, unless it is outside the root or the root itself.
ResolveWithinRoot(root, candidate) ==
    IF /\ Exists(candidate) /\ Canonical[candidate] # Canonical[root]
       /\ PathWithin(Canonical[root], Canonical[candidate])
      THEN {Canonical[candidate]} ELSE {}

\* The first root that has the file, if any.
ResolveProjectFile(p, request) ==
    LET candidate(root) ==
            IF request.absolute THEN request.path ELSE root \o request.path
        file(k) == ResolveWithinRoot(p.roots[k], candidate(p.roots[k]))
        noneBefore == {k \in DOMAIN p.roots : \A j \in 1..k - 1 : file(j) = {}}
    IN UNION {file(k) : k \in noneBefore}

\* Project.MatchPath: the length of the longest root around a path, or -1.  Of two
\* roots around a path the one with more names is the longer text.
MatchPath(p, path) ==
    FoldLeft(LAMBDA n, root : IF PathWithin(root, path) /\ Len(root) > n
                                THEN Len(root) ELSE n, -1, p.roots)

NoOwner == 0

OwnerFirstMatch(projects, path) == \* mutant: any root around the path will do
    LET candidate(owner, k) ==
            IF owner = NoOwner /\ (projects[k].assigned \/ MatchPath(projects[k], path) >= 0)
              THEN k ELSE owner
    IN FoldLeft(candidate, NoOwner, Positions(projects))

\* The first project that the session is assigned to.
ByAssignment(projects) ==
    LET assigned(owner, k) ==
            IF owner = NoOwner /\ projects[k].assigned THEN k ELSE owner
    IN FoldLeft(assigned, NoOwner, Positions(projects))

\* The first project with the longest match.
ByLongestMatch(projects, path) ==
    LET longest(best, k) ==
            LET match == MatchPath(projects[k], path) IN
            IF match > best.match THEN [owner |-> k, match |-> match] ELSE best
    IN FoldLeft(longest, [owner |-> NoOwner, match |-> -1], Positions(projects)).owner

\* projectOwner
ProjectOwner(projects, path) ==
    IF ByAssignment(projects) # NoOwner THEN ByAssignment(projects)
    ELSE ByLongestMatch(projects, path)

-----------------------------------------------------------------------------
(* Properties *)

Found == catalog.projects

\* The projects are different directories under the allowed roots, wherever their
\* paths lead, and so is every file that may be read through one; none that Codex
\* Desktop has in an allowed root is missing.
ProjectsAreAllowed ==
    /\ \A k \in DOMAIN Found :
          /\ Found[k].roots # << >>
          /\ \A root \in Leads(Found[k].roots) : ContainsAny(AllowedRoots, root)
          /\ \A request \in Requests : \A file \in ResolveProjectFile(Found[k], request) :
                ContainsAny(AllowedRoots, file)
          /\ \A j \in DOMAIN Found : Id(Found[j]) = Id(Found[k]) => j = k
    /\ \A n \in 1..catalog.next - 1 :
          LET roots == desktop.roots[desktop.order[n]] IN
          (\E k \in DOMAIN roots : Allowed(roots[k]))
              => \E j \in DOMAIN Found, k \in DOMAIN roots :
                    Allowed(roots[k]) /\ Id(Found[j]) = Canonical[roots[k]]

\* A session belongs to the project it is assigned to, or else to the one whose root
\* is closest around its directory, and of several to the first in the order of Codex
\* Desktop; it belongs to none only if no root is around it.
OwnerIsClosest ==
    \A path \in Paths :
        LET owner == ProjectOwner(Found, path)
            around == {a \in (DOMAIN Found) \X Paths :
                          PathWithin(a[2], path) /\ Contains(Found[a[1]].roots, a[2])}
            assigned == {k \in DOMAIN Found : Found[k].assigned}
        IN IF assigned # {} THEN owner \in assigned /\ \A k \in assigned : owner <= k
           ELSE IF around = {} THEN owner = NoOwner
           ELSE \E a \in around :
                   /\ a[1] = owner
                   /\ \A b \in around : \/ Len(b[2]) < Len(a[2])
                                        \/ Len(b[2]) = Len(a[2]) /\ owner <= b[1]
=============================================================================
