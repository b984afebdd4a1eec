-------------------------- MODULE GitResult_proofs --------------------------
(***************************************************************************)
(* The result of a turn is whole, for any directories, changes, edits and  *)
(* limit.                                                                  *)
(*                                                                         *)
(* Five facts about what the code computes lead there, each about a loop:  *)
(* the walk finds the repositories that are expected, each once; the       *)
(* entries that Git prints are read as the files that are changed; a diff  *)
(* has each patch in one piece; no two of the repositories have a path in  *)
(* common, so that their files and patches do not mix; and the cut is at   *)
(* the limit, which only replacements of invalid bytes exceed.             *)
(*                                                                         *)
(* The invariant says of what a collection has gathered that it is whole   *)
(* for every repository but those that are still to do.  An edit leaves    *)
(* it so: it only takes changes out of those that were there all the time. *)
(***************************************************************************)
EXTENDS Serving_proofs

-----------------------------------------------------------------------------
(* Paths *)

\* One path is around another if the other begins with its names.
LEMMA PrefixElements ==
    ASSUME NEW a \in Seq(STRING), NEW b \in Seq(STRING)
    PROVE  IsPrefix(a, b) <=> Len(a) <= Len(b) /\ \A i \in 1..Len(a) : a[i] = b[i]
<1>1. PICK m \in Nat, n \in Nat : m = Len(a) /\ n = Len(b)
  OBVIOUS
<1>2. ASSUME m <= n, SubSeq(a, 1, m) = SubSeq(b, 1, m), NEW i \in 1..m
      PROVE  a[i] = b[i]
  <2>1. SubSeq(a, 1, m)[i] = a[i]
    BY <1>1
  <2>2. SubSeq(b, 1, m)[i] = b[i]
    BY <1>1, <1>2
  <2> QED  BY <1>2, <2>1, <2>2
<1>3. ASSUME m <= n, \A i \in 1..m : a[i] = b[i]
      PROVE  SubSeq(a, 1, m) = SubSeq(b, 1, m)
  BY <1>1, <1>3, PrefixIs
<1> QED  BY <1>1, <1>2, <1>3 DEF IsPrefix

LEMMA PrefixReflexive ==
    ASSUME NEW a \in Seq(STRING)
    PROVE  IsPrefix(a, a)
  BY PrefixElements

LEMMA PrefixTransitive ==
    ASSUME NEW a \in Seq(STRING), NEW b \in Seq(STRING), NEW c \in Seq(STRING),
           IsPrefix(a, b), IsPrefix(b, c)
    PROVE  IsPrefix(a, c)
  BY WithinIsTransitive DEF PathWithin

\* Of two paths around the same one is around the other.
LEMMA PrefixComparable ==
    ASSUME NEW a \in Seq(STRING), NEW b \in Seq(STRING), NEW c \in Seq(STRING),
           IsPrefix(a, c), IsPrefix(b, c)
    PROVE  IsPrefix(a, b) \/ IsPrefix(b, a)
<1>1. /\ Len(a) \in Nat /\ Len(b) \in Nat
      /\ \A i \in 1..Len(a) : a[i] = c[i]
      /\ \A i \in 1..Len(b) : b[i] = c[i]
  BY PrefixElements
<1>2. CASE Len(a) <= Len(b)
  <2>1. \A i \in 1..Len(a) : a[i] = b[i]
    BY <1>1, <1>2
  <2> QED  BY <1>2, <2>1, PrefixElements
<1>3. CASE Len(b) <= Len(a)
  <2>1. \A i \in 1..Len(b) : b[i] = a[i]
    BY <1>1, <1>3
  <2> QED  BY <1>3, <2>1, PrefixElements
<1> QED  BY <1>1, <1>2, <1>3

-----------------------------------------------------------------------------
(* The walk *)

\* What is known of a directory in the order.
LEMMA OrderAt ==
    ASSUME NEW i \in 1..Len(DirOrder), tree \in Trees
    PROVE  /\ DirOrder[i] \in Seq(STRING) /\ DirOrder[i] \in DOMAIN tree
           /\ tree[DirOrder[i]] \in Kinds
<1>1. DirOrder \in Seq(Seq(STRING)) /\ i \in DOMAIN DirOrder
  BY DirOrderAssumption
<1>2. DirOrder[i] \in Seq(STRING) /\ DirOrder[i] \in ToSet(DirOrder)
  BY <1>1 DEF ToSet
<1>3. tree \in [ToSet(DirOrder) -> Kinds]
  BY TreesAssumption
<1> QED  BY <1>2, <1>3

WalkStart == [found |-> << >>, skipped |-> {}, failed |-> FALSE]

\* After k directories.
LEMMA WalkLoop ==
    ASSUME NEW n \in Nat, n = Len(DirOrder), tree \in Trees
    PROVE  \E walk \in [0..n -> [found : Seq(Seq(STRING)), skipped : SUBSET Seq(STRING),
                                 failed : BOOLEAN]] :
              /\ walk[0] = WalkStart
              /\ \A k \in 1..n : walk[k] = Visit(walk[k - 1], DirOrder[k])
              /\ Walk = walk[n]
<1> DEFINE D == DOMAIN DirOrder
           V == [found : Seq(Seq(STRING)), skipped : SUBSET Seq(STRING), failed : BOOLEAN]
           F(f) == f = [s \in SUBSET D |->
                          IF s = {} THEN [found |-> << >>, skipped |-> {}, failed |-> FALSE]
                          ELSE Visit(f[s \ {Max(s)}], DirOrder[Max(s)])]
<1>1. Walk = (CHOOSE f : F(f))[D]
  BY DEF Walk, FoldLeft, MapThenFoldSet
<1>2. D = 1..n
  BY DirOrderAssumption
<1>3. PICK next : next = [kv \in (1..n) \X V |-> Visit(kv[2], DirOrder[kv[1]])]
  OBVIOUS
<1>4. next \in [(1..n) \X V -> V] /\ WalkStart \in V
  <2>1. ASSUME NEW w \in V, NEW k \in 1..n PROVE Visit(w, DirOrder[k]) \in V
    <3>1. PICK dir \in Seq(STRING) : dir = DirOrder[k]
      BY OrderAt
    <3>2. Append(w.found, dir) \in Seq(Seq(STRING))
      OBVIOUS
    <3> QED  BY <3>1, <3>2 DEF Visit
  <2>2. WalkStart \in V
    BY DEF WalkStart
  <2> HIDE DEF V
  <2> QED  BY <1>3, <2>1, <2>2
<1> HIDE DEF V
<1>5. PICK g \in [SUBSET (1..n) -> V] : Folds(g, n, WalkStart, next)
  BY <1>4, FoldExists
<1>6. ASSUME NEW s \in SUBSET (1..n), s # {}
      PROVE  Max(s) \in 1..n /\ s \ {Max(s)} \in SUBSET (1..n)
  BY <1>6, MaxInside
<1>7. F(g)
  <2>1. ASSUME NEW s \in SUBSET (1..n), s # {}
        PROVE  g[s] = Visit(g[s \ {Max(s)}], DirOrder[Max(s)])
    <3>1. <<Max(s), g[s \ {Max(s)}]>> \in (1..n) \X V
      BY <1>5, <1>6, <2>1
    <3> QED  BY <1>3, <1>5, <2>1, <3>1 DEF Folds
  <2> QED  BY <1>2, <1>5, <2>1 DEF Folds, WalkStart
<1>8. PICK f : F(f) /\ Walk = f[D]
  <2> HIDE DEF F
  <2> QED  BY <1>1, <1>7
<1>9. f[{}] = WalkStart
  BY <1>8 DEF WalkStart
<1>10. ASSUME NEW s \in SUBSET (1..n), s # {}, f[s \ {Max(s)}] \in V
       PROVE  f[s] = next[<<Max(s), f[s \ {Max(s)}]>>]
  <2>1. <<Max(s), f[s \ {Max(s)}]>> \in (1..n) \X V
    BY <1>6, <1>10
  <2> QED  BY <1>2, <1>3, <1>8, <1>10, <2>1
<1>11. PICK walk \in [0..n -> V] : Loops(walk, f, n, WalkStart, next)
  <2>1. Computes(f, V, n, WalkStart, next)
    BY <1>9, <1>10 DEF Computes
  <2> HIDE DEF F
  <2> QED  BY <1>4, <2>1, LoopOf
<1>12. ASSUME NEW k \in 1..n PROVE walk[k] = Visit(walk[k - 1], DirOrder[k])
  <2>1. <<k, walk[k - 1]>> \in (1..n) \X V
    <3>1. k - 1 \in 0..n
      OBVIOUS
    <3> QED  BY <1>11, <3>1
  <2> QED  BY <1>3, <1>11, <2>1 DEF Loops
<1> QED  BY <1>2, <1>8, <1>11, <1>12 DEF Loops, V

\* A directory that the walk does not look into: it has the name of one that is skipped,
\* its entries cannot be read, or it is a repository.
Stops(dir) ==
    \/ dir # WorkingDir /\ Last(dir) \in SkippedNames
    \/ tree[dir] \in {"unlistable", "repo"}

\* What holds of the walk after k directories: what is skipped are directories that stop
\* it, each such directory is in a skipped one, and what is found are the repositories
\* that are expected, each once.
WalkInv(walk, k) ==
    /\ \A top \in walk.skipped :
          \E i \in 1..k : top = DirOrder[i] /\ IsPrefix(WorkingDir, top) /\ Stops(top)
    /\ \A i \in 1..k :
          IsPrefix(WorkingDir, DirOrder[i]) /\ Stops(DirOrder[i])
              => \E top \in walk.skipped : IsPrefix(top, DirOrder[i])
    /\ \A i \in 1..k : DirOrder[i] \in Expected <=> DirOrder[i] \in ToSet(walk.found)
    /\ \A j \in DOMAIN walk.found : \E i \in 1..k : walk.found[j] = DirOrder[i]
    /\ IsInjective(walk.found)

\* The order of the walk: a directory comes before what is in it.
LEMMA OrderIsStrict ==
    ASSUME NEW i \in 1..Len(DirOrder), NEW j \in 1..Len(DirOrder)
    PROVE  /\ IsPrefix(DirOrder[i], DirOrder[j]) => i <= j
           /\ DirOrder[i] = DirOrder[j] => i = j
<1>1. DOMAIN DirOrder = 1..Len(DirOrder) /\ DirOrder[i] \in Seq(STRING)
  BY DirOrderAssumption
<1>2. \A a, b \in 1..Len(DirOrder) : IsPrefix(DirOrder[a], DirOrder[b]) => a <= b
  BY <1>1, DirOrderAssumption
<1>3. ASSUME DirOrder[i] = DirOrder[j] PROVE i = j
  <2>1. IsPrefix(DirOrder[i], DirOrder[j]) /\ IsPrefix(DirOrder[j], DirOrder[i])
    BY <1>1, <1>3, PrefixReflexive
  <2>2. i <= j /\ j <= i
    BY <1>2, <2>1
  <2> QED  BY <2>2
<1> QED  BY <1>2, <1>3

\* Behind a directory that stops the walk nothing is expected.
LEMMA BehindIsUnexpected ==
    ASSUME tree \in Trees, Around = {},
           NEW i \in 1..Len(DirOrder), NEW j \in 1..Len(DirOrder),
           IsPrefix(WorkingDir, DirOrder[i]), Stops(DirOrder[i]),
           IsPrefix(DirOrder[i], DirOrder[j]), i # j
    PROVE  DirOrder[j] \notin Expected
<1>1. PICK top, dir : top = DirOrder[i] /\ dir = DirOrder[j]
  OBVIOUS
<1>2. /\ top \in Seq(STRING) /\ top \in DOMAIN tree
      /\ dir \in Seq(STRING) /\ dir \in DOMAIN tree /\ top # dir
  BY <1>1, OrderAt, OrderIsStrict
<1>3. InWay(top, dir)
  BY <1>1, <1>2 DEF InWay, Stops
<1> QED  BY <1>1, <1>2, <1>3 DEF Expected

\* One directory of the walk.
LEMMA VisitKeeps ==
    ASSUME tree \in Trees, Around = {}, NEW k \in 1..Len(DirOrder),
           NEW walk \in [found : Seq(Seq(STRING)), skipped : SUBSET Seq(STRING),
                         failed : BOOLEAN],
           NEW next, next = Visit(walk, DirOrder[k]), ~ next.failed,
           ~ walk.failed => WalkInv(walk, k - 1)
    PROVE  ~ walk.failed /\ WalkInv(next, k)
<1>1. PICK dir : dir = DirOrder[k]
  OBVIOUS
<1>2. dir \in Seq(STRING) /\ dir \in DOMAIN tree /\ tree[dir] \in Kinds
  BY <1>1, OrderAt
<1>3. PICK w \in Seq(STRING) : w = WorkingDir
  BY DirOrderAssumption, OrderAt DEF ToSet
<1>4. ~ walk.failed
  BY <1>1 DEF Visit
<1>5. PICK old \in Nat : old = k - 1 /\ WalkInv(walk, old)
  BY <1>4
<1>6. \A i \in 1..k : i = k \/ i \in 1..old
  BY <1>5
<1>7. \A i \in 1..old : i \in 1..k /\ i \in 1..Len(DirOrder) /\ i < k /\ DirOrder[i] # dir
  <2> TAKE i \in 1..old
  <2>1. i \in 1..k /\ i \in 1..Len(DirOrder) /\ i < k /\ Len(DirOrder) \in Nat
    BY <1>5, DirOrderAssumption
  <2> QED  BY <1>1, <2>1, OrderIsStrict
<1>8. \A j \in DOMAIN walk.found : walk.found[j] # dir
  BY <1>5, <1>7 DEF WalkInv
<1>9. \A i \in 1..k - 1 : DirOrder[i] \in Expected <=> DirOrder[i] \in ToSet(walk.found)
  BY <1>5 DEF WalkInv
<1> DEFINE elsewhere == ~ IsPrefix(WorkingDir, dir)
           behind == \E top \in walk.skipped : IsPrefix(top, dir)
           named == dir # WorkingDir /\ SkipDiscoveryDirectory(Last(dir))
\* It is left alone.
<1>10. ASSUME next = walk, dir \notin Expected,
              ~ elsewhere /\ Stops(dir) => behind
       PROVE  WalkInv(next, k)
  <2>1. \A top \in walk.skipped :
           \E i \in 1..k : top = DirOrder[i] /\ IsPrefix(WorkingDir, top) /\ Stops(top)
    BY <1>5, <1>7 DEF WalkInv
  <2>2. \A i \in 1..k :
           IsPrefix(WorkingDir, DirOrder[i]) /\ Stops(DirOrder[i])
              => \E top \in walk.skipped : IsPrefix(top, DirOrder[i])
    BY <1>1, <1>5, <1>6, <1>10 DEF WalkInv
  <2>3. \A i \in 1..k : DirOrder[i] \in Expected <=> DirOrder[i] \in ToSet(walk.found)
    <3>1. dir \notin ToSet(walk.found)
      BY <1>8 DEF ToSet
    <3> QED  BY <1>1, <1>5, <1>6, <1>10, <3>1 DEF WalkInv
  <2>4. \A j \in DOMAIN walk.found : \E i \in 1..k : walk.found[j] = DirOrder[i]
    BY <1>5, <1>7 DEF WalkInv
  <2> QED  BY <1>5, <1>10, <2>1, <2>2, <2>3, <2>4 DEF WalkInv
\* It is skipped.
<1>11. ASSUME ~ elsewhere, Stops(dir), next.skipped = walk.skipped \cup {dir},
              \/ next.found = walk.found /\ dir \notin Expected
              \/ next.found = Append(walk.found, dir) /\ dir \in Expected
       PROVE  WalkInv(next, k)
  <2>1. \A top \in next.skipped :
           \E i \in 1..k : top = DirOrder[i] /\ IsPrefix(WorkingDir, top) /\ Stops(top)
    BY <1>1, <1>5, <1>7, <1>11 DEF WalkInv
  <2>2. IsPrefix(dir, dir)
    BY <1>2, PrefixReflexive
  <2>3. \A i \in 1..k :
           IsPrefix(WorkingDir, DirOrder[i]) /\ Stops(DirOrder[i])
              => \E top \in next.skipped : IsPrefix(top, DirOrder[i])
    BY <1>1, <1>5, <1>6, <1>11, <2>2 DEF WalkInv
  <2>4. CASE next.found = walk.found /\ dir \notin Expected
    <3>1. dir \notin ToSet(walk.found)
      BY <1>8 DEF ToSet
    <3>2. \A i \in 1..k : DirOrder[i] \in Expected <=> DirOrder[i] \in ToSet(next.found)
      BY <1>1, <1>5, <1>6, <2>4, <3>1 DEF WalkInv
    <3>3. \A j \in DOMAIN next.found : \E i \in 1..k : next.found[j] = DirOrder[i]
      BY <1>5, <1>7, <2>4 DEF WalkInv
    <3> QED  BY <1>5, <2>1, <2>3, <2>4, <3>2, <3>3 DEF WalkInv
  <2>5. CASE next.found = Append(walk.found, dir) /\ dir \in Expected
    <3>1. PICK n \in Nat : n = Len(walk.found) /\ DOMAIN walk.found = 1..n
      OBVIOUS
    <3>2. /\ DOMAIN next.found = 1..n + 1 /\ next.found[n + 1] = dir
          /\ \A j \in 1..n : next.found[j] = walk.found[j]
      BY <1>2, <2>5, <3>1
    <3>3. ToSet(next.found) = ToSet(walk.found) \cup {dir}
      <4>1. \A j \in 1..n + 1 : j = n + 1 \/ j \in 1..n
        OBVIOUS
      <4>2. \A j \in 1..n : j \in 1..n + 1
        OBVIOUS
      <4>3. n + 1 \in 1..n + 1
        OBVIOUS
      <4> QED  BY <3>1, <3>2, <4>1, <4>2, <4>3 DEF ToSet
    <3>4. \A i \in 1..k : DirOrder[i] \in Expected <=> DirOrder[i] \in ToSet(next.found)
      BY <1>1, <1>5, <1>6, <1>7, <2>5, <3>3 DEF WalkInv
    <3>5. \A j \in DOMAIN next.found : \E i \in 1..k : next.found[j] = DirOrder[i]
      <4> TAKE j \in DOMAIN next.found
      <4>1. CASE j = n + 1
        BY <1>1, <3>2, <4>1
      <4>2. CASE j \in 1..n
        <5>1. PICK i \in 1..old : walk.found[j] = DirOrder[i]
          BY <1>5, <3>1, <4>2 DEF WalkInv
        <5> QED  BY <1>7, <3>2, <4>2, <5>1
      <4> QED  BY <3>2, <4>1, <4>2
    <3>6. IsInjective(next.found)
      <4> SUFFICES ASSUME NEW a \in 1..n + 1, NEW b \in 1..n + 1,
                          next.found[a] = next.found[b]
                   PROVE  a = b
        BY <3>2 DEF IsInjective
      <4>1. CASE a \in 1..n /\ b \in 1..n
        BY <1>5, <3>1, <3>2, <4>1 DEF WalkInv, IsInjective
      <4>2. CASE a = n + 1 /\ b \in 1..n
        BY <1>8, <3>1, <3>2, <4>2
      <4>3. CASE a \in 1..n /\ b = n + 1
        BY <1>8, <3>1, <3>2, <4>3
      <4> QED  BY <4>1, <4>2, <4>3
    <3> QED  BY <2>1, <2>3, <3>4, <3>5, <3>6 DEF WalkInv
  <2> QED  BY <1>11, <2>4, <2>5
\* Which of both.
<1>12. CASE elsewhere
  <2>1. next = walk
    BY <1>1, <1>12 DEF Visit
  <2>2. dir \notin Expected
    <3>1. Expected = {repo \in Repositories :
             IsPrefix(WorkingDir, repo) /\ ~ \E d \in DOMAIN tree : InWay(d, repo)}
      BY DEF Expected
    <3> QED  BY <1>12, <3>1
  <2> QED  BY <1>4, <1>10, <1>12, <2>1, <2>2
<1>13. CASE ~ elsewhere /\ behind
  <2>1. next = walk
    BY <1>1, <1>13 DEF Visit
  <2>2. PICK top \in walk.skipped : IsPrefix(top, dir)
    BY <1>13
  <2>3. PICK i \in 1..old : top = DirOrder[i] /\ IsPrefix(WorkingDir, top) /\ Stops(top)
    BY <1>5 DEF WalkInv
  <2>4. i \in 1..Len(DirOrder) /\ i # k
    BY <1>7, <2>3
  <2>5. dir \notin Expected
    BY <1>1, <2>2, <2>3, <2>4, BehindIsUnexpected
  <2> QED  BY <1>4, <1>10, <1>13, <2>1, <2>5
<1>14. CASE ~ elsewhere /\ ~ behind /\ (named \/ tree[dir] = "unlistable")
  <2>1. next = [walk EXCEPT !.skipped = @ \cup {dir}]
    BY <1>1, <1>4, <1>14 DEF Visit
  <2>2. Stops(dir)
    BY <1>14 DEF Stops, SkipDiscoveryDirectory
  <2>3. dir \notin Expected
    <3>1. CASE named
      <4>1. IsPrefix(dir, dir)
        BY <1>2, PrefixReflexive
      <4>2. InWay(dir, dir)
        BY <1>14, <3>1, <4>1 DEF InWay, SkipDiscoveryDirectory
      <4> QED  BY <1>2, <4>2 DEF Expected
    <3>2. CASE tree[dir] = "unlistable"
      BY <3>2 DEF Expected, Repositories
    <3> QED  BY <1>14, <3>1, <3>2
  <2>4. next.skipped = walk.skipped \cup {dir} /\ next.found = walk.found
    BY <2>1
  <2> QED  BY <1>4, <1>11, <1>14, <2>2, <2>3, <2>4
<1>15. CASE ~ elsewhere /\ ~ behind /\ ~ named /\ tree[dir] = "repo"
  <2>1. next = [walk EXCEPT !.skipped = @ \cup {dir}, !.found = Append(@, dir)]
    BY <1>1, <1>4, <1>15 DEF Visit
  <2>2. Stops(dir)
    BY <1>15 DEF Stops
  <2>3. ASSUME NEW i \in 1..Len(DirOrder), DirOrder[i] # dir, IsPrefix(DirOrder[i], dir),
               IsPrefix(WorkingDir, DirOrder[i]), Stops(DirOrder[i])
        PROVE  FALSE
    <3>1. i <= k /\ i # k
      BY <1>1, <2>3, OrderIsStrict
    <3>2. i \in 1..old
      BY <1>5, <3>1
    <3>3. PICK top \in walk.skipped : IsPrefix(top, DirOrder[i])
      BY <1>5, <2>3, <3>2 DEF WalkInv
    <3>4. DirOrder[i] \in Seq(STRING) /\ top \in Seq(STRING)
      BY <1>4, OrderAt
    <3>5. IsPrefix(top, dir)
      BY <1>2, <2>3, <3>3, <3>4, PrefixTransitive
    <3> QED  BY <1>15, <3>5
  <2>5. ASSUME NEW d \in DOMAIN tree, InWay(d, dir) PROVE FALSE
    <3>1. PICK i \in 1..Len(DirOrder) : DirOrder[i] = d
      <4>1. DOMAIN tree = ToSet(DirOrder) /\ DOMAIN DirOrder = 1..Len(DirOrder)
        BY DirOrderAssumption, TreesAssumption
      <4> QED  BY <4>1 DEF ToSet
    <3>2. IsPrefix(WorkingDir, d) /\ IsPrefix(d, dir)
      BY <2>5 DEF InWay
    <3>3. d # dir
      BY <1>15, <2>5 DEF InWay, SkipDiscoveryDirectory
    <3>4. Stops(d)
      BY <2>5 DEF InWay, Stops
    <3> QED  BY <2>3, <3>1, <3>2, <3>3, <3>4
  <2>6. dir \in Expected
    BY <1>2, <1>15, <2>5 DEF Expected, Repositories
  <2>7. next.skipped = walk.skipped \cup {dir} /\ next.found = Append(walk.found, dir)
    BY <2>1
  <2> QED  BY <1>4, <1>11, <1>15, <2>2, <2>6, <2>7
<1>16. CASE ~ elsewhere /\ ~ behind /\ ~ named /\ tree[dir] \in {"plain", "unsearchable"}
  <2>1. next = [walk EXCEPT !.failed = tree[dir] = "unsearchable"]
    BY <1>1, <1>4, <1>16 DEF Visit
  <2>2. tree[dir] = "plain"
    BY <1>16, <2>1
  <2>3. next = walk
    BY <1>4, <2>1, <2>2
  <2>4. dir \notin Expected /\ ~ Stops(dir)
    BY <1>16, <2>2 DEF Expected, Repositories, Stops, SkipDiscoveryDirectory
  <2> QED  BY <1>4, <1>10, <2>3, <2>4
<1>17. tree[dir] \in {"plain", "repo", "unlistable", "unsearchable"}
  BY <1>2 DEF Kinds
<1> QED  BY <1>12, <1>13, <1>14, <1>15, <1>16, <1>17

\* The walk finds what is expected.
LEMMA WalkFinds ==
    ASSUME tree \in Trees, Around = {}, ~ Walk.failed
    PROVE  /\ Walk.found \in Seq(Seq(STRING)) /\ IsInjective(Walk.found)
           /\ ToSet(Walk.found) = Expected
<1>1. PICK n \in Nat : n = Len(DirOrder)
  BY DirOrderAssumption
<1>2. PICK V : V = [found : Seq(Seq(STRING)), skipped : SUBSET Seq(STRING), failed : BOOLEAN]
  OBVIOUS
<1>3. PICK walk \in [0..n -> V] :
         /\ walk[0] = WalkStart
         /\ \A k \in 1..n : walk[k] = Visit(walk[k - 1], DirOrder[k])
         /\ Walk = walk[n]
  BY <1>1, <1>2, WalkLoop
<1> DEFINE S == {k \in 0..n : ~ walk[k].failed => WalkInv(walk[k], k)}
<1>4. 0 \in S
  <2>1. WalkInv(WalkStart, 0)
    BY DEF WalkInv, WalkStart, IsInjective
  <2> QED  BY <1>3, <2>1
<1>5. ASSUME NEW k \in 1..n, k - 1 \in S PROVE k \in S
  <2>1. /\ k \in 0..n /\ k - 1 \in 0..n /\ walk[k - 1] \in V
        /\ walk[k] = Visit(walk[k - 1], DirOrder[k])
    BY <1>3
  <2>2. ~ walk[k - 1].failed => WalkInv(walk[k - 1], k - 1)
    BY <1>5
  <2>3. ASSUME ~ walk[k].failed PROVE WalkInv(walk[k], k)
    BY <1>1, <1>2, <2>1, <2>2, <2>3, VisitKeeps
  <2> QED  BY <2>1, <2>3
<1>6. n \in S
  <2> HIDE DEF S
  <2>1. n \in 0..n
    OBVIOUS
  <2> QED  BY <1>4, <1>5, <2>1, LoopKeeps
<1>7. WalkInv(Walk, n) /\ Walk \in V
  <2>1. n \in 0..n
    OBVIOUS
  <2> QED  BY <1>3, <1>6, <2>1
<1>8. \A repo \in Expected : \E i \in 1..n : repo = DirOrder[i]
  <2>1. Expected \subseteq DOMAIN tree
    BY DEF Expected, Repositories
  <2>2. DOMAIN tree = ToSet(DirOrder) /\ DOMAIN DirOrder = 1..n
    BY <1>1, DirOrderAssumption, TreesAssumption
  <2> QED  BY <2>1, <2>2 DEF ToSet
<1>9. ToSet(Walk.found) = Expected
  <2>1. ASSUME NEW repo \in Expected PROVE repo \in ToSet(Walk.found)
    BY <1>7, <1>8 DEF WalkInv
  <2>2. ASSUME NEW repo \in ToSet(Walk.found) PROVE repo \in Expected
    <3>1. PICK i \in 1..n : repo = DirOrder[i]
      BY <1>7 DEF WalkInv, ToSet
    <3> QED  BY <1>7, <3>1 DEF WalkInv
  <2> QED  BY <2>1, <2>2
<1> QED  BY <1>2, <1>7, <1>9 DEF WalkInv

-----------------------------------------------------------------------------
(* Lists of lists *)

\* A loop over 1..n computes something.
Iterates(loop, n, base, next) ==
    loop[0] = base /\ \A k \in 1..n : loop[k] = next[<<k, loop[k - 1]>>]

LEMMA LoopExists ==
    ASSUME NEW V, NEW n \in Nat, NEW base \in V, NEW next \in [(1..n) \X V -> V]
    PROVE  \E loop \in [0..n -> V] : Iterates(loop, n, base, next)
<1>1. PICK g \in [SUBSET (1..n) -> V] : Folds(g, n, base, next)
  BY FoldExists
<1>2. Computes(g, V, n, base, next)
  BY <1>1 DEF Computes, Folds
<1>3. PICK loop \in [0..n -> V] : Loops(loop, g, n, base, next)
  BY <1>2, LoopOf
<1> QED  BY <1>3 DEF Loops, Iterates

\* Places behind the first a.
LEMMA Offset ==
    ASSUME NEW a \in Nat, NEW l \in Nat
    PROVE  /\ \A j \in 1..l : a + j \in 1..a + l
           /\ \A y \in 1..a + l : y > a => y - a \in 1..l /\ y = a + (y - a)
  OBVIOUS

\* What a concatenation has where.
LEMMA Joined ==
    ASSUME NEW S, NEW a \in Seq(S), NEW b \in Seq(S),
           NEW m \in Nat, m = Len(a), NEW n \in Nat, n = Len(b)
    PROVE  /\ a \o b \in Seq(S) /\ Len(a \o b) = m + n
           /\ \A i \in 1..m : (a \o b)[i] = a[i]
           /\ \A i \in 1..n : (a \o b)[m + i] = b[i]
  OBVIOUS

\* Flattened lists stand one after the other: list k after at[k - 1] others.
Placed(at, list, seqs, n) ==
    /\ at[0] = 0 /\ \A k \in 1..n : at[k] = at[k - 1] + Len(seqs[k])
    /\ Len(list) = at[n]
    /\ \A k \in 1..n : \A i \in 1..Len(seqs[k]) :
          at[k - 1] + i \in 1..at[n] /\ list[at[k - 1] + i] = seqs[k][i]
    /\ \A x \in 1..at[n] : \E k \in 1..n : \E i \in 1..Len(seqs[k]) : x = at[k - 1] + i

LEMMA FlattenIs ==
    ASSUME NEW S, NEW n \in Nat, NEW seqs \in [1..n -> Seq(S)]
    PROVE  /\ FlattenSeq(seqs) \in Seq(S)
           /\ \E at \in [0..n -> Nat] : Placed(at, FlattenSeq(seqs), seqs, n)
<1> DEFINE F(f) == f = [i \in 1..Len(seqs) |->
                          IF i = 1 THEN seqs[i] ELSE f[i - 1] \o seqs[i]]
<1>1. FlattenSeq(seqs) = IF Len(seqs) = 0 THEN seqs ELSE (CHOOSE f : F(f))[Len(seqs)]
  BY DEF FlattenSeq
<1>2. Len(seqs) = n /\ seqs \in Seq(Seq(S))
  <2>1. seqs \in Seq(Seq(S)) /\ DOMAIN seqs = 1..n
    BY SeqDef
  <2> QED  BY <2>1, LenProperties
<1>3. PICK next : next = [kv \in (1..n) \X Seq(S) |-> kv[2] \o seqs[kv[1]]]
  OBVIOUS
<1>4. next \in [(1..n) \X Seq(S) -> Seq(S)] /\ << >> \in Seq(S)
  BY <1>3
<1>5. PICK loop \in [0..n -> Seq(S)] :
         loop[0] = << >> /\ \A k \in 1..n : loop[k] = next[<<k, loop[k - 1]>>]
  <2>1. \E loop \in [0..n -> Seq(S)] : Iterates(loop, n, << >>, next)
    <3> HIDE DEF F
    <3> QED  BY <1>4, LoopExists
  <2> QED  BY <2>1 DEF Iterates
<1>6. ASSUME NEW k \in 1..n
      PROVE  /\ k - 1 \in 0..n /\ loop[k - 1] \in Seq(S) /\ seqs[k] \in Seq(S)
             /\ loop[k] = loop[k - 1] \o seqs[k]
  <2>1. k - 1 \in 0..n
    OBVIOUS
  <2>2. <<k, loop[k - 1]>> \in (1..n) \X Seq(S)
    BY <1>5, <2>1
  <2> QED  BY <1>3, <1>5, <2>1, <2>2
<1>7. 0 \in 0..n /\ n \in 0..n /\ \A k \in 1..n : k \in 0..n
  OBVIOUS
<1>8. FlattenSeq(seqs) = loop[n]
  <2>1. CASE n = 0
    <3>1. seqs = << >>
      BY <1>2, <2>1
    <3> QED  BY <1>1, <1>2, <1>5, <2>1, <3>1
  <2>2. CASE n # 0
    <3>1. PICK g : g = [k \in 1..n |-> loop[k]]
      OBVIOUS
    <3>2. F(g)
      <4>1. ASSUME NEW i \in 1..n
            PROVE  loop[i] = IF i = 1 THEN seqs[i] ELSE g[i - 1] \o seqs[i]
        <5>1. CASE i = 1
          <6>1. i - 1 = 0
            BY <5>1
          <6>2. loop[i] = << >> \o seqs[i]
            BY <1>5, <1>6, <6>1
          <6> QED  BY <1>6, <5>1, <6>2
        <5>2. CASE i # 1
          <6>1. i - 1 \in 1..n
            BY <5>2
          <6> QED  BY <1>6, <3>1, <5>2, <6>1
        <5> QED  BY <5>1, <5>2
      <4> QED  BY <1>2, <3>1, <4>1
    <3>3. PICK f : F(f) /\ FlattenSeq(seqs) = f[n]
      <4> HIDE DEF F
      <4> QED  BY <1>1, <1>2, <2>2, <3>2
    <3> DEFINE T == {k \in 0..n : k # 0 => f[k] = loop[k]}
    <3>4. 0 \in T
      OBVIOUS
    <3>5. ASSUME NEW k \in 1..n, k - 1 \in T PROVE k \in T
      <4>1. CASE k = 1
        <5>1. k - 1 = 0
          BY <4>1
        <5>2. loop[k] = << >> \o seqs[k]
          BY <1>5, <1>6, <5>1
        <5>3. loop[k] = seqs[k]
          BY <1>6, <5>2
        <5>4. f[k] = seqs[k]
          BY <1>2, <3>3, <4>1
        <5> QED  BY <1>7, <5>3, <5>4
      <4>2. CASE k # 1
        <5>1. f[k] = f[k - 1] \o seqs[k]
          BY <1>2, <3>3, <4>2
        <5>2. f[k - 1] = loop[k - 1]
          BY <3>5, <4>2
        <5> QED  BY <1>6, <1>7, <5>1, <5>2
      <4> QED  BY <4>1, <4>2
    <3>6. n \in T
      <4> HIDE DEF T
      <4> QED  BY <1>7, <3>4, <3>5, LoopKeeps
    <3> QED  BY <2>2, <3>3, <3>6
  <2> QED  BY <2>1, <2>2
<1>9. PICK at : at = [k \in 0..n |-> Len(loop[k])]
  OBVIOUS
<1>10. at \in [0..n -> Nat] /\ at[0] = 0 /\ \A k \in 0..n : at[k] = Len(loop[k])
  BY <1>5, <1>7, <1>9
<1>11. ASSUME NEW k \in 1..n
       PROVE  /\ at[k - 1] \in Nat /\ at[k] \in Nat /\ Len(seqs[k]) \in Nat
              /\ at[k] = at[k - 1] + Len(seqs[k])
              /\ \A i \in 1..at[k - 1] : loop[k][i] = loop[k - 1][i]
              /\ \A i \in 1..Len(seqs[k]) : loop[k][at[k - 1] + i] = seqs[k][i]
  <2>1. /\ at[k - 1] = Len(loop[k - 1]) /\ at[k] = Len(loop[k])
        /\ at[k - 1] \in Nat /\ at[k] \in Nat /\ Len(seqs[k]) \in Nat
    <3>1. k - 1 \in 0..n /\ k \in 0..n
      OBVIOUS
    <3>2. Len(seqs[k]) \in Nat
      BY <1>6
    <3> HIDE DEF F
    <3> QED  BY <1>10, <3>1, <3>2
  <2>2. PICK a \in Seq(S), b \in Seq(S) : a = loop[k - 1] /\ b = seqs[k]
    BY <1>6
  <2>3. PICK l \in Nat, m \in Nat : l = Len(a) /\ m = Len(b)
    BY <2>2
  <2>4. /\ Len(a \o b) = l + m /\ \A i \in 1..l : (a \o b)[i] = a[i]
        /\ \A i \in 1..m : (a \o b)[l + i] = b[i]
    BY <2>3, Joined
  <2>5. loop[k] = a \o b
    BY <1>6, <2>2
  <2> QED  BY <2>1, <2>2, <2>3, <2>4, <2>5
<1> DEFINE Is(m) ==
             /\ \A k \in 1..m : \A i \in 1..Len(seqs[k]) :
                   at[k - 1] + i \in 1..at[m] /\ loop[m][at[k - 1] + i] = seqs[k][i]
             /\ \A x \in 1..at[m] : \E k \in 1..m : \E i \in 1..Len(seqs[k]) : x = at[k - 1] + i
           T == {m \in 0..n : Is(m)}
<1>12. 0 \in T
  BY <1>7, <1>10
<1>13. ASSUME NEW m \in 1..n, m - 1 \in T PROVE m \in T
  <2>1. PICK a \in Nat, b \in Nat, l \in Nat :
           a = at[m - 1] /\ b = at[m] /\ l = Len(seqs[m]) /\ b = a + l
    BY <1>11
  <2>2. \A k \in 1..m : k = m \/ k \in 1..m - 1
    OBVIOUS
  <2>3. Is(m - 1)
    BY <1>13
  <2>4. ASSUME NEW k \in 1..m, NEW i \in 1..Len(seqs[k])
        PROVE  at[k - 1] + i \in 1..b /\ loop[m][at[k - 1] + i] = seqs[k][i]
    <3>1. CASE k = m
      <4>1. PICK j \in 1..l : j = i
        BY <2>1, <2>4, <3>1
      <4>3. a + j \in 1..b
        BY <2>1, Offset
      <4>4. i \in 1..l /\ a + i \in 1..b
        BY <4>1, <4>3
      <4> QED  BY <1>11, <2>1, <3>1, <4>4
    <3>2. CASE k \in 1..m - 1
      <4>1. PICK y : y = at[k - 1] + i
        OBVIOUS
      <4>2. y \in 1..a /\ loop[m - 1][y] = seqs[k][i]
        BY <2>1, <2>3, <2>4, <3>2, <4>1
      <4>3. loop[m][y] = loop[m - 1][y] /\ y \in 1..b
        BY <1>11, <2>1, <4>2
      <4> QED  BY <4>1, <4>2, <4>3
    <3> QED  BY <2>2, <3>1, <3>2
  <2>5. ASSUME NEW x \in 1..b
        PROVE  \E k \in 1..m : \E i \in 1..Len(seqs[k]) : x = at[k - 1] + i
    <3>1. CASE x <= a
      <4>1. PICK k \in 1..m - 1 : \E i \in 1..Len(seqs[k]) : x = at[k - 1] + i
        BY <2>1, <2>3, <3>1
      <4>2. k \in 1..m
        OBVIOUS
      <4> QED  BY <4>1, <4>2
    <3>2. CASE ~ (x <= a)
      <4>1. PICK y \in 1..a + l : y = x
        <5>1. b = a + l
          BY <2>1
        <5>2. x \in 1..a + l
          BY <5>1
        <5> QED  BY <5>2
      <4>2. y > a
        <5>1. y \in Int /\ ~ (y <= a)
          BY <3>2, <4>1
        <5> QED  BY <5>1
      <4>3. y - a \in 1..l /\ y = a + (y - a)
        BY <4>2, Offset
      <4>4. m \in 1..m
        OBVIOUS
      <4> QED  BY <2>1, <4>1, <4>3, <4>4
    <3> QED  BY <3>1, <3>2
  <2> QED  BY <1>7, <2>1, <2>4, <2>5
<1>14. n \in T
  <2> HIDE DEF T
  <2> QED  BY <1>7, <1>12, <1>13, LoopKeeps
<1>15. Is(n)
  BY <1>14
<1>16. loop[n] \in Seq(S) /\ Len(loop[n]) = at[n]
  BY <1>7, <1>10
<1>17. Placed(at, loop[n], seqs, n)
  <2> HIDE DEF F, T
  <2> QED  BY <1>10, <1>11, <1>15, <1>16 DEF Placed
<1> HIDE DEF F
<1> QED  BY <1>8, <1>10, <1>16, <1>17

\* A finite set as a list has every element once.
LEMMA SetToSeqIs ==
    ASSUME NEW S, IsFiniteSet(S)
    PROVE  /\ Cardinality(S) \in Nat /\ SetToSeq(S) \in [1..Cardinality(S) -> S]
           /\ IsInjective(SetToSeq(S))
           /\ \A x \in S : \E k \in 1..Cardinality(S) : SetToSeq(S)[k] = x
<1>1. PICK n \in Nat : n = Cardinality(S) /\ ExistsBijection(1..n, S)
  BY FS_CardinalityType
<1>2. \E f \in [1..n -> S] : IsInjective(f)
  BY <1>1 DEF ExistsBijection, Bijection, Injection
<1>3. PICK list : list = SetToSeq(S)
  OBVIOUS
<1>4. list \in [1..n -> S] /\ IsInjective(list)
  BY <1>1, <1>2, <1>3 DEF SetToSeq
<1>5. list \in Injection(1..n, S)
  BY <1>4 DEF Injection
<1>6. IsFiniteSet(1..n) /\ Cardinality(1..n) = n
  BY <1>1, FS_Interval
<1>7. list \in Surjection(1..n, S)
  BY <1>1, <1>5, <1>6, FS_Injection
<1> QED  BY <1>1, <1>3, <1>4, <1>7 DEF Surjection

-----------------------------------------------------------------------------
(* The status *)

Names == STRING \cup {"..."}
EntryType == [code : STRING \cup {"?"}, path : Seq(Names)]
ParseTypes == [files : SUBSET Seq(Names), origin : BOOLEAN]
ParseStart == [files |-> {}, origin |-> FALSE]
Parsed(s, entry) ==
    IF s.origin THEN [s EXCEPT !.origin = FALSE]
    ELSE [files |-> s.files \cup {entry.path}, origin |-> entry.code \in Moved]

\* After k entries of the status.
LEMMA ParseLoop ==
    ASSUME NEW entries \in Seq(EntryType), NEW n \in Nat, n = Len(entries)
    PROVE  \E parsed \in [0..n -> ParseTypes] :
              /\ parsed[0] = ParseStart
              /\ \A k \in 1..n : parsed[k] = Parsed(parsed[k - 1], entries[k])
              /\ ParsePorcelain(entries) = parsed[n].files
<1> DEFINE D == DOMAIN entries
           V == ParseTypes
           F(f) == f = [s \in SUBSET D |->
                          IF s = {} THEN [files |-> {}, origin |-> FALSE]
                          ELSE IF f[s \ {Max(s)}].origin
                                 THEN [f[s \ {Max(s)}] EXCEPT !.origin = FALSE]
                               ELSE [files |-> f[s \ {Max(s)}].files
                                                 \cup {entries[Max(s)].path},
                                     origin |-> entries[Max(s)].code \in Moved]]
<1>1. ParsePorcelain(entries) = (CHOOSE f : F(f))[D].files
  BY DEF ParsePorcelain, FoldLeft, MapThenFoldSet
<1>2. D = 1..n
  OBVIOUS
<1>3. PICK next : next = [kv \in (1..n) \X V |-> Parsed(kv[2], entries[kv[1]])]
  OBVIOUS
<1>4. next \in [(1..n) \X V -> V] /\ ParseStart \in V
  <2>1. ASSUME NEW s \in V, NEW k \in 1..n PROVE Parsed(s, entries[k]) \in V
    <3>1. PICK e \in EntryType : e = entries[k]
      OBVIOUS
    <3>2. e.path \in Seq(Names)
      BY DEF EntryType
    <3>3. [s EXCEPT !.origin = FALSE] \in ParseTypes
      BY DEF ParseTypes
    <3>4. [files |-> s.files \cup {e.path}, origin |-> e.code \in Moved] \in ParseTypes
      BY <3>2 DEF ParseTypes
    <3> QED  BY <3>1, <3>3, <3>4 DEF Parsed
  <2>2. ParseStart \in V
    BY DEF ParseStart, ParseTypes
  <2> HIDE DEF V
  <2> QED  BY <1>3, <2>1, <2>2
<1> HIDE DEF V
<1>5. PICK g \in [SUBSET (1..n) -> V] : Folds(g, n, ParseStart, next)
  BY <1>4, FoldExists
<1>6. ASSUME NEW s \in SUBSET (1..n), s # {}
      PROVE  Max(s) \in 1..n /\ s \ {Max(s)} \in SUBSET (1..n)
  BY <1>6, MaxInside
<1>7. F(g)
  <2>1. ASSUME NEW s \in SUBSET (1..n), s # {}
        PROVE  g[s] = Parsed(g[s \ {Max(s)}], entries[Max(s)])
    <3>1. <<Max(s), g[s \ {Max(s)}]>> \in (1..n) \X V
      BY <1>5, <1>6, <2>1
    <3> QED  BY <1>3, <1>5, <2>1, <3>1 DEF Folds
  <2> QED  BY <1>2, <1>5, <2>1 DEF Folds, ParseStart, Parsed
<1>8. PICK f : F(f) /\ ParsePorcelain(entries) = f[D].files
  <2> HIDE DEF F
  <2> QED  BY <1>1, <1>7
<1>9. f[{}] = ParseStart
  BY <1>8 DEF ParseStart
<1>10. ASSUME NEW s \in SUBSET (1..n), s # {}, f[s \ {Max(s)}] \in V
       PROVE  f[s] = next[<<Max(s), f[s \ {Max(s)}]>>]
  <2>1. <<Max(s), f[s \ {Max(s)}]>> \in (1..n) \X V
    BY <1>6, <1>10
  <2>2. f[s] = Parsed(f[s \ {Max(s)}], entries[Max(s)])
    BY <1>2, <1>8, <1>10 DEF Parsed
  <2> HIDE DEF F
  <2> QED  BY <1>3, <2>1, <2>2
<1>11. PICK parsed \in [0..n -> V] : Loops(parsed, f, n, ParseStart, next)
  <2>1. Computes(f, V, n, ParseStart, next)
    BY <1>9, <1>10 DEF Computes
  <2> HIDE DEF F
  <2> QED  BY <1>4, <2>1, LoopOf
<1>12. ASSUME NEW k \in 1..n PROVE parsed[k] = Parsed(parsed[k - 1], entries[k])
  <2>1. <<k, parsed[k - 1]>> \in (1..n) \X V
    <3>1. k - 1 \in 0..n
      OBVIOUS
    <3> QED  BY <1>11, <3>1
  <2> QED  BY <1>3, <1>11, <2>1 DEF Loops
<1> QED  BY <1>2, <1>8, <1>11, <1>12 DEF Loops, V

\* What Git prints of a change.
Entries(c) ==
    <<[code |-> c.code, path |-> c.file]>>
        \o IF c.code \in Moved
             THEN <<[code |-> "?", path |-> <<"...">> \o c.origin]>> ELSE << >>

LEMMA EntriesAre ==
    ASSUME NEW c \in Changes
    PROVE  /\ Entries(c) \in Seq(EntryType)
           /\ Len(Entries(c)) = IF c.code \in Moved THEN 2 ELSE 1
           /\ Entries(c)[1] = [code |-> c.code, path |-> c.file]
<1>1. /\ c.code \in STRING /\ c.file \in Seq(STRING) /\ c.origin \in Seq(STRING)
  BY ChangesAssumption
<1>2. c.file \in Seq(Names) /\ c.origin \in Seq(Names)
  BY <1>1 DEF Names
<1>3. PICK e \in EntryType : e = [code |-> c.code, path |-> c.file]
  BY <1>1, <1>2 DEF EntryType
<1>4. PICK o \in EntryType : o = [code |-> "?", path |-> <<"...">> \o c.origin]
  <2>1. PICK dots \in Names : dots = "..."
    BY DEF Names
  <2>2. PICK origin \in Seq(Names) : origin = c.origin
    BY <1>2
  <2>3. <<dots>> \in Seq(Names) /\ Len(<<dots>>) \in Nat /\ Len(origin) \in Nat
    OBVIOUS
  <2>4. <<dots>> \o origin \in Seq(Names)
    BY <2>3, Joined
  <2> QED  BY <2>1, <2>2, <2>4 DEF EntryType
<1>5. Entries(c) = <<e>> \o IF c.code \in Moved THEN <<o>> ELSE << >>
  BY <1>3, <1>4 DEF Entries
<1>6. /\ <<e>> \o <<o>> \in Seq(EntryType) /\ Len(<<e>> \o <<o>>) = 2
      /\ (<<e>> \o <<o>>)[1] = e
      /\ <<e>> \o << >> \in Seq(EntryType) /\ Len(<<e>> \o << >>) = 1
      /\ (<<e>> \o << >>)[1] = e
  OBVIOUS
<1> QED  BY <1>3, <1>5, <1>6

LEMMA OneOfTwo == 2 \in 1..2 /\ \A l \in 1..2 : 1 \in 1..l /\ (l = 1 \/ l = 2)
  OBVIOUS

\* The files of the status are those that are changed; the origin of what was moved is
\* not one.
LEMMA StatusNames ==
    ASSUME NEW repo, dirty[repo] \in SUBSET Changes
    PROVE  ParsePorcelain(StatusOf(repo)) = {c.file : c \in dirty[repo]}
<1>1. IsFiniteSet(dirty[repo])
  BY ChangesAssumption, FS_Subset
<1>2. PICK changes : changes = SetToSeq(dirty[repo])
  OBVIOUS
<1>3. PICK n \in Nat : n = Cardinality(dirty[repo])
  BY <1>1, FS_CardinalityType
<1>4. /\ changes \in [1..n -> dirty[repo]]
      /\ \A c \in dirty[repo] : \E k \in 1..n : changes[k] = c
  BY <1>1, <1>2, <1>3, SetToSeqIs
<1>5. PICK seqs : seqs = [k \in 1..n |-> Entries(changes[k])]
  OBVIOUS
<1>6. \A k \in 1..n : changes[k] \in Changes
  BY <1>4
<1>7. seqs \in [1..n -> Seq(EntryType)]
  BY <1>5, <1>6, EntriesAre
<1>8. PICK entries : entries = FlattenSeq(seqs)
  OBVIOUS
<1>9. StatusOf(repo) = entries
  <2>1. StatusOf(repo) = FlattenSeq([k \in DOMAIN changes |-> Entries(changes[k])])
    BY <1>2 DEF StatusOf, Entries
  <2>2. DOMAIN changes = 1..n
    BY <1>4
  <2> QED  BY <1>5, <1>8, <2>1, <2>2
<1>10. entries \in Seq(EntryType)
  BY <1>7, <1>8, FlattenIs
<1>11. PICK at \in [0..n -> Nat] : Placed(at, entries, seqs, n)
  BY <1>7, <1>8, FlattenIs
<1>12. PICK m \in Nat : m = at[n] /\ m = Len(entries)
  <2>1. n \in 0..n
    OBVIOUS
  <2> QED  BY <1>11, <2>1 DEF Placed
<1>13. PICK parsed \in [0..m -> ParseTypes] :
         /\ parsed[0] = ParseStart
         /\ \A k \in 1..m : parsed[k] = Parsed(parsed[k - 1], entries[k])
         /\ ParsePorcelain(entries) = parsed[m].files
  BY <1>10, <1>12, ParseLoop
<1> DEFINE Changed(k) == {changes[j].file : j \in 1..k}
           Is(k) == parsed[at[k]].files = Changed(k) /\ ~ parsed[at[k]].origin
           T == {k \in 0..n : Is(k)}
<1>14. 0 \in T
  BY <1>11, <1>13 DEF Placed, ParseStart
<1>15. ASSUME NEW k \in 1..n, k - 1 \in T PROVE k \in T
  <2>1. PICK c \in Changes : c = changes[k] /\ seqs[k] = Entries(c)
    BY <1>5, <1>6
  <2>2. PICK a \in Nat : a = at[k - 1]
    <3>1. k - 1 \in 0..n
      OBVIOUS
    <3> QED  BY <1>11, <3>1
  <2>3. parsed[a].files = Changed(k - 1) /\ ~ parsed[a].origin
    BY <1>15, <2>2
  <2>4. PICK l \in 1..2 : l = Len(seqs[k]) /\ (l = 2 <=> c.code \in Moved)
    <3>1. CASE c.code \in Moved
      <4>1. Len(seqs[k]) = 2
        BY <2>1, <3>1, EntriesAre
      <4> QED  BY <3>1, <4>1
    <3>2. CASE c.code \notin Moved
      <4>1. Len(seqs[k]) = 1
        BY <2>1, <3>2, EntriesAre
      <4> QED  BY <3>2, <4>1
    <3> QED  BY <3>1, <3>2
  <2>5. at[k] = a + l
    BY <1>11, <2>2, <2>4 DEF Placed
  <2>6. \A i \in 1..l : a + i \in 1..m /\ entries[a + i] = seqs[k][i]
    BY <1>11, <1>12, <2>2, <2>4 DEF Placed
  <2>7. a + 1 \in 1..m /\ entries[a + 1] = [code |-> c.code, path |-> c.file]
    <3>1. 1 \in 1..l
      BY OneOfTwo
    <3> QED  BY <2>1, <2>6, <3>1, EntriesAre
  <2>8. (a + 1) - 1 = a /\ (a + 2) - 1 = a + 1
    OBVIOUS
  <2>9. /\ parsed[a + 1].files = Changed(k - 1) \cup {c.file}
        /\ parsed[a + 1].origin = (c.code \in Moved)
    <3>1. parsed[a + 1] = Parsed(parsed[a], entries[a + 1])
      BY <1>13, <2>7, <2>8
    <3>2. parsed[a + 1] = [files |-> Changed(k - 1) \cup {c.file},
                           origin |-> c.code \in Moved]
      <4> HIDE DEF Changed
      <4> QED  BY <2>3, <2>7, <3>1 DEF Parsed
    <3> HIDE DEF Changed
    <3> QED  BY <3>2
  <2>10. Changed(k) = Changed(k - 1) \cup {c.file}
    <3>1. 1..k = (1..k - 1) \cup {k}
      OBVIOUS
    <3> QED  BY <2>1, <3>1
  <2>11. parsed[a + l].files = Changed(k) /\ ~ parsed[a + l].origin
    <3>1. CASE l = 1
      <4>1. ~ (c.code \in Moved)
        BY <2>4, <3>1
      <4>2. ~ parsed[a + 1].origin
        BY <2>9, <4>1
      <4>3. a + l = a + 1
        BY <3>1
      <4> HIDE DEF Changed, Is, T
      <4> QED  BY <2>9, <2>10, <4>2, <4>3
    <3>2. CASE l = 2
      <4>1. a + 2 \in 1..m /\ a + 1 \in 0..m
        <5>1. 2 \in 1..l
          BY <3>2, OneOfTwo
        <5>2. a + 1 \in 0..m
          BY <2>7
        <5> QED  BY <2>6, <5>1, <5>2
      <4>2. parsed[a + 2] = Parsed(parsed[a + 1], entries[a + 2])
        BY <1>13, <2>8, <4>1
      <4>3. parsed[a + 1] \in ParseTypes /\ parsed[a + 1].origin
        BY <1>13, <2>4, <2>9, <3>2, <4>1
      <4>4. parsed[a + 2].files = parsed[a + 1].files /\ ~ parsed[a + 2].origin
        BY <4>2, <4>3 DEF Parsed, ParseTypes
      <4> HIDE DEF Changed
      <4> QED  BY <2>9, <2>10, <3>2, <4>4
    <3>3. l = 1 \/ l = 2
      BY OneOfTwo
    <3> HIDE DEF Changed, Is, T
    <3> QED  BY <3>1, <3>2, <3>3
  <2>12. k \in 0..n
    OBVIOUS
  <2> HIDE DEF Changed
  <2> QED  BY <2>5, <2>11, <2>12
<1>16. n \in T
  <2>1. n \in 0..n
    OBVIOUS
  <2> HIDE DEF T
  <2> QED  BY <1>14, <1>15, <2>1, LoopKeeps
<1>17. parsed[m].files = Changed(n)
  BY <1>12, <1>16
<1>18. Changed(n) = {c.file : c \in dirty[repo]}
  <2>1. ASSUME NEW c \in dirty[repo] PROVE c.file \in Changed(n)
    <3>1. PICK k \in 1..n : changes[k] = c
      BY <1>4
    <3> QED  BY <3>1
  <2>2. ASSUME NEW name \in Changed(n) PROVE \E c \in dirty[repo] : name = c.file
    BY <1>4
  <2> QED  BY <2>1, <2>2
<1> QED  BY <1>9, <1>13, <1>17, <1>18

-----------------------------------------------------------------------------
(* The diff *)

CharType == [file : Seq(STRING), width : Nat \ {0}, valid : BOOLEAN]

\* What follows the same names is the same if the whole is.
LEMMA JoinedCancel ==
    ASSUME NEW S, NEW p \in Seq(S), NEW a \in Seq(S), NEW b \in Seq(S), p \o a = p \o b
    PROVE  a = b
<1>1. PICK l \in Nat, m \in Nat, n \in Nat : l = Len(p) /\ m = Len(a) /\ n = Len(b)
  OBVIOUS
<1>2. Len(p \o a) = l + m /\ Len(p \o b) = l + n
  BY <1>1
<1>3. m = n
  BY <1>2
<1>4. \A i \in 1..m : (p \o a)[l + i] = a[i]
  BY <1>1
<1>5. \A i \in 1..n : (p \o b)[l + i] = b[i]
  BY <1>1
<1>6. \A i \in 1..m : a[i] = b[i]
  BY <1>3, <1>4, <1>5
<1> QED  BY <1>1, <1>3, <1>6, SeqEqual

\* The end of a path behind its first m names.
LEMMA Behind ==
    ASSUME NEW S, NEW r \in Seq(S), NEW m \in Nat, NEW n \in Nat, n = Len(r), m <= n
    PROVE  /\ SubSeq(r, m + 1, n) \in Seq(S) /\ Len(SubSeq(r, m + 1, n)) = n - m
           /\ \A i \in 1..n - m : SubSeq(r, m + 1, n)[i] = r[m + i]
<1>1. m + 1 \in 1..n + 1 /\ n \in m..n
  OBVIOUS
<1>2. SubSeq(r, m + 1, n) \in Seq(S) /\ Len(SubSeq(r, m + 1, n)) = n - m
  BY <1>1
<1>3. \A i \in 1..n - m : SubSeq(r, m + 1, n)[i] = r[m + i]
  BY <1>1
<1> QED  BY <1>2, <1>3

LEMMA WorkingDirIs == WorkingDir \in Seq(STRING)
  BY DirOrderAssumption DEF ToSet

LEMMA PrefixTypes ==
    ASSUME NEW repo \in Seq(STRING)
    PROVE  Prefix(repo) \in Seq(STRING)
<1>1. PICK m \in Nat, n \in Nat : m = Len(WorkingDir) /\ n = Len(repo)
  BY WorkingDirIs
<1>2. CASE IsPrefix(WorkingDir, repo)
  <2>1. m <= n
    BY <1>1, <1>2, WorkingDirIs, PrefixElements
  <2>2. SubSeq(repo, m + 1, n) \in Seq(STRING)
    BY <1>1, <2>1, Behind
  <2> QED  BY <1>1, <1>2, <2>2 DEF Prefix
<1>3. CASE ~ IsPrefix(WorkingDir, repo)
  BY <1>3 DEF Prefix
<1> QED  BY <1>2, <1>3

\* Of two repositories below the working directory one is in the other if its path from
\* there begins with the path of the other.
LEMMA PrefixOfPrefix ==
    ASSUME NEW r \in Seq(STRING), NEW s \in Seq(STRING),
           IsPrefix(WorkingDir, r), IsPrefix(WorkingDir, s), IsPrefix(Prefix(r), Prefix(s))
    PROVE  IsPrefix(r, s)
<1>1. PICK w \in Seq(STRING) : w = WorkingDir
  BY WorkingDirIs
<1>2. PICK l \in Nat, m \in Nat, n \in Nat : l = Len(w) /\ m = Len(r) /\ n = Len(s)
  BY <1>1
<1>3. /\ l <= m /\ l <= n
      /\ \A i \in 1..l : w[i] = r[i] /\ w[i] = s[i]
  BY <1>1, <1>2, PrefixElements
<1>4. PICK p \in Seq(STRING), q \in Seq(STRING) : p = Prefix(r) /\ q = Prefix(s)
  BY PrefixTypes
<1>5. p = SubSeq(r, l + 1, m) /\ q = SubSeq(s, l + 1, n)
  BY <1>1, <1>2, <1>4 DEF Prefix
<1>6. Len(p) = m - l /\ \A i \in 1..m - l : p[i] = r[l + i]
  BY <1>2, <1>3, <1>5, Behind
<1>7. Len(q) = n - l /\ \A i \in 1..n - l : q[i] = s[l + i]
  BY <1>2, <1>3, <1>5, Behind
<1>8. m - l <= n - l /\ \A i \in 1..m - l : p[i] = q[i]
  BY <1>4, <1>6, <1>7, PrefixElements
<1>9. m <= n
  BY <1>8
<1>10. ASSUME NEW i \in 1..m PROVE r[i] = s[i]
  <2>1. CASE i <= l
    BY <1>3, <2>1
  <2>2. CASE i > l
    <3>1. PICK j \in 1..m - l : i = l + j
      <4>1. i - l \in 1..m - l /\ i = l + (i - l)
        BY <2>2
      <4> QED  BY <4>1
    <3>2. j \in 1..n - l
      BY <1>8
    <3> QED  BY <1>6, <1>7, <1>8, <3>1, <3>2
  <2> QED  BY <2>1, <2>2
<1> QED  BY <1>2, <1>9, <1>10, PrefixElements

\* What is expected are repositories, none in another.
LEMMA ExpectedAre ==
    ASSUME tree \in Trees
    PROVE  /\ Repositories \subseteq Seq(STRING)
           /\ Expected \subseteq Repositories
           /\ \A r, s \in Expected : r # s => ~ IsPrefix(r, s)
           /\ Around = {} => \A r \in Expected : IsPrefix(WorkingDir, r)
<1>1. Repositories \subseteq Seq(STRING)
  <2> SUFFICES ASSUME NEW repo \in Repositories PROVE repo \in Seq(STRING)
    OBVIOUS
  <2>1. repo \in DOMAIN tree
    BY DEF Repositories
  <2>2. DOMAIN tree = ToSet(DirOrder)
    BY TreesAssumption
  <2> QED  BY <2>1, <2>2, DirOrderAssumption DEF ToSet
<1>2. CASE Around # {}
  <2>1. Expected = {Toplevel}
    BY <1>2 DEF Expected
  <2>2. Around \subseteq Repositories /\ \A repo \in Around : IsPrefix(repo, WorkingDir)
    BY DEF Around
  <2>3. PICK lengths : lengths = {Len(repo) : repo \in Around}
    OBVIOUS
  <2>4. PICK n \in Nat : n = Len(WorkingDir)
    BY WorkingDirIs
  <2>5. \A repo \in Around : Len(repo) \in Int /\ Len(repo) <= n
    BY <1>1, <2>2, <2>4, WorkingDirIs, PrefixElements
  <2>6. lengths \in SUBSET Int /\ lengths # {} /\ \A x \in lengths : x <= n
    BY <1>2, <2>3, <2>5
  <2>7. PICK x \in lengths : \A y \in lengths : y <= x
    <3>1. n \in Int
      OBVIOUS
    <3> QED  BY <2>6, <3>1, LargestExists
  <2>8. PICK repo \in Around : \A other \in Around : Len(other) <= Len(repo)
    BY <2>3, <2>7
  <2>9. Toplevel \in Around
    BY <2>8 DEF Toplevel
  <2> QED  BY <1>1, <1>2, <2>1, <2>2, <2>9
<1>3. CASE Around = {}
  <2>1. Expected = {repo \in Repositories :
             IsPrefix(WorkingDir, repo) /\ ~ \E d \in DOMAIN tree : InWay(d, repo)}
    BY <1>3 DEF Expected
  <2>2. ASSUME NEW r \in Expected, NEW s \in Expected, r # s, IsPrefix(r, s)
        PROVE  FALSE
    <3>1. r \in DOMAIN tree /\ tree[r] = "repo" /\ IsPrefix(WorkingDir, r)
      BY <2>1 DEF Repositories
    <3>2. InWay(r, s)
      BY <2>2, <3>1 DEF InWay
    <3> QED  BY <2>1, <3>1, <3>2
  <2> QED  BY <1>1, <1>3, <2>1, <2>2
<1> QED  BY <1>2, <1>3

\* So no path from the working directory leads into two of them.
LEMMA PathsDiffer ==
    ASSUME tree \in Trees, NEW r \in Expected, NEW s \in Expected, r # s,
           NEW a \in Seq(STRING), NEW b \in Seq(STRING)
    PROVE  Prefix(r) \o a # Prefix(s) \o b
<1> SUFFICES ASSUME Prefix(r) \o a = Prefix(s) \o b PROVE FALSE
  OBVIOUS
<1>1. r \in Seq(STRING) /\ s \in Seq(STRING) /\ ~ IsPrefix(r, s) /\ ~ IsPrefix(s, r)
  BY ExpectedAre
<1>2. Around = {}
  BY DEF Expected
<1>3. IsPrefix(WorkingDir, r) /\ IsPrefix(WorkingDir, s)
  BY <1>2, ExpectedAre
<1>4. PICK p \in Seq(STRING), q \in Seq(STRING) : p = Prefix(r) /\ q = Prefix(s)
  BY <1>1, PrefixTypes
<1>5. ASSUME NEW x \in Seq(STRING), NEW y \in Seq(STRING)
      PROVE  IsPrefix(x, x \o y) /\ x \o y \in Seq(STRING)
  <2>1. PICK m \in Nat, n \in Nat : m = Len(x) /\ n = Len(y)
    OBVIOUS
  <2>2. /\ x \o y \in Seq(STRING) /\ Len(x \o y) = m + n
        /\ \A i \in 1..m : (x \o y)[i] = x[i]
    BY <2>1, Joined
  <2>3. m <= m + n
    OBVIOUS
  <2> QED  BY <2>1, <2>2, <2>3, PrefixElements
<1>6. IsPrefix(p, p \o a) /\ IsPrefix(q, p \o a) /\ p \o a \in Seq(STRING)
  BY <1>4, <1>5
<1>7. IsPrefix(p, q) \/ IsPrefix(q, p)
  BY <1>6, PrefixComparable
<1> QED  BY <1>1, <1>3, <1>4, <1>7, PrefixOfPrefix

LEMMA OffsetInside ==
    ASSUME NEW a \in Nat, NEW l \in Nat, NEW h \in 1..l
    PROVE  a + h \in a + 1..a + l
  OBVIOUS

\* A list ends before the end of all of them.
LEMMA PlacedInside ==
    ASSUME NEW n \in Nat, NEW k \in 1..n, NEW at \in [0..n -> Nat], NEW list, NEW seqs,
           \A j \in 1..n : Len(seqs[j]) \in Nat, Placed(at, list, seqs, n)
    PROVE  at[k] <= at[n]
<1> DEFINE T == {j \in 0..n : j >= k => at[k] <= at[j]}
<1>1. 0 \in T
  OBVIOUS
<1>2. ASSUME NEW j \in 1..n, j - 1 \in T PROVE j \in T
  <2>1. at[j] = at[j - 1] + Len(seqs[j])
    BY DEF Placed
  <2>2. /\ j \in 0..n /\ j - 1 \in 0..n /\ k \in 0..n
        /\ at[j] \in Nat /\ at[j - 1] \in Nat /\ at[k] \in Nat /\ Len(seqs[j]) \in Nat
    OBVIOUS
  <2>3. at[j - 1] <= at[j]
    BY <2>1, <2>2
  <2>4. CASE j - 1 >= k
    BY <1>2, <2>2, <2>3, <2>4
  <2>5. CASE ~ (j - 1 >= k)
    <3>1. j >= k => j = k
      BY <2>2, <2>5
    <3> QED  BY <2>2, <3>1
  <2> QED  BY <2>4, <2>5
<1>3. n \in T
  <2>1. n \in 0..n
    OBVIOUS
  <2> HIDE DEF T
  <2> QED  BY <1>1, <1>2, <2>1, LoopKeeps
<1> QED  BY <1>3

\* The patch of a change is about its file.
LEMMA PatchIs ==
    ASSUME NEW repo \in Seq(STRING), NEW c \in Changes
    PROVE  /\ PatchOf(repo, c) \in Seq(CharType) /\ Len(PatchOf(repo, c)) \in Nat
           /\ Prefix(repo) \o c.file \in Seq(STRING)
           /\ \A k \in 1..Len(PatchOf(repo, c)) :
                 PatchOf(repo, c)[k].file = Prefix(repo) \o c.file
<1>1. c.file \in Seq(STRING) /\ c.patch \in Seq(Pieces)
  BY ChangesAssumption
<1>2. PICK path \in Seq(STRING) : path = Prefix(repo) \o c.file
  <2>1. PICK p \in Seq(STRING), f \in Seq(STRING) : p = Prefix(repo) /\ f = c.file
    BY <1>1, PrefixTypes
  <2>2. p \o f \in Seq(STRING)
    OBVIOUS
  <2> QED  BY <2>1, <2>2
<1>3. PICK patch \in Seq(Pieces) : patch = c.patch
  BY <1>1
<1>4. PICK n \in Nat : n = Len(patch) /\ DOMAIN patch = 1..n /\ patch \in [1..n -> Pieces]
  BY SeqDef
<1>5. PICK text : text = [k \in 1..n |-> [file |-> path, width |-> patch[k].width,
                                          valid |-> patch[k].valid]]
  OBVIOUS
<1>6. text \in [1..n -> CharType]
  <2>1. \A piece \in Pieces :
           [file |-> path, width |-> piece.width, valid |-> piece.valid] \in CharType
    BY DEF Pieces, CharType
  <2>2. \A k \in 1..n : patch[k] \in Pieces
    BY <1>4
  <2> QED  BY <1>5, <2>1, <2>2
<1>7. text \in Seq(CharType) /\ DOMAIN text = 1..n
  BY <1>6, SeqDef
<1>8. Len(text) = n
  BY <1>7, LenProperties
<1>9. PatchOf(repo, c) = text
  BY <1>2, <1>3, <1>4, <1>5 DEF PatchOf
<1>10. \A k \in 1..n : text[k].file = path
  BY <1>5
<1> QED  BY <1>2, <1>7, <1>8, <1>9, <1>10

\* The diff of a repository has the patches of its changes, each in one piece.
LEMMA DiffIs ==
    ASSUME NEW repo \in Seq(STRING), dirty[repo] \in SUBSET Changes,
           OneChangeEach(dirty[repo])
    PROVE  /\ DiffOf(repo) \in Seq(CharType)
           /\ \A x \in 1..Len(DiffOf(repo)) : \E c \in dirty[repo] :
                 DiffOf(repo)[x].file = Prefix(repo) \o c.file
           /\ \A c \in dirty[repo] :
                 StandsWhole(PatchOf(repo, c), Prefix(repo) \o c.file, DiffOf(repo))
<1>1. IsFiniteSet(dirty[repo])
  BY ChangesAssumption, FS_Subset
<1>2. PICK changes : changes = SetToSeq(dirty[repo])
  OBVIOUS
<1>3. PICK n \in Nat : n = Cardinality(dirty[repo])
  BY <1>1, FS_CardinalityType
<1>4. /\ changes \in [1..n -> dirty[repo]] /\ IsInjective(changes)
      /\ \A c \in dirty[repo] : \E k \in 1..n : changes[k] = c
  BY <1>1, <1>2, <1>3, SetToSeqIs
<1>5. PICK seqs : seqs = [k \in 1..n |-> PatchOf(repo, changes[k])]
  OBVIOUS
<1>6. \A k \in 1..n : changes[k] \in Changes
  BY <1>4
<1>7. seqs \in [1..n -> Seq(CharType)]
  BY <1>5, <1>6, PatchIs
<1>8. PICK diff : diff = FlattenSeq(seqs)
  OBVIOUS
<1>9. DiffOf(repo) = diff
  <2>1. DOMAIN changes = 1..n
    BY <1>4
  <2> QED  BY <1>2, <1>5, <1>8, <2>1 DEF DiffOf
<1>10. diff \in Seq(CharType)
  BY <1>7, <1>8, FlattenIs
<1>11. PICK at \in [0..n -> Nat] : Placed(at, diff, seqs, n)
  BY <1>7, <1>8, FlattenIs
<1>12. PICK m \in Nat : m = at[n] /\ m = Len(diff)
  <2>1. n \in 0..n
    OBVIOUS
  <2> QED  BY <1>11, <2>1 DEF Placed
<1>13. ASSUME NEW k \in 1..n, NEW i \in 1..Len(seqs[k])
       PROVE  /\ at[k - 1] + i \in 1..m
              /\ diff[at[k - 1] + i] = PatchOf(repo, changes[k])[i]
              /\ diff[at[k - 1] + i].file = Prefix(repo) \o changes[k].file
  <2>1. at[k - 1] + i \in 1..m /\ diff[at[k - 1] + i] = seqs[k][i]
    BY <1>11, <1>12, <1>13 DEF Placed
  <2>2. seqs[k] = PatchOf(repo, changes[k])
    BY <1>5
  <2>3. seqs[k][i].file = Prefix(repo) \o changes[k].file
    <3>1. PICK c \in Changes : c = changes[k]
      BY <1>6
    <3>2. \A j \in 1..Len(PatchOf(repo, c)) :
             PatchOf(repo, c)[j].file = Prefix(repo) \o c.file
      BY PatchIs
    <3> QED  BY <2>2, <3>1, <3>2
  <2> QED  BY <2>1, <2>2, <2>3
<1>14. \A x \in 1..m : \E k \in 1..n : \E i \in 1..Len(seqs[k]) : x = at[k - 1] + i
  BY <1>11, <1>12 DEF Placed
<1>15. ASSUME NEW x \in 1..m
       PROVE  \E c \in dirty[repo] : diff[x].file = Prefix(repo) \o c.file
  <2>1. PICK k \in 1..n : \E i \in 1..Len(seqs[k]) : x = at[k - 1] + i
    BY <1>14
  <2>2. PICK i \in 1..Len(seqs[k]) : x = at[k - 1] + i
    BY <2>1
  <2>3. changes[k] \in dirty[repo] /\ diff[x].file = Prefix(repo) \o changes[k].file
    BY <1>4, <1>13, <2>2
  <2> QED  BY <2>3
<1>16. ASSUME NEW c \in dirty[repo]
       PROVE  StandsWhole(PatchOf(repo, c), Prefix(repo) \o c.file, diff)
  <2>1. PICK k \in 1..n : changes[k] = c
    BY <1>4
  <2>2. PICK path : path = Prefix(repo) \o c.file
    OBVIOUS
  <2>3. PICK patch \in Seq(CharType) : patch = PatchOf(repo, c) /\ patch = seqs[k]
    BY <1>5, <1>6, <2>1, PatchIs
  <2>4. PICK a \in Nat, l \in Nat : a = at[k - 1] /\ l = Len(patch) /\ at[k] = a + l
    <3>1. k - 1 \in 0..n
      OBVIOUS
    <3>2. at[k - 1] \in Nat /\ Len(patch) \in Nat
      BY <1>11, <3>1
    <3>3. at[k] = at[k - 1] + Len(patch)
      BY <1>11, <2>3 DEF Placed
    <3> QED  BY <3>2, <3>3
  <2>5. \A i \in 1..l : a + i \in 1..m /\ diff[a + i] = patch[i]
    BY <1>13, <2>1, <2>3, <2>4
  <2>6. a <= m - l /\ m - l \in Int
    <3>1. CASE l = 0
      <4>1. at[k] \in Nat /\ a = at[k]
        BY <2>4, <3>1
      <4>2. a <= m
        <5>1. \A j \in 1..n : Len(seqs[j]) \in Nat
          BY <1>7
        <5> QED  BY <1>11, <1>12, <4>1, <5>1, PlacedInside
      <4> QED  BY <3>1, <4>2
    <3>2. CASE l # 0
      <4>1. l \in 1..l
        BY <3>2
      <4>2. a + l \in 1..m
        BY <2>5, <4>1
      <4> QED  BY <4>2
    <3> QED  BY <3>1, <3>2
  <2>7. a \in 0..m - l
    BY <2>6
  <2>8. ASSUME NEW x \in 1..m, diff[x].file = path
        PROVE  x \in a + 1..a + l
    <3>1. PICK j \in 1..n : \E i \in 1..Len(seqs[j]) : x = at[j - 1] + i
      BY <1>14
    <3>2. PICK i \in 1..Len(seqs[j]) : x = at[j - 1] + i
      BY <3>1
    <3>3. Prefix(repo) \o changes[j].file = Prefix(repo) \o c.file
      BY <1>13, <2>2, <2>8, <3>2
    <3>4. changes[j].file = c.file
      <4>1. /\ Prefix(repo) \in Seq(STRING) /\ changes[j].file \in Seq(STRING)
            /\ c.file \in Seq(STRING)
        BY <1>6, PrefixTypes, ChangesAssumption
      <4> QED  BY <3>3, <4>1, JoinedCancel
    <3>5. changes[j] = c
      BY <1>4, <3>4 DEF OneChangeEach
    <3>6. j = k
      BY <1>4, <2>1, <3>5 DEF IsInjective
    <3>7. PICK h \in 1..l : x = a + h
      BY <2>3, <2>4, <3>2, <3>6
    <3> QED  BY <3>7, OffsetInside
  <2> QED  BY <1>12, <2>2, <2>3, <2>4, <2>5, <2>7, <2>8 DEF StandsWhole
<1> QED  BY <1>9, <1>10, <1>12, <1>15, <1>16

\* A patch stays in one piece when the diff of another repository follows.
LEMMA StandsBefore ==
    ASSUME NEW diff \in Seq(CharType), NEW more \in Seq(CharType),
           NEW patch \in Seq(CharType), NEW path, StandsWhole(patch, path, diff),
           \A x \in 1..Len(more) : more[x].file # path
    PROVE  StandsWhole(patch, path, diff \o more)
<1>1. PICK l \in Nat, m \in Nat, n \in Nat : l = Len(patch) /\ m = Len(diff) /\ n = Len(more)
  OBVIOUS
<1>2. PICK a \in 0..m - l :
         /\ \A k \in 1..l : diff[a + k] = patch[k]
         /\ \A k \in 1..m : diff[k].file = path => k \in a + 1..a + l
  BY <1>1 DEF StandsWhole
<1>3. PICK both : both = diff \o more
  OBVIOUS
<1>4. /\ Len(both) = m + n /\ \A i \in 1..m : both[i] = diff[i]
      /\ \A i \in 1..n : both[m + i] = more[i]
  BY <1>1, <1>3, Joined
<1>5. a \in 0..(m + n) - l
  OBVIOUS
<1>6. ASSUME NEW k \in 1..l PROVE both[a + k] = patch[k]
  <2>1. a + k \in 1..m
    OBVIOUS
  <2> QED  BY <1>2, <1>4, <2>1
<1>7. ASSUME NEW k \in 1..m + n, both[k].file = path PROVE k \in a + 1..a + l
  <2>1. CASE k \in 1..m
    BY <1>2, <1>4, <1>7, <2>1
  <2>2. CASE k > m
    <3>1. k - m \in 1..n /\ k = m + (k - m)
      BY <2>2, Offset
    <3> QED  BY <1>1, <1>4, <1>7, <3>1
  <2> QED  BY <2>1, <2>2
<1> QED  BY <1>1, <1>3, <1>4, <1>5, <1>6, <1>7 DEF StandsWhole

\* A patch stays in one piece behind the diffs of other repositories.
LEMMA StandsAfter ==
    ASSUME NEW diff \in Seq(CharType), NEW more \in Seq(CharType),
           NEW patch \in Seq(CharType), NEW path, StandsWhole(patch, path, more),
           \A x \in 1..Len(diff) : diff[x].file # path
    PROVE  StandsWhole(patch, path, diff \o more)
<1>1. PICK l \in Nat, m \in Nat, n \in Nat : l = Len(patch) /\ m = Len(diff) /\ n = Len(more)
  OBVIOUS
<1>2. PICK a \in 0..n - l :
         /\ \A k \in 1..l : more[a + k] = patch[k]
         /\ \A k \in 1..n : more[k].file = path => k \in a + 1..a + l
  BY <1>1 DEF StandsWhole
<1>3. PICK both : both = diff \o more
  OBVIOUS
<1>4. /\ Len(both) = m + n /\ \A i \in 1..m : both[i] = diff[i]
      /\ \A i \in 1..n : both[m + i] = more[i]
  BY <1>1, <1>3, Joined
<1>5. m + a \in 0..(m + n) - l
  OBVIOUS
<1>6. ASSUME NEW k \in 1..l PROVE both[(m + a) + k] = patch[k]
  <2>1. a + k \in 1..n /\ (m + a) + k = m + (a + k)
    OBVIOUS
  <2> QED  BY <1>2, <1>4, <2>1
<1>7. ASSUME NEW k \in 1..m + n, both[k].file = path
      PROVE  k \in (m + a) + 1..(m + a) + l
  <2>1. CASE k \in 1..m
    BY <1>1, <1>4, <1>7, <2>1
  <2>2. CASE k > m
    <3>1. PICK j \in 1..n : k = m + j
      <4>1. k - m \in 1..n /\ k = m + (k - m)
        BY <2>2, Offset
      <4> QED  BY <4>1
    <3>2. j \in a + 1..a + l
      BY <1>2, <1>4, <1>7, <3>1
    <3> QED  BY <3>1, <3>2
  <2> QED  BY <2>1, <2>2
<1> QED  BY <1>1, <1>3, <1>4, <1>5, <1>6, <1>7 DEF StandsWhole

LEMMA SmallestExists ==
    ASSUME NEW n \in Nat, NEW S \in SUBSET (1..n), S # {}
    PROVE  \E x \in S : \A y \in S : x <= y
<1>1. S \subseteq Nat
  OBVIOUS
<1>2. PICK x \in S : \A y \in S : ~ (<<y, x>> \in OpToRel(<, Nat))
  BY <1>1, NatLessThanWellFounded, WFMin
<1>3. \A y \in S : y \in Nat /\ x \in Nat /\ ~ (y < x)
  BY <1>1, <1>2 DEF OpToRel
<1> QED  BY <1>3

-----------------------------------------------------------------------------
(* The limit *)

Sums(sum, text, n) == sum[0] = 0 /\ \A k \in 1..n : sum[k] = sum[k - 1] + text[k].width

\* The width of a text is a sum over its characters.
LEMMA WidthLoop ==
    ASSUME NEW text \in Seq(CharType), NEW n \in Nat, n = Len(text)
    PROVE  \E sum \in [0..n -> Nat] : Sums(sum, text, n) /\ Width(text) = sum[n]
<1> DEFINE D == DOMAIN text
           F(f) == f = [s \in SUBSET D |->
                          IF s = {} THEN 0 ELSE f[s \ {Max(s)}] + text[Max(s)].width]
<1>1. Width(text) = (CHOOSE f : F(f))[D]
  BY DEF Width, FoldLeft, MapThenFoldSet
<1>2. D = 1..n /\ \A k \in 1..n : text[k].width \in Nat
  <2>1. \A k \in 1..n : text[k] \in CharType
    OBVIOUS
  <2>2. \A c \in CharType : c.width \in Nat
    BY DEF CharType
  <2> QED  BY <2>1, <2>2
<1>3. PICK next : next = [kv \in (1..n) \X Nat |-> kv[2] + text[kv[1]].width]
  OBVIOUS
<1>4. next \in [(1..n) \X Nat -> Nat] /\ 0 \in Nat
  BY <1>2, <1>3
<1>5. PICK g \in [SUBSET (1..n) -> Nat] : Folds(g, n, 0, next)
  BY <1>4, FoldExists
<1>6. ASSUME NEW s \in SUBSET (1..n), s # {}
      PROVE  Max(s) \in 1..n /\ s \ {Max(s)} \in SUBSET (1..n)
  BY <1>6, MaxInside
<1>7. F(g)
  <2>1. ASSUME NEW s \in SUBSET (1..n), s # {}
        PROVE  g[s] = g[s \ {Max(s)}] + text[Max(s)].width
    <3>1. <<Max(s), g[s \ {Max(s)}]>> \in (1..n) \X Nat
      BY <1>5, <1>6, <2>1
    <3> QED  BY <1>3, <1>5, <2>1, <3>1 DEF Folds
  <2> QED  BY <1>2, <1>5, <2>1 DEF Folds
<1>8. PICK f : F(f) /\ Width(text) = f[D]
  <2> HIDE DEF F
  <2> QED  BY <1>1, <1>7
<1>9. f[{}] = 0
  BY <1>8
<1>10. ASSUME NEW s \in SUBSET (1..n), s # {}, f[s \ {Max(s)}] \in Nat
       PROVE  f[s] = next[<<Max(s), f[s \ {Max(s)}]>>]
  <2>1. <<Max(s), f[s \ {Max(s)}]>> \in (1..n) \X Nat
    BY <1>6, <1>10
  <2>2. f[s] = f[s \ {Max(s)}] + text[Max(s)].width
    BY <1>2, <1>8, <1>10
  <2> HIDE DEF F
  <2> QED  BY <1>3, <2>1, <2>2
<1>11. PICK sum \in [0..n -> Nat] : Loops(sum, f, n, 0, next)
  <2>1. Computes(f, Nat, n, 0, next)
    BY <1>9, <1>10 DEF Computes
  <2> HIDE DEF F
  <2> QED  BY <1>4, <2>1, LoopOf
<1>12. ASSUME NEW k \in 1..n PROVE sum[k] = sum[k - 1] + text[k].width
  <2>1. <<k, sum[k - 1]>> \in (1..n) \X Nat
    <3>1. k - 1 \in 0..n
      OBVIOUS
    <3> QED  BY <1>11, <3>1
  <2> HIDE DEF F
  <2> QED  BY <1>3, <1>11, <2>1 DEF Loops
<1>13. sum[0] = 0 /\ Width(text) = sum[n]
  <2> HIDE DEF F
  <2> QED  BY <1>2, <1>8, <1>11 DEF Loops
<1> HIDE DEF F
<1> QED  BY <1>12, <1>13 DEF Sums

\* The first k characters are as wide as the sum up to them.
LEMMA WidthUpTo ==
    ASSUME NEW text \in Seq(CharType), NEW n \in Nat, n = Len(text),
           NEW sum \in [0..n -> Nat], Sums(sum, text, n), NEW k \in 0..n
    PROVE  Width(SubSeq(text, 1, k)) = sum[k]
<1>1. PICK front \in Seq(CharType) : front = SubSeq(text, 1, k)
  OBVIOUS
<1>2. Len(front) = k /\ \A i \in 1..k : front[i] = text[i]
  BY <1>1
<1>3. PICK other \in [0..k -> Nat] : Sums(other, front, k) /\ Width(front) = other[k]
  <2>1. k \in Nat
    OBVIOUS
  <2> QED  BY <1>2, <2>1, WidthLoop
<1> DEFINE T == {j \in 0..k : other[j] = sum[j]}
<1>4. 0 \in T
  BY <1>3 DEF Sums
<1>5. ASSUME NEW j \in 1..k, j - 1 \in T PROVE j \in T
  <2>1. j \in 1..n /\ j \in 0..k
    OBVIOUS
  <2>2. other[j] = other[j - 1] + front[j].width /\ sum[j] = sum[j - 1] + text[j].width
    BY <1>3, <2>1 DEF Sums
  <2>3. other[j - 1] = sum[j - 1] /\ front[j] = text[j]
    BY <1>2, <1>5
  <2> QED  BY <2>1, <2>2, <2>3
<1>6. k \in T
  <2>1. k \in Nat /\ k \in 0..k
    OBVIOUS
  <2> HIDE DEF T
  <2> QED  BY <1>4, <1>5, <2>1, LoopKeeps
<1> QED  BY <1>1, <1>3, <1>6

\* More characters are wider.
LEMMA WidthGrows ==
    ASSUME NEW text \in Seq(CharType), NEW n \in Nat, n = Len(text),
           NEW sum \in [0..n -> Nat], Sums(sum, text, n), NEW k \in 0..n
    PROVE  sum[k] <= sum[n]
<1> DEFINE T == {j \in 0..n : j >= k => sum[k] <= sum[j]}
<1>1. 0 \in T
  OBVIOUS
<1>2. ASSUME NEW j \in 1..n, j - 1 \in T PROVE j \in T
  <2>1. sum[j] = sum[j - 1] + text[j].width
    BY DEF Sums
  <2>2. text[j].width \in Nat
    <3>1. text[j] \in CharType
      OBVIOUS
    <3> QED  BY <3>1 DEF CharType
  <2>3. /\ j \in 0..n /\ j - 1 \in 0..n
        /\ sum[j] \in Nat /\ sum[j - 1] \in Nat /\ sum[k] \in Nat
    OBVIOUS
  <2>4. sum[j - 1] <= sum[j]
    BY <2>1, <2>2, <2>3
  <2>5. CASE j - 1 >= k
    BY <1>2, <2>3, <2>4, <2>5
  <2>6. CASE ~ (j - 1 >= k)
    <3>1. j >= k => j = k
      BY <2>3, <2>6
    <3> QED  BY <2>3, <3>1
  <2> QED  BY <2>5, <2>6
<1>3. n \in T
  <2>1. n \in 0..n
    OBVIOUS
  <2> HIDE DEF T
  <2> QED  BY <1>1, <1>2, <2>1, LoopKeeps
<1> QED  BY <1>3

\* One more character adds its width.
LEMMA WidthAppend ==
    ASSUME NEW text \in Seq(CharType), NEW c \in CharType
    PROVE  Width(Append(text, c)) = Width(text) + c.width
<1>1. PICK n \in Nat : n = Len(text)
  OBVIOUS
<1>3. PICK longer \in Seq(CharType) : longer = Append(text, c)
  <2>1. Append(text, c) \in Seq(CharType)
    BY AppendProperties
  <2> QED  BY <2>1
<1>4. /\ Len(longer) = n + 1 /\ longer[n + 1] = c
      /\ \A i \in 1..n : longer[i] = text[i]
  BY <1>1, <1>3
<1>5. PICK sum \in [0..n + 1 -> Nat] : Sums(sum, longer, n + 1) /\ Width(longer) = sum[n + 1]
  <2>1. n + 1 \in Nat
    OBVIOUS
  <2> QED  BY <1>4, <2>1, WidthLoop
<1>6. Width(SubSeq(longer, 1, n)) = sum[n]
  <2>1. n + 1 \in Nat /\ n \in 0..n + 1
    OBVIOUS
  <2> QED  BY <1>4, <1>5, <2>1, WidthUpTo
<1>7. SubSeq(longer, 1, n) = text
  <2>1. PICK front \in Seq(CharType) : front = SubSeq(longer, 1, n)
    <3>1. SubSeq(longer, 1, n) \in Seq(CharType)
      BY <1>4
    <3> QED  BY <3>1
  <2>2. Len(front) = n /\ \A i \in 1..n : front[i] = text[i]
    BY <1>4, <2>1
  <2> QED  BY <1>1, <2>1, <2>2, SeqEqual
<1>8. sum[n + 1] = sum[n] + c.width
  <2>1. n + 1 \in 1..n + 1 /\ (n + 1) - 1 = n
    OBVIOUS
  <2> QED  BY <1>4, <1>5, <2>1 DEF Sums
<1> QED  BY <1>3, <1>5, <1>6, <1>7, <1>8

\* A text within the limit stays as it is; a longer one is cut at the limit.
LEMMA CutIs ==
    ASSUME NEW text \in Seq(CharType), NEW max \in Nat
    PROVE  /\ Width(text) \in Nat /\ CutTo(text, max) \in Seq(CharType)
           /\ Width(text) <= max => CutTo(text, max) = text
           /\ Width(CutTo(text, max)) <= max
<1>1. PICK n \in Nat : n = Len(text)
  OBVIOUS
<1>2. PICK sum \in [0..n -> Nat] : Sums(sum, text, n) /\ Width(text) = sum[n]
  BY <1>1, WidthLoop
<1>3. \A k \in 0..n : Width(SubSeq(text, 1, k)) = sum[k] /\ sum[k] <= sum[n] /\ sum[k] \in Nat
  BY <1>1, <1>2, WidthUpTo, WidthGrows
<1>4. 0 \in 0..n /\ n \in 0..n
  OBVIOUS
<1>5. PICK flags : flags = [k \in 1..n |-> Width(SubSeq(text, 1, k)) > max]
  OBVIOUS
<1>6. PICK beyond : beyond = {k \in 1..n : sum[k] > max}
  OBVIOUS
<1>7. PICK whole : whole = IF beyond # {} THEN Min(beyond) ELSE 0
  OBVIOUS
<1>8. PICK kept : kept = IF whole = 0 THEN text ELSE SubSeq(text, 1, whole - 1)
  OBVIOUS
<1>9. /\ whole = 0 => CutTo(text, max) = kept
      /\ whole # 0 =>
            \/ CutTo(text, max) = kept
            \/ /\ CutTo(text, max) = Append(kept, [file |-> text[whole].file,
                                     width |-> max - Width(kept), valid |-> FALSE])
               /\ max - Width(kept) # 0
  <2>1. Len(flags) = n
    <3>1. flags \in [1..n -> BOOLEAN]
      BY <1>5
    <3>2. flags \in Seq(BOOLEAN) /\ DOMAIN flags = 1..n
      BY <3>1, SeqDef
    <3> QED  BY <3>2, LenProperties
  <2>2. {k \in 1..Len(flags) : flags[k]} = beyond
    <3>1. \A k \in 1..n : flags[k] = (sum[k] > max)
      BY <1>3, <1>5
    <3> QED  BY <1>6, <2>1, <3>1
  <2>3. SelectInSeq(flags, LAMBDA b : b) = whole
    BY <1>7, <2>2 DEF SelectInSeq
  <2> QED  BY <1>1, <1>5, <1>8, <2>3 DEF CutTo
<1>10. CASE beyond = {}
  <2>1. whole = 0 /\ kept = text
    BY <1>7, <1>8, <1>10
  <2>2. CutTo(text, max) = text
    BY <1>9, <2>1
  <2>3. sum[n] <= max
    <3>1. CASE n = 0
      BY <1>2, <3>1 DEF Sums
    <3>2. CASE n # 0
      <4>1. n \in 1..n /\ sum[n] \in Nat
        BY <1>4, <3>2
      <4> QED  BY <1>6, <1>10, <4>1
    <3> QED  BY <3>1, <3>2
  <2>4. sum[n] \in Nat
    BY <1>4
  <2> QED  BY <1>2, <2>2, <2>3, <2>4
<1>11. CASE beyond # {}
  <2>1. PICK k \in beyond : k = whole /\ \A j \in beyond : k <= j
    <3>1. \E x \in beyond : \A y \in beyond : x <= y
      BY <1>6, <1>11, SmallestExists
    <3> QED  BY <1>7, <1>11, <3>1 DEF Min
  <2>2. k \in 1..n /\ sum[k] > max /\ k - 1 \in 0..n /\ k \in 0..n
    BY <1>6, <2>1
  <2>3. sum[n] > max /\ sum[n] \in Nat
    BY <1>3, <1>4, <2>2
  <2>4. PICK front \in Seq(CharType) : front = SubSeq(text, 1, k - 1) /\ front = kept
    <3>1. SubSeq(text, 1, k - 1) \in Seq(CharType)
      BY <1>1, <2>2
    <3>2. whole # 0 /\ SubSeq(text, 1, k - 1) = kept
      BY <1>8, <2>1, <2>2
    <3> QED  BY <3>1, <3>2
  <2>5. Width(front) = sum[k - 1] /\ sum[k - 1] \in Nat
    BY <1>3, <2>2, <2>4
  <2>6. sum[k - 1] <= max
    <3>1. CASE k = 1
      BY <1>2, <3>1 DEF Sums
    <3>2. CASE k # 1
      <4>1. k - 1 \in 1..n /\ ~ (k <= k - 1)
        BY <2>2, <3>2
      <4>2. k - 1 \notin beyond
        BY <2>1, <4>1
      <4> QED  BY <1>6, <2>5, <4>1, <4>2
    <3> QED  BY <3>1, <3>2
  <2>7. whole \in 1..n
    BY <2>1, <2>2
  <2>8. CASE CutTo(text, max) = front
    BY <1>2, <2>3, <2>5, <2>6, <2>8
  <2>9. ASSUME CutTo(text, max) = Append(front, [file |-> text[whole].file,
                                     width |-> max - Width(front), valid |-> FALSE]),
               max - Width(front) # 0
        PROVE  /\ CutTo(text, max) \in Seq(CharType)
               /\ Width(CutTo(text, max)) = max
    <3>1. PICK left \in Nat \ {0} : left = max - Width(front)
      <4>1. max - Width(front) \in Nat \ {0}
        BY <2>5, <2>6, <2>9
      <4> QED  BY <4>1
    <3>2. PICK c \in CharType :
              c = [file |-> text[whole].file, width |-> left, valid |-> FALSE]
      <4>1. text[whole] \in CharType
        BY <1>1, <2>7
      <4>2. text[whole].file \in Seq(STRING)
        BY <4>1 DEF CharType
      <4>3. [file |-> text[whole].file, width |-> left, valid |-> FALSE] \in CharType
        BY <4>2 DEF CharType
      <4> QED  BY <4>3
    <3>3. CutTo(text, max) = Append(front, c) /\ c.width = left
      BY <2>9, <3>1, <3>2
    <3>4. Width(Append(front, c)) = Width(front) + left
      BY <3>3, WidthAppend
    <3>5. Append(front, c) \in Seq(CharType)
      BY AppendProperties
    <3>6. Width(front) + left = max
      BY <2>5, <3>1
    <3> QED  BY <3>3, <3>4, <3>5, <3>6
  <2>10. /\ Width(text) \in Nat /\ ~ (Width(text) <= max)
    BY <1>2, <2>3
  <2>11. \/ CutTo(text, max) = front
         \/ /\ CutTo(text, max) = Append(front, [file |-> text[whole].file,
                                      width |-> max - Width(front), valid |-> FALSE])
            /\ max - Width(front) # 0
    <3>1. whole # 0 /\ kept = front
      BY <2>4, <2>7
    <3> QED  BY <1>9, <3>1
  <2>12. CASE /\ CutTo(text, max) = Append(front, [file |-> text[whole].file,
                                      width |-> max - Width(front), valid |-> FALSE])
              /\ max - Width(front) # 0
    <3>1. CutTo(text, max) \in Seq(CharType) /\ Width(CutTo(text, max)) = max
      BY <2>9, <2>12
    <3>2. Width(CutTo(text, max)) <= max
      BY <3>1
    <3> QED  BY <2>10, <3>1, <3>2
  <2> QED  BY <2>8, <2>11, <2>12
<1> QED  BY <1>10, <1>11

-----------------------------------------------------------------------------
(* Bytes that are no characters *)

\* Replaced runs stand where they were, in the same files.
LEMMA ValidIs ==
    ASSUME NEW text \in Seq(CharType)
    PROVE  /\ ToValidUTF8(text) \in Seq(CharType) /\ Len(ToValidUTF8(text)) = Len(text)
           /\ Replaced(ToValidUTF8(text)) = Replaced(text)
           /\ \A k \in 1..Len(text) :
                 /\ ToValidUTF8(text)[k] = IF text[k].valid THEN text[k]
                                           ELSE [text[k] EXCEPT !.width = 3]
                 /\ ToValidUTF8(text)[k].file = text[k].file
                 /\ ToValidUTF8(text)[k].width
                       <= text[k].width + IF text[k].valid THEN 0 ELSE 2
<1>1. PICK n \in Nat : n = Len(text) /\ DOMAIN text = 1..n
  OBVIOUS
<1>2. PICK plain : plain = ToValidUTF8(text)
  OBVIOUS
<1>3. plain = [k \in 1..n |-> IF text[k].valid THEN text[k] ELSE [text[k] EXCEPT !.width = 3]]
  BY <1>1, <1>2 DEF ToValidUTF8
<1>4. ASSUME NEW c \in CharType
      PROVE  /\ [c EXCEPT !.width = 3] \in CharType
             /\ [c EXCEPT !.width = 3].file = c.file
             /\ [c EXCEPT !.width = 3].valid = c.valid
             /\ [c EXCEPT !.width = 3].width = 3
             /\ c.width \in Nat /\ c.width >= 1
  <2>1. c \in [file : Seq(STRING), width : Nat \ {0}, valid : BOOLEAN]
    BY DEF CharType
  <2>2. [c EXCEPT !.width = 3] \in [file : Seq(STRING), width : Nat \ {0}, valid : BOOLEAN]
    BY <2>1
  <2>3. c.width \in Nat \ {0}
    BY <2>1
  <2>4. /\ [c EXCEPT !.width = 3].file = c.file
        /\ [c EXCEPT !.width = 3].valid = c.valid
        /\ [c EXCEPT !.width = 3].width = 3
    BY <2>1
  <2> QED  BY <2>2, <2>3, <2>4 DEF CharType
<1>5. ASSUME NEW k \in 1..n
      PROVE  /\ plain[k] = IF text[k].valid THEN text[k] ELSE [text[k] EXCEPT !.width = 3]
             /\ plain[k] \in CharType /\ plain[k].file = text[k].file
             /\ plain[k].valid = text[k].valid
             /\ plain[k].width <= text[k].width + IF text[k].valid THEN 0 ELSE 2
  <2>1. PICK c \in CharType : c = text[k]
    BY <1>1
  <2>2. plain[k] = IF c.valid THEN c ELSE [c EXCEPT !.width = 3]
    BY <1>3, <2>1
  <2>3. CASE c.valid
    <3>1. plain[k] = c
      BY <2>2, <2>3
    <3>2. c.width <= c.width + 0
      <4>1. PICK w \in Nat : w = c.width
        BY <1>4
      <4>2. w <= w + 0
        OBVIOUS
      <4> QED  BY <4>1, <4>2
    <3> QED  BY <2>1, <2>2, <2>3, <3>1, <3>2
  <2>4. CASE ~ c.valid
    <3>1. PICK d : d = [c EXCEPT !.width = 3]
      OBVIOUS
    <3>2. /\ d \in CharType /\ d.file = c.file /\ d.valid = c.valid
          /\ d.width = 3 /\ c.width \in Nat /\ c.width >= 1
      BY <1>4, <3>1
    <3>3. plain[k] = d
      BY <2>2, <2>4, <3>1
    <3>4. d.width <= c.width + 2
      BY <3>2
    <3> QED  BY <2>1, <2>2, <2>4, <3>2, <3>3, <3>4
  <2> QED  BY <2>3, <2>4
<1>6. plain \in Seq(CharType) /\ DOMAIN plain = 1..n
  <2>1. plain \in [1..n -> CharType]
    BY <1>3, <1>5
  <2> QED  BY <2>1, SeqDef
<1>7. Len(plain) = n
  BY <1>6, LenProperties
<1>8. Replaced(plain) = Replaced(text)
  BY <1>1, <1>5, <1>6 DEF Replaced
<1> QED  BY <1>1, <1>2, <1>5, <1>6, <1>7, <1>8

\* So a patch in one piece is still one.
LEMMA ValidStands ==
    ASSUME NEW diff \in Seq(CharType), NEW patch \in Seq(CharType), NEW path,
           StandsWhole(patch, path, diff)
    PROVE  StandsWhole(ToValidUTF8(patch), path, ToValidUTF8(diff))
<1>1. PICK l \in Nat, m \in Nat : l = Len(patch) /\ m = Len(diff)
  OBVIOUS
<1>2. PICK a \in 0..m - l :
         /\ \A k \in 1..l : diff[a + k] = patch[k]
         /\ \A k \in 1..m : diff[k].file = path => k \in a + 1..a + l
  BY <1>1 DEF StandsWhole
<1>3. PICK p, d : p = ToValidUTF8(patch) /\ d = ToValidUTF8(diff)
  OBVIOUS
<1>4. /\ Len(p) = l /\ Len(d) = m
      /\ \A k \in 1..l : p[k] = IF patch[k].valid THEN patch[k]
                                 ELSE [patch[k] EXCEPT !.width = 3]
      /\ \A k \in 1..m : d[k] = IF diff[k].valid THEN diff[k]
                                 ELSE [diff[k] EXCEPT !.width = 3]
      /\ \A k \in 1..m : d[k].file = diff[k].file
  BY <1>1, <1>3, ValidIs
<1>5. ASSUME NEW k \in 1..l PROVE d[a + k] = p[k]
  <2>1. a + k \in 1..m
    OBVIOUS
  <2>2. PICK c : c = patch[k] /\ c = diff[a + k]
    BY <1>2
  <2>3. d[a + k] = IF c.valid THEN c ELSE [c EXCEPT !.width = 3]
    BY <1>4, <2>1, <2>2
  <2>4. p[k] = IF c.valid THEN c ELSE [c EXCEPT !.width = 3]
    BY <1>4, <2>2
  <2> QED  BY <2>3, <2>4
<1>6. \A k \in 1..m : d[k].file = path => k \in a + 1..a + l
  BY <1>2, <1>4
<1> QED  BY <1>3, <1>4, <1>5, <1>6 DEF StandsWhole

\* The widths of a text and of its replacement, with one more character.
LEMMA OneMoreKept ==
    ASSUME NEW s \in Nat, NEW w \in Nat, NEW a \in Nat, NEW b \in Nat, NEW r \in Nat,
           w <= s + 2 * r, b <= a
    PROVE  w + b <= (s + a) + 2 * r
OBVIOUS

LEMMA OneMoreReplaced ==
    ASSUME NEW s \in Nat, NEW w \in Nat, NEW a \in Nat, NEW b \in Nat, NEW r \in Nat,
           w <= s + 2 * r, b <= a + 2
    PROVE  w + b <= (s + a) + 2 * (r + 1) /\ r + 1 \in Nat
OBVIOUS

\* And each replacement makes a text two bytes wider at most.
LEMMA ValidWidth ==
    ASSUME NEW text \in Seq(CharType)
    PROVE  /\ Width(ToValidUTF8(text)) \in Nat /\ Width(text) \in Nat
           /\ Cardinality(Replaced(text)) \in Nat
           /\ Width(ToValidUTF8(text)) <= Width(text) + 2 * Cardinality(Replaced(text))
<1>1. PICK n \in Nat : n = Len(text) /\ DOMAIN text = 1..n
  OBVIOUS
<1>2. PICK plain \in Seq(CharType) : plain = ToValidUTF8(text)
  BY ValidIs
<1>3. /\ Len(plain) = n
      /\ \A k \in 1..n : plain[k].width <= text[k].width + IF text[k].valid THEN 0 ELSE 2
  BY <1>1, <1>2, ValidIs
<1>4. PICK sum \in [0..n -> Nat] : Sums(sum, text, n) /\ Width(text) = sum[n]
  BY <1>1, WidthLoop
<1>5. PICK wide \in [0..n -> Nat] : Sums(wide, plain, n) /\ Width(plain) = wide[n]
  BY <1>3, WidthLoop
<1> DEFINE R(k) == {j \in 1..k : ~ text[j].valid}
           Is(k) == /\ IsFiniteSet(R(k)) /\ Cardinality(R(k)) \in Nat
                    /\ wide[k] <= sum[k] + 2 * Cardinality(R(k))
           T == {k \in 0..n : Is(k)}
<1>6. 0 \in T
  <2>1. R(0) = {} /\ sum[0] = 0 /\ wide[0] = 0
    BY <1>4, <1>5 DEF Sums
  <2> HIDE DEF R
  <2> QED  BY <2>1, FS_EmptySet
<1>7. ASSUME NEW k \in 1..n, k - 1 \in T PROVE k \in T
  <2>1. k \in 0..n /\ k - 1 \in 0..n
    OBVIOUS
  <2>2. PICK s \in Nat, w \in Nat : s = sum[k - 1] /\ w = wide[k - 1]
    BY <2>1
  <2>3. PICK a \in Nat, b \in Nat : a = text[k].width /\ b = plain[k].width
    <3>1. text[k] \in CharType /\ plain[k] \in CharType
      BY <1>1, <1>3
    <3> QED  BY <3>1 DEF CharType
  <2>4. sum[k] = s + a /\ wide[k] = w + b
    BY <1>4, <1>5, <2>2, <2>3 DEF Sums
  <2>5. PICK r \in Nat : r = Cardinality(R(k - 1)) /\ IsFiniteSet(R(k - 1)) /\ w <= s + 2 * r
    <3> HIDE DEF R
    <3> QED  BY <1>7, <2>2
  <2>6. CASE text[k].valid
    <3>1. b <= a
      BY <1>3, <2>3, <2>6
    <3>2. R(k) = R(k - 1)
      <4>1. \A j \in 1..k : j = k \/ j \in 1..k - 1
        OBVIOUS
      <4>2. \A j \in 1..k - 1 : j \in 1..k
        OBVIOUS
      <4> QED  BY <2>6, <4>1, <4>2
    <3>3. w + b <= (s + a) + 2 * r
      <4> HIDE DEF R
      <4> QED  BY <2>5, <3>1, OneMoreKept
    <3> HIDE DEF R
    <3> QED  BY <2>1, <2>4, <2>5, <3>2, <3>3
  <2>7. CASE ~ text[k].valid
    <3>1. b <= a + 2
      BY <1>3, <2>3, <2>7
    <3>2. R(k) = R(k - 1) \cup {k} /\ k \notin R(k - 1)
      <4>1. \A j \in 1..k : j = k \/ j \in 1..k - 1
        OBVIOUS
      <4>2. (\A j \in 1..k - 1 : j \in 1..k /\ j # k) /\ k \in 1..k
        OBVIOUS
      <4> QED  BY <2>7, <4>1, <4>2
    <3>3. IsFiniteSet(R(k)) /\ Cardinality(R(k)) = r + 1
      <4>1. PICK before : before = R(k - 1)
        OBVIOUS
      <4>2. /\ IsFiniteSet(before \cup {k})
            /\ Cardinality(before \cup {k}) = Cardinality(before) + 1
        <5> HIDE DEF R
        <5> QED  BY <2>5, <3>2, <4>1, FS_AddElement
      <4> HIDE DEF R
      <4> QED  BY <2>5, <3>2, <4>1, <4>2
    <3>4. w + b <= (s + a) + 2 * (r + 1) /\ r + 1 \in Nat
      <4> HIDE DEF R
      <4> QED  BY <2>5, <3>1, OneMoreReplaced
    <3> HIDE DEF R
    <3> QED  BY <2>1, <2>4, <3>3, <3>4
  <2> QED  BY <2>6, <2>7
<1>8. n \in T
  <2>1. n \in 0..n
    OBVIOUS
  <2> HIDE DEF T
  <2> QED  BY <1>6, <1>7, <2>1, LoopKeeps
<1>9. R(n) = Replaced(text)
  BY <1>1 DEF Replaced
<1>10. sum[n] \in Nat /\ wide[n] \in Nat
  BY <1>4, <1>5
<1> HIDE DEF R
<1> QED  BY <1>2, <1>4, <1>5, <1>8, <1>9, <1>10

-----------------------------------------------------------------------------
(* The collection *)

\* The files of a repository that are changed or were since the collection began.
ChangedIn(repo) ==
    {c.file : c \in dirty[repo]} \cup {e[2] : e \in {e \in edited : e[1] = repo}}
FilesChanged(files) ==
    \A path \in files : \E repo \in Expected :
        path \in {Prefix(repo) \o name : name \in ChangedIn(repo)}

\* What was changed all the time is named, and its patch is there.
NamedIn(repo, files) ==
    \A c \in dirty[repo] : <<repo, c.file>> \notin edited => Prefix(repo) \o c.file \in files
PatchedIn(repo, diff) ==
    \A c \in dirty[repo] : <<repo, c.file>> \notin edited =>
        StandsWhole(PatchOf(repo, c), Prefix(repo) \o c.file, diff)

CharsOf(repos, diff) ==
    \A x \in 1..Len(diff) : \E repo \in repos : \E name \in Seq(STRING) :
        diff[x].file = Prefix(repo) \o name

\* What a collection has gathered, and from which repositories: all but those to do.
Gathered(todo, files, diff) ==
    /\ todo \in Seq(Expected) /\ IsInjective(todo)
    /\ files \in SUBSET Seq(STRING) /\ FilesChanged(files)
    /\ diff \in Seq(CharType) /\ CharsOf(Expected \ ToSet(todo), diff)
    /\ \A repo \in Expected \ ToSet(todo) : NamedIn(repo, files) /\ PatchedIn(repo, diff)

GitTypes ==
    /\ tree \in Trees
    /\ \A repo \in Repositories : dirty[repo] \in SUBSET Changes /\ OneChangeEach(dirty[repo])
    /\ dirty = [repo \in Repositories |-> dirty[repo]]

GitInv ==
    /\ GitTypes
    /\ collect.pc \in {"status", "diff"} =>
          /\ collect = [pc |-> collect.pc, todo |-> collect.todo,
                        files |-> collect.files, diff |-> collect.diff]
          /\ Gathered(collect.todo, collect.files, collect.diff)
    /\ collect.pc = "diff" => collect.todo # << >> /\ NamedIn(Repo, collect.files)
    /\ ResultIsWhole

\* Nothing is gathered at first.
LEMMA GitBegins == GitInit => GitInv
<1> SUFFICES ASSUME GitInit PROVE GitInv
  OBVIOUS
<1>1. tree \in Trees /\ dirty \in [Repositories -> {s \in SUBSET Changes : OneChangeEach(s)}]
  BY DEF GitInit
<1>2. GitTypes
  BY <1>1 DEF GitTypes
<1>3. collect.pc = "discover"
  BY DEF GitInit
<1> QED  BY <1>2, <1>3 DEF GitInv, ResultIsWhole

\* What is expected does not change, nor what is gathered if nothing is edited.
LEMMA ExpectedStays ==
    ASSUME tree' = tree, refused' = refused
    PROVE  Repositories' = Repositories /\ Around' = Around /\ Expected' = Expected
<1>1. Repositories' = Repositories
  BY DEF Repositories
<1>2. Around' = Around
  BY <1>1 DEF Around
<1>3. Toplevel' = Toplevel
  BY <1>2 DEF Toplevel
<1>4. \A d, r : InWay(d, r)' = InWay(d, r)
  BY DEF InWay
<1> QED  BY <1>1, <1>2, <1>3, <1>4 DEF Expected

LEMMA TypesStay ==
    ASSUME GitTypes, tree' = tree, refused' = refused, dirty' = dirty
    PROVE  GitTypes'
  BY ExpectedStays DEF GitTypes

LEMMA NothingGathered ==
    ASSUME NEW todo \in Seq(Expected), IsInjective(todo), ToSet(todo) = Expected
    PROVE  Gathered(todo, {}, << >>)
<1>1. << >> \in Seq(CharType) /\ Len(<< >>) = 0 /\ 1..0 = {}
  OBVIOUS
<1>2. CharsOf(Expected \ ToSet(todo), << >>)
  BY <1>1 DEF CharsOf
<1> QED  BY <1>1, <1>2 DEF Gathered, FilesChanged

\* A list is one of what its elements are.
LEMMA Retyped ==
    ASSUME NEW S, NEW T, NEW list \in Seq(S), \A k \in 1..Len(list) : list[k] \in T
    PROVE  list \in Seq(T)
<1>1. list \in [1..Len(list) -> T] /\ Len(list) \in Nat
  OBVIOUS
<1> QED  BY <1>1, SeqDef

\* The repositories that are looked through are those expected, each once.
LEMMA DiscoverKeeps ==
    ASSUME GitInv, Discover
    PROVE  GitInv'
<1>1. tree' = tree /\ refused' = refused /\ dirty' = dirty /\ edited' = edited
  BY DEF Discover
<1>2. GitTypes /\ GitTypes' /\ Expected' = Expected
  BY <1>1, TypesStay, ExpectedStays DEF GitInv
<1>3. CASE collect' = Failed
  <2>1. collect'.pc = "failed"
    BY <1>3 DEF Failed
  <2> QED  BY <1>2, <2>1 DEF GitInv, ResultIsWhole
<1>4. ASSUME NEW todo \in Seq(Expected), collect' = Collecting(todo),
             IsInjective(todo), ToSet(todo) = Expected
      PROVE  GitInv'
  <2>1. collect' = [pc |-> "status", todo |-> todo, files |-> {}, diff |-> << >>]
    BY <1>4 DEF Collecting
  <2>2. collect'.pc = "status" /\ collect'.todo = todo /\ collect'.files = {}
        /\ collect'.diff = << >>
    BY <2>1
  <2>3. Gathered(todo, {}, << >>)
    BY <1>4, NothingGathered
  <2>4. Gathered(collect.todo, collect.files, collect.diff)'
    BY <1>1, <1>2, <2>2, <2>3
       DEF Gathered, FilesChanged, ChangedIn, NamedIn, PatchedIn
  <2> QED  BY <1>2, <2>1, <2>2, <2>4 DEF GitInv, ResultIsWhole
<1>5. CASE Around # {}
  <2>1. Expected = {Toplevel} /\ collect' = Collecting(<<Toplevel>>)
    BY <1>5 DEF Expected, Discover
  <2>2. <<Toplevel>> \in Seq(Expected) /\ IsInjective(<<Toplevel>>)
        /\ ToSet(<<Toplevel>>) = Expected
    BY <2>1 DEF IsInjective, ToSet
  <2> QED  BY <1>4, <2>1, <2>2
<1>6. CASE Around = {} /\ ~ Walk.failed
  <2>1. collect' = Collecting(Walk.found)
    BY <1>6 DEF Discover
  <2>2. /\ Walk.found \in Seq(Seq(STRING)) /\ IsInjective(Walk.found)
        /\ ToSet(Walk.found) = Expected
    BY <1>2, <1>6, WalkFinds DEF GitTypes
  <2>3. Walk.found \in Seq(Expected)
    <3>1. PICK found \in Seq(Seq(STRING)) : found = Walk.found /\ ToSet(found) = Expected
      BY <2>2
    <3>2. \A k \in 1..Len(found) : found[k] \in Expected
      BY <3>1 DEF ToSet
    <3>3. found \in Seq(Expected)
      BY <3>2, Retyped
    <3> QED  BY <3>1, <3>3
  <2> QED  BY <1>4, <2>1, <2>2, <2>3
<1>7. CASE Around = {} /\ Walk.failed
  <2>1. collect' = Failed
    BY <1>7 DEF Discover
  <2> QED  BY <1>3, <2>1
<1> QED  BY <1>5, <1>6, <1>7

\* What is known of the next repository.
LEMMA RepoIs ==
    ASSUME GitTypes, NEW todo \in Seq(Expected), todo # << >>
    PROVE  /\ todo[1] \in Expected /\ todo[1] \in ToSet(todo) /\ todo[1] \in Seq(STRING)
           /\ dirty[todo[1]] \in SUBSET Changes /\ OneChangeEach(dirty[todo[1]])
<1>1. todo[1] \in Expected /\ 1 \in DOMAIN todo
  OBVIOUS
<1>2. todo[1] \in Repositories /\ todo[1] \in Seq(STRING)
  BY <1>1, ExpectedAre DEF GitTypes
<1> QED  BY <1>1, <1>2 DEF GitTypes, ToSet

\* The files of one more repository are named.
LEMMA StatusKeeps ==
    ASSUME GitInv, Status
    PROVE  GitInv'
<1>1. /\ tree' = tree /\ refused' = refused /\ dirty' = dirty /\ edited' = edited
      /\ collect.pc = "status" /\ collect.todo # << >>
  BY DEF Status
<1>2. GitTypes /\ GitTypes' /\ Expected' = Expected
  BY <1>1, TypesStay, ExpectedStays DEF GitInv
<1>3. PICK todo, files, diff :
         /\ collect = [pc |-> "status", todo |-> todo, files |-> files, diff |-> diff]
         /\ Gathered(todo, files, diff) /\ todo # << >>
  BY <1>1 DEF GitInv
<1>4. PICK repo : repo = todo[1]
  OBVIOUS
<1>5. todo \in Seq(Expected)
  BY <1>3 DEF Gathered
<1>6. /\ repo \in Expected /\ repo \in ToSet(todo) /\ repo \in Seq(STRING)
      /\ dirty[repo] \in SUBSET Changes
  BY <1>2, <1>3, <1>4, <1>5, RepoIs
<1>7. PICK more : more = files \cup {Prefix(repo) \o name : name \in {c.file : c \in dirty[repo]}}
  OBVIOUS
<1>8. collect' = [pc |-> "diff", todo |-> todo, files |-> more, diff |-> diff]
  <2>1. Repo = repo
    BY <1>3, <1>4 DEF Repo
  <2>2. ParsePorcelain(StatusOf(repo)) = {c.file : c \in dirty[repo]}
    BY <1>6, StatusNames
  <2>3. collect' = [collect EXCEPT !.pc = "diff",
                      !.files = @ \cup {Prefix(repo) \o name : name \in {c.file : c \in dirty[repo]}}]
    BY <2>1, <2>2 DEF Status
  <2> QED  BY <1>3, <1>7, <2>3
<1>9. NamedIn(repo, more)
  BY <1>7 DEF NamedIn
<1>10. Gathered(todo, more, diff)
  <2>1. more \in SUBSET Seq(STRING)
    <3>1. \A c \in dirty[repo] : Prefix(repo) \o c.file \in Seq(STRING)
      BY <1>6, PatchIs
    <3> QED  BY <1>3, <1>7, <3>1 DEF Gathered
  <2>2. FilesChanged(more)
    BY <1>3, <1>6, <1>7 DEF Gathered, FilesChanged, ChangedIn
  <2>3. \A r \in Expected \ ToSet(todo) : NamedIn(r, more)
    BY <1>3, <1>7 DEF Gathered, NamedIn
  <2> QED  BY <1>3, <2>1, <2>2, <2>3 DEF Gathered
<1>11. /\ collect'.pc = "diff" /\ collect'.todo = todo /\ collect'.files = more
       /\ collect'.diff = diff
  BY <1>8
<1>12. Gathered(collect.todo, collect.files, collect.diff)'
  BY <1>1, <1>2, <1>10, <1>11
     DEF Gathered, FilesChanged, ChangedIn, NamedIn, PatchedIn
<1>13. NamedIn(Repo, collect.files)'
  BY <1>1, <1>4, <1>9, <1>11 DEF NamedIn, Repo
<1> QED  BY <1>2, <1>3, <1>8, <1>11, <1>12, <1>13 DEF GitInv, ResultIsWhole

\* Behind the first of a list stand the others.
LEMMA TailIs ==
    ASSUME NEW S, NEW todo \in Seq(S), todo # << >>, IsInjective(todo)
    PROVE  /\ Tail(todo) \in Seq(S) /\ IsInjective(Tail(todo))
           /\ ToSet(Tail(todo)) = ToSet(todo) \ {todo[1]}
<1>1. PICK n \in Nat : n = Len(todo) /\ DOMAIN todo = 1..n
  OBVIOUS
<1>2. n # 0
  BY <1>1
<1>3. PICK others \in Seq(S) : others = Tail(todo)
  <2>1. Tail(todo) \in Seq(S)
    OBVIOUS
  <2> QED  BY <2>1
<1>4. DOMAIN others = 1..(n - 1) /\ \A i \in 1..(n - 1) : others[i] = todo[i + 1]
  BY <1>1, <1>2, <1>3
<1>5. \A i, j \in 1..n : todo[i] = todo[j] => i = j
  BY <1>1 DEF IsInjective
<1>6. IsInjective(others)
  <2> SUFFICES ASSUME NEW i \in 1..(n - 1), NEW j \in 1..(n - 1), others[i] = others[j] PROVE i = j
    BY <1>4 DEF IsInjective
  <2>1. i + 1 \in 1..n /\ j + 1 \in 1..n
    OBVIOUS
  <2>2. i + 1 = j + 1
    BY <1>4, <1>5, <2>1
  <2> QED  BY <2>2
<1>7. ASSUME NEW x \in ToSet(others) PROVE x \in ToSet(todo) \ {todo[1]}
  <2>1. PICK i \in 1..(n - 1) : x = others[i]
    BY <1>4 DEF ToSet
  <2>2. i + 1 \in 1..n /\ i + 1 # 1 /\ 1 \in 1..n
    BY <1>2
  <2>3. x = todo[i + 1] /\ todo[i + 1] # todo[1]
    BY <1>4, <1>5, <2>1, <2>2
  <2> QED  BY <1>1, <2>2, <2>3 DEF ToSet
<1>8. ASSUME NEW x \in ToSet(todo), x # todo[1] PROVE x \in ToSet(others)
  <2>1. PICK i \in 1..n : x = todo[i]
    BY <1>1 DEF ToSet
  <2>2. i # 1
    BY <1>8, <2>1
  <2>3. i - 1 \in 1..(n - 1) /\ (i - 1) + 1 = i
    BY <2>2
  <2> QED  BY <1>4, <2>1, <2>3 DEF ToSet
<1> QED  BY <1>3, <1>6, <1>7, <1>8

\* The diff of one more repository is in.
LEMMA MoreChars ==
    ASSUME NEW repos, NEW repo, NEW diff \in Seq(CharType), NEW more \in Seq(CharType),
           CharsOf(repos, diff),
           \A x \in 1..Len(more) : \E name \in Seq(STRING) : more[x].file = Prefix(repo) \o name
    PROVE  CharsOf(repos \cup {repo}, diff \o more)
<1>1. PICK m \in Nat, n \in Nat : m = Len(diff) /\ n = Len(more)
  OBVIOUS
<1>2. PICK both : both = diff \o more
  OBVIOUS
<1>3. /\ Len(both) = m + n /\ \A i \in 1..m : both[i] = diff[i]
      /\ \A i \in 1..n : both[m + i] = more[i]
  BY <1>1, <1>2, Joined
<1>4. ASSUME NEW x \in 1..(m + n)
      PROVE  \E r \in repos \cup {repo} : \E name \in Seq(STRING) :
                both[x].file = Prefix(r) \o name
  <2>1. CASE x \in 1..m
    <3>1. \E r \in repos : \E name \in Seq(STRING) : diff[x].file = Prefix(r) \o name
      BY <1>1, <2>1 DEF CharsOf
    <3> QED  BY <1>3, <2>1, <3>1
  <2>2. CASE ~ (x \in 1..m)
    <3>1. x - m \in 1..n /\ x = m + (x - m)
      BY <2>2, Offset
    <3>2. PICK j \in 1..n : x = m + j
      BY <3>1
    <3>3. \E name \in Seq(STRING) : more[j].file = Prefix(repo) \o name
      BY <1>1
    <3> QED  BY <1>3, <3>2, <3>3
  <2> QED  BY <2>1, <2>2
<1> QED  BY <1>2, <1>3, <1>4 DEF CharsOf

LEMMA DiffKeeps ==
    ASSUME GitInv, Diff
    PROVE  GitInv'
<1>1. /\ tree' = tree /\ refused' = refused /\ dirty' = dirty /\ edited' = edited /\ collect.pc = "diff"
  BY DEF Diff
<1>2. GitTypes /\ GitTypes' /\ Expected' = Expected /\ tree \in Trees
  BY <1>1, TypesStay, ExpectedStays DEF GitInv, GitTypes
<1>3. PICK todo, files, diff :
         /\ collect = [pc |-> "diff", todo |-> todo, files |-> files, diff |-> diff]
         /\ Gathered(todo, files, diff) /\ todo # << >> /\ NamedIn(todo[1], files)
  BY <1>1 DEF GitInv, Repo
<1>4. PICK repo : repo = todo[1]
  OBVIOUS
<1>5. todo \in Seq(Expected) /\ IsInjective(todo) /\ diff \in Seq(CharType)
      /\ CharsOf(Expected \ ToSet(todo), diff)
  BY <1>3 DEF Gathered
<1>6. /\ repo \in Expected /\ repo \in ToSet(todo) /\ repo \in Seq(STRING)
      /\ dirty[repo] \in SUBSET Changes /\ OneChangeEach(dirty[repo])
  BY <1>2, <1>3, <1>4, <1>5, RepoIs
<1>7. PICK more \in Seq(CharType) : more = DiffOf(repo)
  BY <1>6, DiffIs
<1>8. /\ \A x \in 1..Len(more) : \E c \in dirty[repo] : more[x].file = Prefix(repo) \o c.file
      /\ \A c \in dirty[repo] : StandsWhole(PatchOf(repo, c), Prefix(repo) \o c.file, more)
  BY <1>6, <1>7, DiffIs
<1>9. \A r \in Expected : \A c \in dirty[r] :
         c.file \in Seq(STRING) /\ PatchOf(r, c) \in Seq(CharType)
  <2> SUFFICES ASSUME NEW r \in Expected, NEW c \in dirty[r]
               PROVE  c.file \in Seq(STRING) /\ PatchOf(r, c) \in Seq(CharType)
    OBVIOUS
  <2>1. r \in Repositories /\ r \in Seq(STRING) /\ c \in Changes
    BY <1>2, ExpectedAre DEF GitTypes
  <2> QED  BY <2>1, PatchIs, ChangesAssumption
<1>10. PICK others \in Seq(Expected) : others = Tail(todo) /\ IsInjective(others)
          /\ ToSet(others) = ToSet(todo) \ {repo}
  BY <1>3, <1>4, <1>5, TailIs
<1>11. Expected \ ToSet(others) = (Expected \ ToSet(todo)) \cup {repo}
  BY <1>6, <1>10
<1>12. PICK both \in Seq(CharType) : both = diff \o more
  <2>1. diff \o more \in Seq(CharType)
    BY <1>5
  <2> QED  BY <2>1
<1>13. CharsOf(Expected \ ToSet(others), both)
  <2>1. \A x \in 1..Len(more) : \E name \in Seq(STRING) : more[x].file = Prefix(repo) \o name
    BY <1>6, <1>8, <1>9
  <2>2. PICK repos : repos = Expected \ ToSet(todo)
    OBVIOUS
  <2>3. CharsOf(repos, diff) /\ diff \in Seq(CharType)
    BY <1>5, <2>2
  <2>4. CharsOf(repos \cup {repo}, diff \o more)
    BY <2>1, <2>3, MoreChars
  <2> QED  BY <1>11, <1>12, <2>2, <2>4
<1>14. ASSUME NEW r \in Expected \ ToSet(todo)
       PROVE  NamedIn(r, files) /\ PatchedIn(r, both)
  <2>1. NamedIn(r, files) /\ PatchedIn(r, diff) /\ r # repo
    BY <1>3, <1>6 DEF Gathered
  <2>2. ASSUME NEW c \in dirty[r], <<r, c.file>> \notin edited
        PROVE  StandsWhole(PatchOf(r, c), Prefix(r) \o c.file, both)
    <3>1. StandsWhole(PatchOf(r, c), Prefix(r) \o c.file, diff)
      BY <2>1, <2>2 DEF PatchedIn
    <3>2. ASSUME NEW x \in 1..Len(more) PROVE more[x].file # Prefix(r) \o c.file
      <4>1. PICK d \in dirty[repo] : more[x].file = Prefix(repo) \o d.file
        BY <1>8
      <4>2. Prefix(repo) \o d.file # Prefix(r) \o c.file
        BY <1>2, <1>6, <1>9, <2>1, PathsDiffer
      <4> QED  BY <4>1, <4>2
    <3>3. PICK patch \in Seq(CharType) : patch = PatchOf(r, c)
      BY <1>9
    <3> QED  BY <1>5, <1>12, <3>1, <3>2, <3>3, StandsBefore
  <2> QED  BY <2>1, <2>2 DEF PatchedIn
<1>15. PatchedIn(repo, both)
  <2> SUFFICES ASSUME NEW c \in dirty[repo]
               PROVE  StandsWhole(PatchOf(repo, c), Prefix(repo) \o c.file, both)
    BY DEF PatchedIn
  <2>1. StandsWhole(PatchOf(repo, c), Prefix(repo) \o c.file, more)
    BY <1>8
  <2>2. ASSUME NEW x \in 1..Len(diff) PROVE diff[x].file # Prefix(repo) \o c.file
    <3>1. PICK r \in Expected \ ToSet(todo) : \E name \in Seq(STRING) :
             diff[x].file = Prefix(r) \o name
      BY <1>5 DEF CharsOf
    <3>2. PICK name \in Seq(STRING) : diff[x].file = Prefix(r) \o name
      BY <3>1
    <3>3. r # repo
      BY <1>6
    <3>4. Prefix(r) \o name # Prefix(repo) \o c.file
      BY <1>2, <1>6, <1>9, <3>3, PathsDiffer
    <3> QED  BY <3>2, <3>4
  <2>3. PICK patch \in Seq(CharType) : patch = PatchOf(repo, c)
    BY <1>6, <1>9
  <2> QED  BY <1>5, <1>12, <2>1, <2>2, <2>3, StandsAfter
<1>16. NamedIn(repo, files)
  BY <1>3, <1>4
<1>17. \A r \in Expected \ ToSet(others) : NamedIn(r, files) /\ PatchedIn(r, both)
  BY <1>11, <1>14, <1>15, <1>16
<1>18. Gathered(others, files, both)
  BY <1>3, <1>10, <1>12, <1>13, <1>17 DEF Gathered
<1>19. collect' = [pc |-> "status", todo |-> others, files |-> files, diff |-> both]
  <2>1. collect' = [collect EXCEPT !.pc = "status", !.todo = Tail(@), !.diff = @ \o DiffOf(Repo)]
    BY DEF Diff
  <2>2. DiffOf(Repo) = more
    BY <1>3, <1>4, <1>7 DEF Repo
  <2> QED  BY <1>3, <1>10, <1>12, <2>1, <2>2
<1>20. /\ collect'.pc = "status" /\ collect'.todo = others /\ collect'.files = files
       /\ collect'.diff = both
  BY <1>19
<1>21. Gathered(collect.todo, collect.files, collect.diff)'
  BY <1>1, <1>2, <1>18, <1>20
     DEF Gathered, FilesChanged, ChangedIn, NamedIn, PatchedIn
<1> QED  BY <1>2, <1>19, <1>20, <1>21 DEF GitInv, ResultIsWhole

\* The result is what was gathered, and its diff is cut.
LEMMA FinishKeeps ==
    ASSUME GitInv, Finish
    PROVE  GitInv'
<1>1. /\ tree' = tree /\ refused' = refused /\ dirty' = dirty /\ edited' = edited
      /\ collect.pc = "status" /\ collect.todo = << >>
  BY DEF Finish
<1>2. GitTypes /\ GitTypes' /\ Expected' = Expected
  BY <1>1, TypesStay, ExpectedStays DEF GitInv
<1>3. PICK files, diff :
         /\ collect = [pc |-> "status", todo |-> << >>, files |-> files, diff |-> diff]
         /\ Gathered(<< >>, files, diff)
  BY <1>1 DEF GitInv
<1>4. Expected \ ToSet(<< >>) = Expected /\ diff \in Seq(CharType)
  BY <1>3 DEF Gathered, ToSet
<1>5. PICK cut : cut = CutTo(diff, MaxDiffBytes)
  OBVIOUS
<1>6. /\ Width(diff) \in Nat /\ MaxDiffBytes \in Nat /\ cut \in Seq(CharType)
      /\ Width(diff) <= MaxDiffBytes => cut = diff
      /\ Width(cut) <= MaxDiffBytes
  BY <1>4, <1>5, CutIs, MaxDiffBytesAssumption
<1>7. PICK w \in Nat, m \in Nat : w = Width(diff) /\ m = MaxDiffBytes
  BY <1>6
<1>8. PICK cutting : cutting = (w > m)
  OBVIOUS
<1>9. ~ cutting => cut = diff
  <2>1. w > m \/ cut = diff
    BY <1>6, <1>7
  <2> QED  BY <1>8, <2>1, Zenon
<1>10. PICK plain : plain = ToValidUTF8(cut)
  OBVIOUS
<1>11. Width(plain) <= MaxDiffBytes + 2 * Cardinality(Replaced(plain))
  <2>1. PICK width \in Nat, before \in Nat, runs \in Nat :
            /\ width = Width(plain) /\ before = Width(cut)
            /\ runs = Cardinality(Replaced(cut)) /\ width <= before + 2 * runs
    BY <1>6, <1>10, ValidWidth
  <2>2. Replaced(plain) = Replaced(cut)
    BY <1>6, <1>10, ValidIs
  <2>3. before <= m
    BY <1>6, <1>7, <2>1
  <2>4. width <= m + 2 * runs
    BY <2>1, <2>3
  <2> QED  BY <1>7, <2>1, <2>2, <2>4
<1>12. collect' = [pc |-> "done", files |-> files, diff |-> plain, truncated |-> cutting]
  BY <1>3, <1>5, <1>7, <1>8, <1>10 DEF Finish
<1>13. /\ collect'.pc = "done" /\ collect'.files = files /\ collect'.diff = plain
       /\ collect'.truncated = cutting
  BY <1>12
<1>14. ASSUME NEW repo \in Expected, NEW c \in dirty[repo], <<repo, c.file>> \notin edited
       PROVE  /\ Prefix(repo) \o c.file \in files
              /\ ~ cutting => StandsWhole(ToValidUTF8(PatchOf(repo, c)),
                                          Prefix(repo) \o c.file, plain)
  <2>1. NamedIn(repo, files) /\ PatchedIn(repo, diff)
    BY <1>3, <1>4 DEF Gathered
  <2>2. Prefix(repo) \o c.file \in files
    BY <1>14, <2>1 DEF NamedIn
  <2>3. ASSUME ~ cutting
        PROVE  StandsWhole(ToValidUTF8(PatchOf(repo, c)), Prefix(repo) \o c.file, plain)
    <3>1. StandsWhole(PatchOf(repo, c), Prefix(repo) \o c.file, diff)
      BY <1>14, <2>1 DEF PatchedIn
    <3>2. repo \in Repositories /\ repo \in Seq(STRING)
      BY <1>2, ExpectedAre DEF GitTypes
    <3>3. c \in Changes
      BY <1>2, <3>2 DEF GitTypes
    <3>4. PICK patch \in Seq(CharType) : patch = PatchOf(repo, c)
      BY <3>2, <3>3, PatchIs
    <3>5. plain = ToValidUTF8(diff)
      BY <1>9, <1>10, <2>3
    <3> QED  BY <1>4, <3>1, <3>4, <3>5, ValidStands
  <2> QED  BY <2>2, <2>3
<1>15. FilesChanged(files)
  BY <1>3 DEF Gathered
<1>16. ResultIsWhole'
  <2>1. ASSUME NEW repo \in Expected', NEW c \in dirty'[repo]
        PROVE  LET path == Prefix(repo) \o c.file IN
               <<repo, c.file>> \notin edited' =>
                  /\ path \in collect'.files
                  /\ ~ collect'.truncated =>
                        StandsWhole(ToValidUTF8(PatchOf(repo, c)), path, collect'.diff)
    BY <1>1, <1>2, <1>13, <1>14
  <2>2. \A path \in collect'.files : \E repo \in Expected' :
           path \in {Prefix(repo) \o name : name \in
                       {c.file : c \in dirty'[repo]} \cup {e[2] : e \in {e \in edited' : e[1] = repo}}}
    BY <1>1, <1>2, <1>13, <1>15 DEF FilesChanged, ChangedIn
  <2>3. Width(collect'.diff) <= MaxDiffBytes + 2 * Cardinality(Replaced(collect'.diff))
    BY <1>11, <1>13
  <2> QED  BY <2>1, <2>2, <2>3 DEF ResultIsWhole
<1> QED  BY <1>2, <1>13, <1>16 DEF GitInv

LEMMA GitFailsKeeps ==
    ASSUME GitInv, GitFails
    PROVE  GitInv'
<1>1. tree' = tree /\ refused' = refused /\ dirty' = dirty /\ edited' = edited /\ collect'.pc = "failed"
  BY DEF GitFails, Failed
<1>2. GitTypes'
  BY <1>1, TypesStay DEF GitInv
<1> QED  BY <1>1, <1>2 DEF GitInv, ResultIsWhole

\* What an edit leaves: the changes of other files, and what it touches counts as changed.
LEMMA EditIs ==
    ASSUME GitTypes, NEW repo \in Repositories, NEW c \in Changes, EditTree(repo, c)
    PROVE  /\ GitTypes' /\ Expected' = Expected
           /\ \A r \in Repositories : ChangedIn(r) \subseteq ChangedIn(r)'
           /\ \A r \in Repositories : \A d \in dirty'[r] :
                 <<r, d.file>> \notin edited' => d \in dirty[r] /\ <<r, d.file>> \notin edited
<1>1. /\ tree' = tree /\ refused' = refused
      /\ edited' = edited \cup {<<repo, c.file>>}
  BY DEF EditTree
<1>2. Repositories' = Repositories /\ Expected' = Expected
  BY <1>1, ExpectedStays
<1>3. /\ dirty = [r \in Repositories |-> dirty[r]]
      /\ \A r \in Repositories : dirty[r] \in SUBSET Changes /\ OneChangeEach(dirty[r])
  BY DEF GitTypes
<1>4. PICK after : after = IF c \in dirty[repo] THEN dirty[repo] \ {c}
                           ELSE {d \in dirty[repo] : d.file # c.file} \cup {c}
  OBVIOUS
<1>5. dirty' = [dirty EXCEPT ![repo] = after]
  BY <1>4 DEF EditTree
<1>6. /\ dirty'[repo] = after /\ \A r \in Repositories \ {repo} : dirty'[r] = dirty[r]
      /\ dirty' = [r \in Repositories |-> dirty'[r]]
  BY <1>3, <1>5
<1>7. after \in SUBSET Changes /\ OneChangeEach(after)
  BY <1>3, <1>4 DEF OneChangeEach
<1>8. GitTypes'
  <2>1. \A r \in Repositories : dirty'[r] \in SUBSET Changes /\ OneChangeEach(dirty'[r])
    BY <1>3, <1>6, <1>7
  <2>2. tree' \in Trees
    BY <1>1 DEF GitTypes
  <2> QED  BY <1>2, <1>6, <2>1, <2>2 DEF GitTypes
<1>9. \A d \in dirty[repo] : d \in after \/ d.file = c.file
  BY <1>4
<1>10. \A d \in after : d \in dirty[repo] \/ d.file = c.file
  BY <1>4
<1>11. ASSUME NEW r \in Repositories, NEW name \in ChangedIn(r)
       PROVE  name \in {d.file : d \in dirty'[r]} \cup {e[2] : e \in {e \in edited' : e[1] = r}}
  <2>1. CASE \E e \in edited : e[1] = r /\ e[2] = name
    BY <1>1, <2>1
  <2>2. CASE \E d \in dirty[r] : d.file = name
    <3>1. PICK d \in dirty[r] : d.file = name
      BY <2>2
    <3>2. CASE d \in dirty'[r]
      BY <3>1, <3>2
    <3>3. CASE d \notin dirty'[r]
      <4>1. r = repo /\ name = c.file
        BY <1>6, <1>9, <3>1, <3>3
      <4>2. PICK e : e = <<repo, c.file>>
        OBVIOUS
      <4>3. e \in edited' /\ e[1] = r /\ e[2] = name
        BY <1>1, <4>1, <4>2
      <4> QED  BY <4>3
    <3> QED  BY <3>2, <3>3
  <2> QED  BY <1>11, <2>1, <2>2 DEF ChangedIn
<1>12. \A r \in Repositories : ChangedIn(r) \subseteq ChangedIn(r)'
  BY <1>11 DEF ChangedIn
<1>13. ASSUME NEW r \in Repositories, NEW d \in dirty'[r], <<r, d.file>> \notin edited'
       PROVE  d \in dirty[r] /\ <<r, d.file>> \notin edited
  <2>1. <<r, d.file>> \notin edited /\ <<r, d.file>> # <<repo, c.file>>
    BY <1>1, <1>13
  <2>2. CASE r # repo
    BY <1>6, <1>13, <2>1, <2>2
  <2>3. CASE r = repo
    BY <1>6, <1>10, <1>13, <2>1, <2>3
  <2> QED  BY <2>2, <2>3
<1> QED  BY <1>2, <1>8, <1>12, <1>13

\* What was gathered stays so whatever is edited.
LEMMA EditKeeps ==
    ASSUME GitInv, NEW repo \in Repositories, NEW c \in Changes, EditTree(repo, c)
    PROVE  GitInv'
<1>1. GitTypes /\ collect' = collect /\ collect.pc \in {"status", "diff"}
  BY DEF GitInv, EditTree
<1>2. /\ GitTypes' /\ Expected' = Expected
      /\ \A r \in Repositories : ChangedIn(r) \subseteq ChangedIn(r)'
      /\ \A r \in Repositories : \A d \in dirty'[r] :
            <<r, d.file>> \notin edited' => d \in dirty[r] /\ <<r, d.file>> \notin edited
  BY <1>1, EditIs
<1>3. Expected \subseteq Repositories
  BY <1>1, ExpectedAre DEF GitTypes
<1>4. PICK todo, files, diff :
         /\ todo = collect.todo /\ files = collect.files /\ diff = collect.diff
         /\ Gathered(todo, files, diff)
  BY <1>1 DEF GitInv
<1>5. ASSUME NEW r \in Repositories, NEW names, NamedIn(r, names)
      PROVE  \A d \in dirty'[r] : <<r, d.file>> \notin edited' => Prefix(r) \o d.file \in names
  BY <1>2, <1>5 DEF NamedIn
<1>6. ASSUME NEW r \in Repositories, PatchedIn(r, diff)
      PROVE  \A d \in dirty'[r] : <<r, d.file>> \notin edited' =>
                StandsWhole(PatchOf(r, d), Prefix(r) \o d.file, diff)
  BY <1>2, <1>6 DEF PatchedIn
<1>7. ASSUME NEW path \in files
      PROVE  \E r \in Expected : \E name \in ChangedIn(r)' : path = Prefix(r) \o name
  <2>1. \E r \in Expected : path \in {Prefix(r) \o name : name \in ChangedIn(r)}
    BY <1>4 DEF Gathered, FilesChanged
  <2> QED  BY <1>2, <1>3, <2>1
<1>8. Gathered(collect.todo, collect.files, collect.diff)'
  <2>1. todo \in Seq(Expected') /\ IsInjective(todo) /\ files \in SUBSET Seq(STRING)
        /\ diff \in Seq(CharType) /\ CharsOf(Expected' \ ToSet(todo), diff)
    BY <1>2, <1>4 DEF Gathered
  <2>2. FilesChanged(files)'
    BY <1>2, <1>7 DEF FilesChanged
  <2>3. \A r \in Expected \ ToSet(todo) : NamedIn(r, files)' /\ PatchedIn(r, diff)'
    BY <1>3, <1>4, <1>5, <1>6 DEF Gathered, NamedIn, PatchedIn
  <2>4. Gathered(todo, files, diff)'
    <3>1. \A r \in Expected' \ ToSet(todo) : NamedIn(r, files)' /\ PatchedIn(r, diff)'
      BY <1>2, <2>3
    <3>2. CharsOf(Expected \ ToSet(todo), diff)'
      BY <2>1 DEF CharsOf
    <3> QED  BY <2>1, <2>2, <3>1, <3>2 DEF Gathered
  <2>5. todo = collect'.todo /\ files = collect'.files /\ diff = collect'.diff
    BY <1>1, <1>4
  <2> QED  BY <2>4, <2>5 DEF Gathered, FilesChanged, NamedIn, PatchedIn, CharsOf
<1>9. ASSUME collect.pc = "diff"
      PROVE  collect.todo # << >> /\ NamedIn(Repo, collect.files)'
  <2>1. todo # << >> /\ NamedIn(todo[1], files)
    BY <1>4, <1>9 DEF GitInv, Repo
  <2>2. todo[1] \in Repositories
    BY <1>3, <1>4, <2>1 DEF Gathered
  <2>3. NamedIn(todo[1], files)'
    BY <1>5, <2>1, <2>2 DEF NamedIn
  <2> QED  BY <1>1, <1>4, <2>1, <2>3 DEF NamedIn, Repo
<1>10. collect = [pc |-> collect.pc, todo |-> collect.todo,
                   files |-> collect.files, diff |-> collect.diff]
  BY <1>1 DEF GitInv
<1> QED  BY <1>1, <1>2, <1>8, <1>9, <1>10 DEF GitInv, ResultIsWhole

LEMMA GitInvariance == GitSpec => []GitInv
<1>1. GitInit => GitInv
  BY GitBegins
<1>2. GitInv /\ [GitNext]_gitVars => GitInv'
  <2> SUFFICES ASSUME GitInv, [GitNext]_gitVars PROVE GitInv'
    OBVIOUS
  <2>1. CASE \E repo \in Repositories, c \in Changes : EditTree(repo, c)
    BY <2>1, EditKeeps
  <2>2. CASE UNCHANGED gitVars
    <3>1. /\ tree' = tree /\ refused' = refused /\ dirty' = dirty /\ edited' = edited /\ collect' = collect
      BY <2>2 DEF gitVars
    <3>2. GitTypes' /\ Expected' = Expected
      BY <3>1, TypesStay, ExpectedStays DEF GitInv
    <3>3. ResultIsWhole'
      BY <3>1, <3>2 DEF GitInv, ResultIsWhole
    <3> QED  BY <3>1, <3>2, <3>3
             DEF GitInv, Gathered, FilesChanged, ChangedIn, NamedIn, PatchedIn, Repo
  <2> QED  BY <2>1, <2>2, DiscoverKeeps, StatusKeeps, DiffKeeps, FinishKeeps, GitFailsKeeps
           DEF GitNext
<1> QED  BY <1>1, <1>2, PTL DEF GitSpec

\* The result of a turn is whole (CollectGit, git.go): whatever is edited meanwhile, and
\* whether or not Git tells of the repository around the working directory, it names
\* every change that was there all the time in the repositories it is of, by its path,
\* and nothing else; an uncut diff has every such patch in one piece, apart from
\* everything else, with its invalid bytes replaced; and a diff is longer than the limit
\* only by what the replacements take.
THEOREM ResultsAreWhole == GitSpec => []ResultIsWhole
<1>1. GitInv => ResultIsWhole
  BY DEF GitInv
<1> QED  BY <1>1, GitInvariance, PTL
=============================================================================
