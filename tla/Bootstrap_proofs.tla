-------------------------- MODULE Bootstrap_proofs --------------------------
(***************************************************************************)
(* What the server of a bootstrap has is a prefix, whatever it does about  *)
(* conflicting batches, and a server that refuses them reconciles against  *)
(* exactly one manifest: for any goroutines, commands and manifests, and   *)
(* any losses, failures, late answers and restarts.                        *)
(*                                                                         *)
(* A batch is sent only when the server has all before it, and nothing is  *)
(* taken from the server; so each place that holds a number, whether row,  *)
(* goroutine, message or channel, vouches for the numbers below it.  A     *)
(* goroutine without a watermark vouches for more: what is stored below    *)
(* its number is its own manifest.                                         *)
(***************************************************************************)
EXTENDS Bootstrap, TLAPS

-----------------------------------------------------------------------------
(* The invariant *)

Batches == UNION {{Batch(m, n, last) : n \in 0..Len(m), last \in {-1, 0}} : m \in Manifests}
Watermarks == Nat \cup {-1}

TaskStates ==
    [pc : {"free"}]
    \cup [pc : {"prepared", "load"}, last : Watermarks]
    \cup [pc : {"send", "wait"}, last : Watermarks, next : Nat, manifest : Manifests]

Sending(g) == Pc(g) \in {"send", "wait"}

Types ==
    /\ row \in [command : Commands \cup {"none"}, last : Watermarks,
                status : {"none", "running", "completed"}]
    /\ row.last = -1 \/ \E manifest \in Manifests : row.last \in 0..Len(manifest)
    /\ task \in [Goroutines -> TaskStates]
    /\ waiter \in Goroutines \cup {NoGoroutine}
    /\ inbox \in [Goroutines -> Seq(Batches)]
    /\ batches \in Seq(Batches) /\ acks \in Seq(Batches)

Registered ==
    \A g \in Goroutines :
        /\ Pc(g) \in {"load", "send", "wait"} <=> waiter = g
        /\ Sending(g) => task[g].next <= Len(task[g].manifest)
        /\ Len(inbox[g]) <= 1

\* The server has every number below n.
HasBelow(n) == 0..n - 1 \subseteq DOMAIN stored

StoredInPlace ==
    \A n \in DOMAIN stored : n \in Nat /\ stored[n] \in Batches /\ stored[n].no = n

Vouched ==
    /\ HasBelow(row.last + 1)
    /\ \A n \in DOMAIN stored : HasBelow(n + 1)
    /\ \A g \in Goroutines :
          /\ Pc(g) # "free" => HasBelow(task[g].last + 1)
          /\ Sending(g) => HasBelow(task[g].next)
          /\ \A k \in DOMAIN inbox[g] : inbox[g][k].no \in DOMAIN stored
    /\ \A k \in DOMAIN batches : HasBelow(batches[k].no)
    /\ \A k \in DOMAIN acks : acks[k].no \in DOMAIN stored

OneReconciliation == reconciled = << >> \/ Len(reconciled) = 1

PrefixInv == Types /\ Registered /\ StoredInPlace /\ Vouched

\* The server has the batches of a manifest below n.
HasOf(m, n) == \A k \in 0..n - 1 : k \in DOMAIN stored /\ stored[k] = Batch(m, k, -1)

OwnManifest ==
    /\ \A g \in Goroutines :
          /\ Sending(g) /\ task[g].last = -1 => HasOf(task[g].manifest, task[g].next)
          /\ \A k \in DOMAIN inbox[g] : stored[inbox[g][k].no] = inbox[g][k]
    /\ \A k \in DOMAIN acks : stored[acks[k].no] = acks[k]
    /\ \A k \in DOMAIN batches :
          batches[k].safe =>
              \E m \in Manifests : batches[k] = Batch(m, Len(m), -1) /\ HasOf(m, Len(m))
    /\ reconciled = << >> => \A n \in DOMAIN stored : ~stored[n].safe

ManifestInv == OneReconciliation /\ OwnManifest /\ ReconciledFromOneManifest

-----------------------------------------------------------------------------
(* Batches *)

LEMMA BatchIsTyped ==
  ASSUME NEW m \in Manifests, NEW n \in 0..Len(m), NEW last \in Watermarks
  PROVE  /\ Batch(m, n, last) \in Batches
         /\ Batch(m, n, last).no = n
         /\ Batch(m, n, last).done <=> n = Len(m)
         /\ Batch(m, n, last).safe <=> n = Len(m) /\ last = -1
         /\ n < Len(m) \/ last = -1 => Batch(m, n, last) = Batch(m, n, -1)
<1>1. Len(m) \in Nat
  BY ManifestsAssumption
<1>2. Batch(m, n, last) = Batch(m, n, IF last = -1 THEN -1 ELSE 0)
  BY <1>1 DEF Batch, ReconciliationSafe, Watermarks
<1>3. Batch(m, n, last) \in Batches
  BY <1>2 DEF Batches
<1>4. n < Len(m) => Batch(m, n, last) = Batch(m, n, -1)
  BY <1>1 DEF Batch
<1>5. /\ Batch(m, n, last).no = n
      /\ Batch(m, n, last).done = (n = Len(m))
      /\ Batch(m, n, last).safe = (n = Len(m) /\ last < 0)
  BY Zenon DEF Batch, ReconciliationSafe
<1>6. last < 0 <=> last = -1
  BY DEF Watermarks
<1> QED  BY <1>1, <1>3, <1>4, <1>5, <1>6

LEMMA BatchesAreTyped ==
  ASSUME NEW x \in Batches
  PROVE  x.no \in Nat /\ x.done \in BOOLEAN /\ x.safe \in BOOLEAN
         /\ \E m \in Manifests : x.no \in 0..Len(m)
<1>1. PICK m \in Manifests :
          \E n \in 0..Len(m), last \in {-1, 0} : x = Batch(m, n, last)
  BY DEF Batches
<1>2. Len(m) \in Nat
  BY ManifestsAssumption
<1> QED  BY <1>1, <1>2 DEF Batch, ReconciliationSafe

\* The batch that a goroutine sends or waits for.
LEMMA CurrentIsTyped ==
  ASSUME Types, Registered, NEW g \in Goroutines, Sending(g)
  PROVE  /\ task[g] \in [pc : {"send", "wait"}, last : Watermarks, next : Nat,
                         manifest : Manifests]
         /\ task[g].next \in 0..Len(task[g].manifest) /\ Len(task[g].manifest) \in Nat
         /\ Current(g) \in Batches /\ Current(g).no = task[g].next
         /\ Current(g).done <=> task[g].next = Len(task[g].manifest)
         /\ Current(g).safe <=> Current(g).done /\ task[g].last = -1
         /\ ~Current(g).done \/ task[g].last = -1 =>
               Current(g) = Batch(task[g].manifest, task[g].next, -1)
<1>1. /\ task[g] \in [pc : {"send", "wait"}, last : Watermarks, next : Nat,
                     manifest : Manifests]
      /\ task[g].next <= Len(task[g].manifest)
  BY DEF Types, Registered, TaskStates, Sending, Pc
<1>2. Len(task[g].manifest) \in Nat
  BY <1>1, ManifestsAssumption
<1>3. task[g].next \in 0..Len(task[g].manifest)
  BY <1>1, <1>2
<1> QED  BY <1>1, <1>2, <1>3, BatchIsTyped DEF Current

-----------------------------------------------------------------------------
(* The prefix *)

LEMMA InitPrefix == Init => PrefixInv
<1> SUFFICES ASSUME Init PROVE PrefixInv
  OBVIOUS
<1>1. Types
  BY DEF Init, Types, NoRow, Free, Watermarks, TaskStates
<1>2. Registered
  <2>1. ASSUME NEW g \in Goroutines
        PROVE  Pc(g) = "free" /\ Len(inbox[g]) <= 1 /\ waiter # g
    BY NoGoroutineAssumption DEF Init, Free, Pc
  <2>2. \A g \in Goroutines : Len(inbox[g]) <= 1
    BY <2>1
  <2>3. \A g \in Goroutines : Pc(g) \in {"load", "send", "wait"} <=> waiter = g
    BY <2>1
  <2>4. \A g \in Goroutines : ~Sending(g)
    BY <2>1 DEF Sending
  <2> QED  BY <2>2, <2>3, <2>4 DEF Registered
<1>3. StoredInPlace
  BY DEF Init, StoredInPlace
<1>4. Vouched
  BY DEF Init, Vouched, NoRow, Free, Pc, Sending, HasBelow
<1> QED  BY <1>1, <1>2, <1>3, <1>4 DEF PrefixInv

\* The row is typed, and its watermark claims what the server has.
RowStays ==
    /\ row' \in [command : Commands \cup {"none"}, last : Watermarks,
               status : {"none", "running", "completed"}]
    /\ row'.last = -1 \/ \E manifest \in Manifests : row'.last \in 0..Len(manifest)
    /\ HasBelow(row'.last + 1)

\* A goroutine moves to a state of which the server has what it vouches for.
LEMMA MoveKeepsPrefix ==
  ASSUME PrefixInv, NEW g \in Goroutines, NEW state \in TaskStates, Goto(g, state),
         UNCHANGED <<stored, acks>>,
         batches' \in {batches, Append(batches, Current(g))},
         batches' # batches => Pc(g) = "send",
         RowStays,
         \/ inbox' = inbox
         \/ inbox' = [inbox EXCEPT ![g] = << >>],
         waiter' \in {waiter, g, NoGoroutine},
         waiter' = g <=> state.pc \in {"load", "send", "wait"},
         waiter' # waiter => waiter \in {g, NoGoroutine},
         state.pc # "free" => HasBelow(state.last + 1),
         state.pc \in {"send", "wait"} =>
             HasBelow(state.next) /\ state.next <= Len(state.manifest)
  PROVE  PrefixInv'
<1>1. /\ task' \in [Goroutines -> TaskStates]
      /\ task'[g] = state /\ \A h \in Goroutines \ {g} : task'[h] = task[h]
  BY DEF PrefixInv, Types, Goto
<1>2. /\ inbox' \in [Goroutines -> Seq(Batches)]
      /\ \A h \in Goroutines : inbox'[h] \in {inbox[h], << >>}
  <2>1. << >> \in Seq(Batches) /\ inbox \in [Goroutines -> Seq(Batches)]
    BY DEF PrefixInv, Types
  <2>2. CASE inbox' = inbox
    BY <2>1, <2>2
  <2>3. CASE inbox' = [inbox EXCEPT ![g] = << >>]
    BY <2>1, <2>3
  <2> QED  BY <2>2, <2>3
<1>3. /\ batches' \in Seq(Batches)
      /\ \A k \in DOMAIN batches' : HasBelow(batches'[k].no)
  <2>1. CASE batches' = batches
    BY <2>1 DEF PrefixInv, Types, Vouched
  <2>2. CASE batches' # batches
    <3>1. Pc(g) = "send" /\ batches' = Append(batches, Current(g))
      BY <2>2
    <3>2. Current(g) \in Batches /\ Current(g).no = task[g].next /\ HasBelow(task[g].next)
      BY <3>1, CurrentIsTyped DEF PrefixInv, Sending, Vouched
    <3> QED  BY <3>1, <3>2 DEF PrefixInv, Types, Vouched
  <2> QED  BY <2>1, <2>2
<1>4. Types'
  BY <1>1, <1>2, <1>3 DEF PrefixInv, Types, RowStays
<1>5. Registered'
  <2>1. Pc(g)' = state.pc /\ \A h \in Goroutines \ {g} : Pc(h)' = Pc(h)
    BY <1>1 DEF Pc
  <2>2. ASSUME NEW h \in Goroutines
        PROVE  Pc(h)' \in {"load", "send", "wait"} <=> waiter' = h
    BY <2>1, NoGoroutineAssumption DEF PrefixInv, Types, Registered
  <2>3. ASSUME NEW h \in Goroutines
        PROVE  Sending(h)' => task'[h].next <= Len(task'[h].manifest)
    BY <1>1, <2>1 DEF PrefixInv, Registered, Sending
  <2>4. ASSUME NEW h \in Goroutines
        PROVE  Len(inbox'[h]) <= 1
    BY <1>2 DEF PrefixInv, Registered
  <2> QED  BY <2>2, <2>3, <2>4 DEF Registered
<1>6. StoredInPlace'
  BY DEF PrefixInv, StoredInPlace
<1>7. Vouched'
  <2>1. \A n : HasBelow(n)' <=> HasBelow(n)
    BY DEF HasBelow
  <2>2. ASSUME NEW h \in Goroutines
        PROVE  /\ Pc(h)' # "free" => HasBelow(task'[h].last + 1)
               /\ Sending(h)' => HasBelow(task'[h].next)
               /\ \A k \in DOMAIN inbox'[h] : inbox'[h][k].no \in DOMAIN stored
    <3>1. CASE h = g
      BY <1>1, <1>2, <3>1 DEF PrefixInv, Vouched, Pc, Sending
    <3>2. CASE h # g
      <4>1. /\ Pc(h)' = Pc(h) /\ task'[h] = task[h]
            /\ \A k \in DOMAIN inbox'[h] : inbox'[h][k].no \in DOMAIN stored
        BY <1>1, <1>2, <3>2 DEF PrefixInv, Vouched, Pc
      <4> QED  BY <4>1 DEF PrefixInv, Vouched, Sending
    <3> QED  BY <3>1, <3>2
  <2> HIDE DEF HasBelow
  <2> QED  BY <1>3, <2>1, <2>2 DEF PrefixInv, Vouched, RowStays
<1> QED  BY <1>4, <1>5, <1>6, <1>7 DEF PrefixInv

LEMMA EndsKeepsPrefix ==
  ASSUME PrefixInv, NEW g \in Goroutines, Ends(g), RowStays, waiter = g,
         UNCHANGED <<stored, acks, batches>>,
         inbox' = inbox \/ inbox' = [inbox EXCEPT ![g] = << >>]
  PROVE  PrefixInv'
<1>1. Free \in TaskStates /\ Goto(g, Free) /\ waiter' = NoGoroutine
  BY DEF TaskStates, Free, Ends
<1>2. NoGoroutine # g
  BY NoGoroutineAssumption
<1> QED  BY <1>1, <1>2, MoveKeepsPrefix DEF Free

LEMMA StartKeepsPrefix ==
  ASSUME PrefixInv, NEW g \in Goroutines, NEW command \in Commands,
         PrepareBootstrap(g, command)
  PROVE  PrefixInv'
<1>1. /\ row' \in [command : Commands \cup {"none"}, last : Watermarks,
                 status : {"none", "running", "completed"}]
      /\ row'.last = row.last
  BY DEF PrepareBootstrap, PrefixInv, Types, NoRow
<1>2. PICK state \in TaskStates :
        /\ Goto(g, state)
        /\ state.pc \in {"free", "prepared"}
        /\ state.pc # "free" => state.last = row'.last
  <2>1. row'.last \in Watermarks
    BY <1>1
  <2>2. [pc |-> "prepared", last |-> row'.last] \in TaskStates /\ Free \in TaskStates
    BY <2>1 DEF TaskStates, Free
  <2> QED  BY <2>2 DEF PrepareBootstrap, Free
<1>3. waiter # g
  BY DEF PrepareBootstrap, PrefixInv, Registered
<1>4. RowStays
  BY <1>1 DEF PrefixInv, Types, Vouched, RowStays
<1>5. state.pc # "free" => HasBelow(state.last + 1)
  BY <1>2, <1>4 DEF RowStays
<1> QED
  BY <1>2, <1>3, <1>4, <1>5, MoveKeepsPrefix DEF PrepareBootstrap, serverVars

LEMMA RegisterKeepsPrefix ==
  ASSUME PrefixInv, NEW g \in Goroutines, Register(g)
  PROVE  PrefixInv'
<1>1. task[g] \in [pc : {"prepared"}, last : Watermarks] /\ waiter # g
      /\ HasBelow(task[g].last + 1)
  BY DEF Register, PrefixInv, Types, TaskStates, Registered, Vouched, Pc
<1>2. [pc |-> "load", last |-> task[g].last] \in TaskStates /\ Free \in TaskStates
  BY <1>1 DEF TaskStates, Free
<1>3. RowStays
  BY DEF Register, PrefixInv, RowStays, Types, Vouched
<1>4. CASE waiter = NoGoroutine
  BY <1>1, <1>2, <1>3, <1>4, NoGoroutineAssumption, MoveKeepsPrefix
     DEF Register, serverVars
<1>5. CASE waiter # NoGoroutine
  BY <1>1, <1>2, <1>3, <1>5, NoGoroutineAssumption, MoveKeepsPrefix
     DEF Register, Free, serverVars
<1> QED  BY <1>4, <1>5

LEMMA LoadKeepsPrefix ==
  ASSUME PrefixInv, NEW g \in Goroutines, Load(g)
  PROVE  PrefixInv'
<1>1. task[g] \in [pc : {"load"}, last : Watermarks] /\ waiter = g
      /\ HasBelow(task[g].last + 1)
  BY DEF Load, PrefixInv, Types, TaskStates, Registered, Vouched, Pc
<1>2. RowStays
  BY DEF Load, PrefixInv, RowStays, Types, Vouched
<1>3. ASSUME NEW manifest \in Manifests,
             Goto(g, [pc |-> "send", last |-> task[g].last, next |-> 0,
                      manifest |-> manifest]),
             UNCHANGED waiter
      PROVE  PrefixInv'
  <2>1. [pc |-> "send", last |-> task[g].last, next |-> 0, manifest |-> manifest]
          \in TaskStates
    BY <1>1 DEF TaskStates
  <2>2. HasBelow(0) /\ 0 <= Len(manifest)
    BY ManifestsAssumption DEF HasBelow
  <2> QED  BY <1>1, <1>2, <1>3, <2>1, <2>2, MoveKeepsPrefix DEF Load, serverVars
<1>4. CASE Ends(g)
  BY <1>1, <1>2, <1>4, EndsKeepsPrefix DEF Load, serverVars
<1> QED  BY <1>3, <1>4 DEF Load

LEMMA NextBatchKeepsPrefix ==
  ASSUME PrefixInv, NEW g \in Goroutines, Sending(g), NextBatch(g), RowStays,
         task[g].next \in DOMAIN stored,
         UNCHANGED <<stored, acks, batches>>,
         inbox' = inbox \/ inbox' = [inbox EXCEPT ![g] = << >>]
  PROVE  PrefixInv'
<1>1. waiter = g
  BY DEF PrefixInv, Registered, Sending
<1>2. CASE Current(g).done
  BY <1>1, <1>2, EndsKeepsPrefix DEF NextBatch
<1>3. CASE ~Current(g).done
  <2> DEFINE state == [task[g] EXCEPT !.pc = "send", !.next = @ + 1]
  <2>1. /\ UNCHANGED waiter
        /\ task[g].next \in 0..Len(task[g].manifest) /\ Len(task[g].manifest) \in Nat
        /\ task[g].next # Len(task[g].manifest)
        /\ task[g] \in [pc : {"send", "wait"}, last : Watermarks, next : Nat,
                       manifest : Manifests]
    BY <1>3, CurrentIsTyped DEF NextBatch, PrefixInv
  <2>2. /\ state \in TaskStates /\ state.pc = "send" /\ state.next = task[g].next + 1
        /\ state.last = task[g].last /\ state.manifest = task[g].manifest
    <3>1. ASSUME NEW r \in [pc : {"send", "wait"}, last : Watermarks, next : Nat,
                           manifest : Manifests], NEW n \in Nat,
                 NEW s, s = [r EXCEPT !.pc = "send", !.next = n]
          PROVE  /\ s \in [pc : {"send", "wait"}, last : Watermarks, next : Nat,
                          manifest : Manifests]
                 /\ s.pc = "send" /\ s.next = n /\ s.last = r.last
                 /\ s.manifest = r.manifest
      BY <3>1
    <3>2. task[g].next + 1 \in Nat
      BY <2>1
    <3> QED  BY <2>1, <3>1, <3>2 DEF TaskStates
  <2>5. Goto(g, state)
    BY <1>3 DEF NextBatch
  <2>3. HasBelow(state.next)
    BY <2>1, <2>2 DEF PrefixInv, Vouched, HasBelow
  <2>4. HasBelow(state.last + 1)
    BY <2>2 DEF PrefixInv, Vouched, Sending
  <2> HIDE DEF state
  <2> QED  BY <1>1, <2>1, <2>2, <2>3, <2>4, <2>5, MoveKeepsPrefix
<1> QED  BY <1>2, <1>3

LEMMA SkipKeepsPrefix ==
  ASSUME PrefixInv, NEW g \in Goroutines, Skip(g)
  PROVE  PrefixInv'
<1>1. Sending(g) /\ Pc(g) # "free"
  BY DEF Skip, Sending
<1>2. /\ task[g].next \in Nat /\ task[g].last \in Watermarks
      /\ task[g].next <= task[g].last
  BY <1>1, CurrentIsTyped DEF PrefixInv, Skip, Skips
<1>3. task[g].next \in DOMAIN stored
  BY <1>1, <1>2 DEF PrefixInv, Vouched, HasBelow, Watermarks
<1>4. RowStays
  BY DEF Skip, PrefixInv, RowStays, Types, Vouched
<1> QED  BY <1>1, <1>3, <1>4, NextBatchKeepsPrefix DEF Skip, serverVars

LEMMA SendKeepsPrefix ==
  ASSUME PrefixInv, NEW g \in Goroutines, Send(g)
  PROVE  PrefixInv'
<1>1. Sending(g) /\ Pc(g) = "send" /\ waiter = g
  BY DEF Send, Sending, PrefixInv, Registered
<1>2. RowStays
  BY DEF Send, PrefixInv, RowStays, Types, Vouched
<1>3. ASSUME batches' = Append(batches, Current(g)), UNCHANGED waiter,
             Goto(g, [task[g] EXCEPT !.pc = "wait"])
      PROVE  PrefixInv'
  <2> DEFINE state == [task[g] EXCEPT !.pc = "wait"]
  <2>1. /\ state \in TaskStates /\ state.pc = "wait" /\ state.next = task[g].next
        /\ state.last = task[g].last /\ state.manifest = task[g].manifest
        /\ task[g].next <= Len(task[g].manifest)
    BY <1>1, CurrentIsTyped DEF TaskStates, PrefixInv
  <2>2. HasBelow(state.next) /\ HasBelow(state.last + 1)
    BY <1>1, <2>1 DEF PrefixInv, Vouched
  <2>3. Goto(g, state)
    BY <1>3
  <2> HIDE DEF state
  <2> QED  BY <1>1, <1>2, <1>3, <2>1, <2>2, <2>3, MoveKeepsPrefix DEF Send, serverVars
<1>4. CASE Ends(g) /\ UNCHANGED batches
  BY <1>1, <1>2, <1>4, EndsKeepsPrefix DEF Send, serverVars
<1> QED  BY <1>3, <1>4 DEF Send

LEMMA ReceiveKeepsPrefix ==
  ASSUME PrefixInv, NEW g \in Goroutines, Receive(g)
  PROVE  PrefixInv'
<1>1. Sending(g) /\ inbox[g] # << >> /\ inbox' = [inbox EXCEPT ![g] = << >>]
      /\ UNCHANGED <<stored, acks, batches>>
  BY DEF Receive, Sending, serverVars
<1>2. CASE IsMyAck(g, inbox[g][1])
  <2>1. inbox[g][1].no \in DOMAIN stored
    BY <1>1 DEF PrefixInv, Types, Vouched
  <2>2. Current(g).no = task[g].next /\ task[g].next \in DOMAIN stored
        /\ task[g].next \in 0..Len(task[g].manifest) /\ task[g].manifest \in Manifests
    BY <1>1, <1>2, <2>1, CurrentIsTyped DEF IsMyAck, PrefixInv
  <2>3. HasBelow(task[g].next + 1)
    BY <2>2 DEF PrefixInv, Vouched
  <2>4. RowStays
    <3>1. CASE UNCHANGED row
      BY <3>1 DEF PrefixInv, RowStays, Types, Vouched
    <3>2. CASE AckBootstrap(Current(g)) /\ row' # row
      <4>1. row' = [row EXCEPT !.last = task[g].next,
                       !.status = IF Current(g).done THEN "completed" ELSE "running"]
        BY <2>2, <3>2 DEF AckBootstrap
      <4>2. /\ row' \in [command : Commands \cup {"none"}, last : Watermarks,
                        status : {"none", "running", "completed"}]
            /\ row'.last = task[g].next
        <5>1. PICK status \in {"running", "completed"} :
                row' = [row EXCEPT !.last = task[g].next, !.status = status]
          BY <4>1
        <5>2. row' = [command |-> row.command, last |-> task[g].next, status |-> status]
          BY <5>1 DEF PrefixInv, Types
        <5>3. row.command \in Commands \cup {"none"} /\ task[g].next \in Watermarks
          BY <2>2 DEF PrefixInv, Types, Watermarks
        <5> QED  BY <5>2, <5>3
      <4> QED  BY <2>2, <2>3, <4>2 DEF RowStays
    <3> QED  BY <1>2, <3>1, <3>2 DEF Receive
  <2> QED  BY <1>1, <1>2, <2>2, <2>4, NextBatchKeepsPrefix DEF Receive
<1>3. CASE ~IsMyAck(g, inbox[g][1])
  <2>1. UNCHANGED <<row, task, waiter>>
    BY <1>3 DEF Receive
  <2>2. Goto(g, task[g]) /\ task[g] \in TaskStates
    BY <2>1 DEF PrefixInv, Types, Goto
  <2>3. RowStays
    BY <2>1 DEF PrefixInv, RowStays, Types, Vouched
  <2>4. /\ waiter' = g <=> task[g].pc \in {"load", "send", "wait"}
        /\ task[g].pc # "free" => HasBelow(task[g].last + 1)
        /\ task[g].pc \in {"send", "wait"} =>
              HasBelow(task[g].next) /\ task[g].next <= Len(task[g].manifest)
    BY <2>1 DEF PrefixInv, Registered, Vouched, Pc, Sending
  <2> QED  BY <1>1, <2>1, <2>2, <2>3, <2>4, MoveKeepsPrefix
<1> QED  BY <1>2, <1>3

LEMMA TimeoutKeepsPrefix ==
  ASSUME PrefixInv, NEW g \in Goroutines, Timeout(g)
  PROVE  PrefixInv'
<1>1. waiter = g
  BY DEF Timeout, PrefixInv, Registered
<1>2. RowStays
  BY DEF Timeout, PrefixInv, RowStays, Types, Vouched
<1> QED  BY <1>1, <1>2, EndsKeepsPrefix DEF Timeout, serverVars

\* The first message of a queue, and those behind it.
LEMMA QueueHead ==
  ASSUME NEW S, NEW queue \in Seq(S), queue # << >>
  PROVE  /\ 1 \in DOMAIN queue /\ Head(queue) = queue[1] /\ Head(queue) \in S
         /\ Tail(queue) \in Seq(S)
         /\ \A k \in DOMAIN Tail(queue) :
               k + 1 \in DOMAIN queue /\ Tail(queue)[k] = queue[k + 1]
OBVIOUS

LEMMA HandleAckKeepsPrefix ==
  ASSUME PrefixInv, HandleAck
  PROVE  PrefixInv'
<1>1. /\ acks \in Seq(Batches) /\ acks # << >> /\ acks' = Tail(acks)
      /\ UNCHANGED <<row, task, waiter, batches, stored>>
  BY DEF HandleAck, PrefixInv, Types, serverVars
<1>2. /\ Head(acks) \in Batches /\ Head(acks).no \in DOMAIN stored
      /\ acks' \in Seq(Batches)
      /\ \A k \in DOMAIN acks' : acks'[k].no \in DOMAIN stored
  BY <1>1, QueueHead DEF PrefixInv, Vouched
<1>3. /\ inbox' \in [Goroutines -> Seq(Batches)]
      /\ \A g \in Goroutines : inbox'[g] = inbox[g] \/ inbox'[g] = <<Head(acks)>>
  BY <1>2 DEF HandleAck, PrefixInv, Types
<1>4. \A g \in Goroutines :
          /\ Len(inbox'[g]) <= 1
          /\ \A k \in DOMAIN inbox'[g] : inbox'[g][k].no \in DOMAIN stored
  <2>1. ASSUME NEW g \in Goroutines, inbox'[g] = inbox[g]
        PROVE  /\ Len(inbox'[g]) <= 1
               /\ \A k \in DOMAIN inbox'[g] : inbox'[g][k].no \in DOMAIN stored
    BY <2>1 DEF PrefixInv, Registered, Vouched
  <2>2. ASSUME NEW g \in Goroutines, inbox'[g] = <<Head(acks)>>
        PROVE  /\ Len(inbox'[g]) <= 1
               /\ \A k \in DOMAIN inbox'[g] : inbox'[g][k].no \in DOMAIN stored
    BY <1>2, <2>2
  <2> QED  BY <1>3, <2>1, <2>2
<1>5. Types' /\ StoredInPlace'
  BY <1>1, <1>2, <1>3 DEF PrefixInv, Types, StoredInPlace
<1>6. Registered'
  BY <1>1, <1>4 DEF PrefixInv, Registered, Pc, Sending
<1>7. Vouched'
  BY <1>1, <1>2, <1>4 DEF PrefixInv, Vouched, Pc, Sending, HasBelow
<1> QED  BY <1>5, <1>6, <1>7 DEF PrefixInv

\* What the server does with the first batch it is sent.
LEMMA ServerTakes ==
  ASSUME PrefixInv, ServerStores
  PROVE  LET batch == Head(batches) IN
         /\ batches \in Seq(Batches) /\ batches # << >> /\ batches' = Tail(batches)
         /\ batch \in Batches /\ HasBelow(batch.no)
         /\ UNCHANGED <<row, task, waiter, inbox>>
         /\ \/ UNCHANGED <<stored, acks, reconciled>>
            \/ /\ acks' = Append(acks, batch)
               /\ stored' = [n \in DOMAIN stored \cup {batch.no} |->
                                IF n = batch.no THEN batch ELSE stored[n]]
               /\ DOMAIN stored' = DOMAIN stored \cup {batch.no}
               /\ stored'[batch.no] = batch
               /\ \A n \in DOMAIN stored : n # batch.no => stored'[n] = stored[n]
               /\ reconciled' = IF batch.safe /\ reconciled = << >>
                                  THEN <<stored'>> ELSE reconciled
               /\ batch.no \in DOMAIN stored /\ stored[batch.no] # batch
                     => "replace" \in OnConflict
<1>1. /\ batches \in Seq(Batches) /\ batches # << >> /\ batches' = Tail(batches)
      /\ UNCHANGED <<row, task, waiter, inbox>>
  BY DEF ServerStores, PrefixInv, Types
<1>2. Head(batches) \in Batches /\ HasBelow(Head(batches).no)
  BY <1>1, QueueHead DEF PrefixInv, Vouched
<1> QED  BY <1>1, <1>2 DEF ServerStores

LEMMA ServerKeepsPrefix ==
  ASSUME PrefixInv, ServerStores
  PROVE  PrefixInv'
<1>0. PICK batch : batch = Head(batches)
  OBVIOUS
<1>1. /\ batches \in Seq(Batches) /\ batches # << >> /\ batches' = Tail(batches)
      /\ batch \in Batches /\ HasBelow(batch.no) /\ batch.no \in Nat
      /\ UNCHANGED <<row, task, waiter, inbox>>
  BY <1>0, ServerTakes, BatchesAreTyped
<1>2. DOMAIN stored \subseteq DOMAIN stored'
  BY <1>0, ServerTakes
<1>3. StoredInPlace'
  BY <1>1, <1>0, ServerTakes DEF PrefixInv, StoredInPlace
<1>4. /\ acks' \in Seq(Batches)
      /\ \A k \in DOMAIN acks' : acks'[k].no \in DOMAIN stored'
  <2>1. CASE UNCHANGED <<stored, acks>>
    BY <2>1 DEF PrefixInv, Types, Vouched
  <2>2. CASE acks' = Append(acks, batch) /\ batch.no \in DOMAIN stored'
    <3>1. acks \in Seq(Batches) /\ \A k \in DOMAIN acks : acks[k].no \in DOMAIN stored'
      BY <1>2 DEF PrefixInv, Types, Vouched
    <3> QED  BY <1>1, <2>2, <3>1
  <2> QED  BY <2>1, <2>2, <1>0, ServerTakes
<1>5. /\ batches' \in Seq(Batches)
      /\ \A k \in DOMAIN batches' : HasBelow(batches'[k].no)
  BY <1>0, <1>1, QueueHead DEF PrefixInv, Vouched
<1>6. Types' /\ Registered'
  BY <1>1, <1>4, <1>5 DEF PrefixInv, Types, Registered, Pc, Sending
<1>7. \A n : HasBelow(n) => HasBelow(n)'
  BY <1>2 DEF HasBelow
<1>8. \A n \in DOMAIN stored' : HasBelow(n + 1)'
  <2>1. \A n \in DOMAIN stored : HasBelow(n + 1)'
    BY <1>7 DEF PrefixInv, Vouched
  <2>2. batch.no \in DOMAIN stored' => HasBelow(batch.no + 1)'
    BY <1>1, <1>7 DEF HasBelow
  <2> QED  BY <2>1, <2>2, <1>0, ServerTakes
<1>9. Vouched'
  <2>1. \A g \in Goroutines :
            /\ Pc(g)' # "free" => HasBelow(task[g].last + 1)'
            /\ Sending(g)' => HasBelow(task[g].next)'
            /\ \A k \in DOMAIN inbox'[g] : inbox'[g][k].no \in DOMAIN stored'
    <3>1. ASSUME NEW g \in Goroutines
          PROVE  /\ Pc(g)' = Pc(g) /\ task'[g] = task[g] /\ inbox'[g] = inbox[g]
                 /\ Sending(g)' <=> Sending(g)
      BY <1>1 DEF Pc, Sending
    <3>2. ASSUME NEW g \in Goroutines, Pc(g)' # "free"
          PROVE  HasBelow(task[g].last + 1)'
      <4>1. HasBelow(task[g].last + 1)
        BY <3>1, <3>2 DEF PrefixInv, Vouched
      <4> QED  BY <1>2, <3>1, <4>1 DEF HasBelow
    <3>3. ASSUME NEW g \in Goroutines, Sending(g)'
          PROVE  HasBelow(task[g].next)'
      <4>1. HasBelow(task[g].next)
        BY <3>1, <3>3 DEF PrefixInv, Vouched
      <4> QED  BY <1>2, <3>1, <4>1 DEF HasBelow
    <3>4. \A g \in Goroutines : \A k \in DOMAIN inbox'[g] : inbox'[g][k].no \in DOMAIN stored'
      BY <1>2, <3>1 DEF PrefixInv, Vouched
    <3> QED  BY <3>2, <3>3, <3>4
  <2>2. HasBelow(row.last + 1)' /\ \A k \in DOMAIN batches' : HasBelow(batches[k].no)'
    <3>1. HasBelow(row.last + 1)
      BY DEF PrefixInv, Vouched
    <3> QED  BY <1>1, <1>2, <1>5, <3>1 DEF HasBelow
  <2> QED  BY <1>4, <1>8, <2>1, <2>2 DEF Vouched
<1> QED  BY <1>3, <1>6, <1>9 DEF PrefixInv

LEMMA LossKeepsPrefix ==
  ASSUME PrefixInv, Lose \/ Crash
  PROVE  PrefixInv'
<1>1. /\ batches' = << >> /\ acks' = << >> /\ UNCHANGED <<row, stored>>
  BY DEF Lose, Crash, serverVars
<1>2. CASE Lose
  <2>1. UNCHANGED <<task, waiter, inbox>>
    BY <1>2 DEF Lose
  <2> QED  BY <1>1, <2>1 DEF PrefixInv, Types, Registered, StoredInPlace, Vouched, Pc,
                             Sending, HasBelow
<1>3. CASE Crash
  <2>1. /\ task' = [g \in Goroutines |-> Free] /\ waiter' = NoGoroutine
        /\ inbox' = [g \in Goroutines |-> << >>]
    BY <1>3 DEF Crash
  <2>2. Types'
    BY <1>1, <2>1 DEF PrefixInv, Types, TaskStates, Free
  <2>3. \A g \in Goroutines : Pc(g)' = "free" /\ inbox'[g] = << >> /\ waiter' # g
    BY <2>1, NoGoroutineAssumption DEF Pc, Free
  <2>4. Registered'
    <3>1. \A g \in Goroutines : ~Sending(g)' /\ Len(inbox'[g]) <= 1
      BY <2>3 DEF Sending
    <3> QED  BY <2>3, <3>1 DEF Registered
  <2>5. Vouched'
    BY <1>1, <2>3 DEF PrefixInv, Vouched, Sending, HasBelow
  <2> QED  BY <1>1, <2>2, <2>4, <2>5 DEF PrefixInv, StoredInPlace
<1> QED  BY <1>2, <1>3

LEMMA NextKeepsPrefix == PrefixInv /\ [Next]_vars => PrefixInv'
<1> SUFFICES ASSUME PrefixInv, [Next]_vars PROVE PrefixInv'
  OBVIOUS
<1>1. ASSUME NEW g \in Goroutines,
             Start(g) \/ Register(g) \/ Load(g) \/ Skip(g) \/ Send(g)
             \/ Receive(g) \/ Timeout(g)
      PROVE  PrefixInv'
  BY <1>1, StartKeepsPrefix, RegisterKeepsPrefix, LoadKeepsPrefix, SkipKeepsPrefix,
     SendKeepsPrefix, ReceiveKeepsPrefix, TimeoutKeepsPrefix DEF Start
<1>2. CASE UNCHANGED vars
  BY <1>2 DEF vars, serverVars, PrefixInv, Types, Registered, StoredInPlace, Vouched, Pc,
              Sending, HasBelow
<1> QED
  BY <1>1, <1>2, HandleAckKeepsPrefix, ServerKeepsPrefix, LossKeepsPrefix DEF Next

LEMMA PrefixInvariance == Spec => []PrefixInv
  BY InitPrefix, NextKeepsPrefix, PTL DEF Spec

\* The server has a prefix of what it was sent, and the watermark is behind it, also if
\* it replaces what it has.
THEOREM BootstrapServerHasPrefix == Spec => []ServerHasPrefix
<1>1. PrefixInv => ServerHasPrefix
  <2>1. PrefixInv => row.last \in Int /\ \A n \in DOMAIN stored : n \in Nat
    BY DEF PrefixInv, Types, Watermarks, StoredInPlace
  <2>2. ASSUME NEW n \in Int, HasBelow(n + 1)
        PROVE  0..n \subseteq DOMAIN stored
    BY <2>2 DEF HasBelow
  <2> QED  BY <2>1, <2>2 DEF PrefixInv, Vouched, ServerHasPrefix
<1> QED  BY <1>1, PrefixInvariance, PTL

\* Only the server stores and reconciles.
LEMMA OnlyServerStores ==
  ASSUME [Next]_vars
  PROVE  ServerStores \/ UNCHANGED <<stored, reconciled>>
<1>1. CASE UNCHANGED vars
  BY <1>1 DEF vars, serverVars
<1>2. ASSUME NEW g \in Goroutines,
             Start(g) \/ Register(g) \/ Load(g) \/ Skip(g) \/ Send(g)
             \/ Receive(g) \/ Timeout(g)
      PROVE  UNCHANGED <<stored, reconciled>>
  BY <1>2 DEF Start, PrepareBootstrap, Register, Load, Skip, Send, Receive, Timeout, serverVars
<1>3. CASE HandleAck \/ Lose \/ Crash
  BY <1>3 DEF HandleAck, Lose, Crash, serverVars
<1> QED  BY <1>1, <1>2, <1>3 DEF Next

\* Rows, goroutines and channels keep their types, one goroutine at most is at work, and
\* the server reconciles once.
THEOREM BootstrapTyping == Spec => []TypeOK
<1>1. Init => OneReconciliation
  BY DEF Init, OneReconciliation
<1>2. PrefixInv /\ OneReconciliation /\ [Next]_vars => OneReconciliation'
  <2> SUFFICES ASSUME PrefixInv, OneReconciliation, [Next]_vars PROVE OneReconciliation'
    OBVIOUS
  <2>1. reconciled' = reconciled \/ reconciled' = <<stored'>>
    BY OnlyServerStores, ServerTakes
  <2>2. Len(<<stored'>>) = 1
    OBVIOUS
  <2> QED  BY <2>1, <2>2 DEF OneReconciliation
<1>3. PrefixInv /\ OneReconciliation => TypeOK
  <2> SUFFICES ASSUME PrefixInv, OneReconciliation PROVE TypeOK
    OBVIOUS
  <2>1. \A g \in Goroutines : Pc(g) \in {"free", "prepared", "load", "send", "wait"}
    BY DEF PrefixInv, Types, TaskStates, Pc
  <2> QED  BY <2>1 DEF PrefixInv, OneReconciliation, Types, Registered, TypeOK
<1> QED  BY <1>1, <1>2, <1>3, PrefixInvariance, PTL DEF Spec

-----------------------------------------------------------------------------
(* One manifest *)

\* What a goroutine does, as far as the manifest is concerned: without a watermark it
\* begins with batch 0, and goes on when what it waited for has been acknowledged.
GoesOn(g) ==
    /\ task'[g].manifest = task[g].manifest /\ Sending(g) /\ task[g].last = -1
    /\ \/ task'[g].next = task[g].next
       \/ /\ task'[g].next = task[g].next + 1 /\ ~Current(g).done
          /\ inbox[g] # << >> /\ inbox[g][1] = Current(g)

ManifestStep(g) ==
    /\ UNCHANGED <<stored, acks, reconciled>>
    /\ \A h \in Goroutines : /\ h # g => task'[h] = task[h]
                             /\ inbox'[h] \in {inbox[h], << >>}
    /\ \/ batches' = batches
       \/ Pc(g) = "send" /\ batches' = Append(batches, Current(g))
    /\ Sending(g)' /\ task'[g].last = -1 => task'[g].next = 0 \/ GoesOn(g)

LEMMA GoroutinesStep ==
  ASSUME PrefixInv, NEW g \in Goroutines,
         Start(g) \/ Register(g) \/ Load(g) \/ Skip(g) \/ Send(g) \/ Receive(g) \/ Timeout(g)
  PROVE  ManifestStep(g)
<1>1. /\ task \in [Goroutines -> TaskStates]
      /\ inbox \in [Goroutines -> Seq(Batches)]
  BY DEF PrefixInv, Types
<1>2. ASSUME NEW state, Goto(g, state)
      PROVE  task'[g] = state /\ \A h \in Goroutines \ {g} : task'[h] = task[h]
  BY <1>1, <1>2 DEF Goto
<1>3. ASSUME Ends(g)
      PROVE  ~Sending(g)' /\ \A h \in Goroutines \ {g} : task'[h] = task[h]
  BY <1>2, <1>3 DEF Ends, Free, Sending, Pc
<1>4. ASSUME Sending(g), NextBatch(g)
      PROVE  /\ \A h \in Goroutines \ {g} : task'[h] = task[h]
             /\ Sending(g)' => /\ ~Current(g).done
                               /\ task'[g].manifest = task[g].manifest
                               /\ task'[g].next = task[g].next + 1
                               /\ task'[g].last = task[g].last
  <2>1. CASE Current(g).done
    BY <1>3, <1>4, <2>1 DEF NextBatch
  <2>2. CASE ~Current(g).done
    <3>1. task[g] \in [pc : {"send", "wait"}, last : Watermarks, next : Nat,
                       manifest : Manifests]
      BY <1>4, CurrentIsTyped DEF PrefixInv
    <3>2. task'[g] = [task[g] EXCEPT !.pc = "send", !.next = @ + 1]
      BY <1>2, <1>4, <2>2 DEF NextBatch
    <3> QED  BY <1>2, <1>4, <2>2, <3>1, <3>2 DEF NextBatch
  <2> QED  BY <2>1, <2>2
<1>5. CASE Start(g)
  <2>1. Goto(g, [pc |-> "prepared", last |-> row'.last]) \/ Goto(g, Free)
    BY <1>5 DEF Start, PrepareBootstrap
  <2>2. ~Sending(g)' /\ \A h \in Goroutines \ {g} : task'[h] = task[h]
    BY <1>2, <2>1 DEF Sending, Pc, Free
  <2> QED  BY <1>5, <2>2 DEF Start, PrepareBootstrap, ManifestStep, serverVars
<1>6. CASE Register(g)
  <2>1. \A h \in Goroutines : inbox'[h] \in {inbox[h], << >>}
    BY <1>1, <1>6 DEF Register
  <2>2. ~Sending(g)' /\ \A h \in Goroutines \ {g} : task'[h] = task[h]
    BY <1>2, <1>6 DEF Register, Sending, Pc, Free
  <2> QED  BY <1>6, <2>1, <2>2 DEF Register, ManifestStep, serverVars
<1>7. CASE Load(g)
  <2>1. CASE Ends(g)
    BY <1>3, <1>7, <2>1 DEF Load, ManifestStep, serverVars
  <2>2. CASE ~Ends(g)
    <3>1. PICK manifest \in Manifests :
            Goto(g, [pc |-> "send", last |-> task[g].last, next |-> 0,
                     manifest |-> manifest])
      BY <1>7, <2>2 DEF Load
    <3>2. task'[g].next = 0 /\ \A h \in Goroutines \ {g} : task'[h] = task[h]
      BY <1>2, <3>1
    <3> QED  BY <1>7, <3>2 DEF Load, ManifestStep, serverVars
  <2> QED  BY <2>1, <2>2
<1>8. CASE Skip(g)
  <2>1. Sending(g) /\ NextBatch(g)
    BY <1>8 DEF Skip, Sending
  <2>2. task[g].last # -1
    <3>1. Current(g).no = task[g].next /\ task[g].next \in Nat
      BY <2>1, CurrentIsTyped DEF PrefixInv
    <3> QED  BY <1>8, <3>1 DEF Skip, Skips
  <2> QED  BY <1>4, <1>8, <2>1, <2>2 DEF Skip, ManifestStep, serverVars
<1>9. CASE Send(g)
  <2>1. Sending(g) /\ Pc(g) = "send"
    BY <1>9 DEF Send, Sending
  <2>2. CASE Ends(g)
    BY <1>3, <1>9, <2>1, <2>2 DEF Send, ManifestStep, serverVars
  <2>3. CASE ~Ends(g)
    <3>1. /\ batches' = Append(batches, Current(g))
          /\ Goto(g, [task[g] EXCEPT !.pc = "wait"])
      BY <1>9, <2>3 DEF Send
    <3>2. task'[g] = [task[g] EXCEPT !.pc = "wait"]
          /\ \A h \in Goroutines \ {g} : task'[h] = task[h]
      BY <1>2, <3>1
    <3>3. task'[g].manifest = task[g].manifest /\ task'[g].next = task[g].next
          /\ task'[g].last = task[g].last
      BY <2>1, <3>2, CurrentIsTyped DEF PrefixInv
    <3> QED  BY <1>9, <2>1, <3>1, <3>2, <3>3 DEF Send, ManifestStep, GoesOn, serverVars
  <2> QED  BY <2>2, <2>3
<1>10. CASE Receive(g)
  <2>1. Sending(g) /\ inbox[g] # << >>
        /\ \A h \in Goroutines : inbox'[h] \in {inbox[h], << >>}
    BY <1>1, <1>10 DEF Receive, Sending
  <2>2. CASE IsMyAck(g, inbox[g][1])
    <3>1. NextBatch(g)
      BY <1>10, <2>2 DEF Receive
    <3> QED
      BY <1>4, <1>10, <2>1, <2>2, <3>1 DEF Receive, IsMyAck, ManifestStep, GoesOn, serverVars
  <2>3. CASE ~IsMyAck(g, inbox[g][1])
    <3>1. task' = task
      BY <1>10, <2>3 DEF Receive
    <3> QED
      BY <1>10, <2>1, <3>1 DEF Receive, ManifestStep, GoesOn, serverVars
  <2> QED  BY <2>2, <2>3
<1>11. CASE Timeout(g)
  BY <1>3, <1>11 DEF Timeout, ManifestStep, serverVars
<1> QED  BY <1>5, <1>6, <1>7, <1>8, <1>9, <1>10, <1>11

\* A goroutine keeps what the places vouch for.
LEMMA GoroutinesKeepManifest ==
  ASSUME PrefixInv, OwnManifest, NEW g \in Goroutines, ManifestStep(g)
  PROVE  OwnManifest'
<1>1. UNCHANGED <<stored, acks, reconciled>>
  BY DEF ManifestStep
<1>2. \A m, n : HasOf(m, n)' <=> HasOf(m, n)
  BY <1>1 DEF HasOf
<1>3. ASSUME NEW h \in Goroutines, h # g, Sending(h)', task'[h].last = -1
      PROVE  HasOf(task'[h].manifest, task'[h].next)
  BY <1>3 DEF ManifestStep, OwnManifest, Sending, Pc
<1>4. ASSUME Sending(g)', task'[g].last = -1
      PROVE  HasOf(task'[g].manifest, task'[g].next)
  <2>1. CASE task'[g].next = 0
    BY <2>1 DEF HasOf
  <2>2. CASE GoesOn(g) /\ task'[g].next = task[g].next
    BY <2>2 DEF GoesOn, OwnManifest
  <2>3. CASE GoesOn(g) /\ task'[g].next # task[g].next
    <3>1. /\ Sending(g) /\ task[g].last = -1 /\ task'[g].manifest = task[g].manifest
          /\ task'[g].next = task[g].next + 1 /\ ~Current(g).done
          /\ inbox[g] # << >> /\ inbox[g][1] = Current(g)
      BY <2>3 DEF GoesOn
    <3>2. /\ Current(g).no = task[g].next /\ task[g].next \in Nat
          /\ Current(g) = Batch(task[g].manifest, task[g].next, -1)
      BY <3>1, CurrentIsTyped DEF PrefixInv
    <3>3. 1 \in DOMAIN inbox[g]
      BY <3>1 DEF PrefixInv, Types
    <3>4. task[g].next \in DOMAIN stored /\ stored[task[g].next] = Current(g)
      BY <3>1, <3>2, <3>3 DEF PrefixInv, Vouched, OwnManifest
    <3>5. HasOf(task[g].manifest, task[g].next)
      BY <3>1 DEF OwnManifest
    <3> QED  BY <3>1, <3>2, <3>4, <3>5 DEF HasOf
  <2> QED  BY <1>4, <2>1, <2>2, <2>3 DEF ManifestStep
<1>5. \A h \in Goroutines : \A k \in DOMAIN inbox'[h] :
          stored[inbox'[h][k].no] = inbox'[h][k]
  BY DEF ManifestStep, OwnManifest
<1>6. ASSUME NEW k \in DOMAIN batches', batches'[k].safe
      PROVE  \E m \in Manifests : batches'[k] = Batch(m, Len(m), -1) /\ HasOf(m, Len(m))
  <2>1. CASE batches' = batches
    BY <1>6, <2>1 DEF OwnManifest
  <2>2. CASE Pc(g) = "send" /\ batches' = Append(batches, Current(g))
    <3>1. batches \in Seq(Batches)
      BY DEF PrefixInv, Types
    <3>2. CASE k \in DOMAIN batches
      <4>1. batches'[k] = batches[k]
        BY <2>2, <3>1, <3>2
      <4> QED  BY <1>6, <3>2, <4>1 DEF OwnManifest
    <3>3. CASE k \notin DOMAIN batches
      <4>1. batches'[k] = Current(g) /\ Sending(g)
        BY <2>2, <3>1, <3>3 DEF Sending
      <4>2. /\ task[g].manifest \in Manifests /\ task[g].last = -1
            /\ task[g].next = Len(task[g].manifest)
            /\ Current(g) = Batch(task[g].manifest, Len(task[g].manifest), -1)
        BY <1>6, <4>1, CurrentIsTyped DEF PrefixInv
      <4>3. HasOf(task[g].manifest, Len(task[g].manifest))
        BY <4>1, <4>2 DEF OwnManifest
      <4> QED  BY <4>1, <4>2, <4>3
    <3> QED  BY <3>2, <3>3
  <2> QED  BY <2>1, <2>2 DEF ManifestStep
<1>7. ASSUME NEW h \in Goroutines, Sending(h)', task'[h].last = -1
      PROVE  HasOf(task'[h].manifest, task'[h].next)
  BY <1>3, <1>4, <1>7
<1> HIDE DEF HasOf
<1> QED  BY <1>1, <1>2, <1>5, <1>6, <1>7 DEF OwnManifest

LEMMA HandleAckKeepsManifest ==
  ASSUME PrefixInv, OwnManifest, HandleAck
  PROVE  OwnManifest'
<1>1. /\ acks \in Seq(Batches) /\ acks # << >> /\ acks' = Tail(acks)
      /\ UNCHANGED <<task, batches, stored, reconciled>>
  BY DEF HandleAck, PrefixInv, Types, serverVars
<1>2. stored[Head(acks).no] = Head(acks)
      /\ \A k \in DOMAIN acks' : stored[acks'[k].no] = acks'[k]
  BY <1>1, QueueHead DEF OwnManifest
<1>3. \A g \in Goroutines : inbox'[g] = inbox[g] \/ inbox'[g] = <<Head(acks)>>
  BY DEF HandleAck, PrefixInv, Types
<1>4. ASSUME NEW g \in Goroutines, NEW k \in DOMAIN inbox'[g]
      PROVE  stored[inbox'[g][k].no] = inbox'[g][k]
  <2>1. CASE inbox'[g] = inbox[g]
    BY <2>1 DEF OwnManifest
  <2>2. CASE inbox'[g] = <<Head(acks)>>
    BY <1>2, <2>2
  <2> QED  BY <1>3, <2>1, <2>2
<1> QED  BY <1>1, <1>2, <1>4 DEF OwnManifest, Sending, Pc, HasOf

LEMMA LossKeepsManifest ==
  ASSUME PrefixInv, OwnManifest, Lose \/ Crash
  PROVE  OwnManifest'
<1>1. /\ batches' = << >> /\ acks' = << >> /\ UNCHANGED <<stored, reconciled>>
  BY DEF Lose, Crash, serverVars
<1>2. CASE Lose
  BY <1>1, <1>2 DEF Lose, OwnManifest, Sending, Pc, HasOf
<1>3. CASE Crash
  <2>1. \A g \in Goroutines : Pc(g)' = "free" /\ inbox'[g] = << >>
    BY <1>3 DEF Crash, Pc, Free
  <2>2. \A g \in Goroutines : ~Sending(g)' /\ DOMAIN inbox'[g] = {}
    BY <2>1 DEF Sending
  <2> QED  BY <1>1, <2>2 DEF OwnManifest
<1> QED  BY <1>2, <1>3

\* A server that refuses another batch of a number it has changes nothing it has.
LEMMA RefusingKeeps ==
  ASSUME PrefixInv, ServerStores, "replace" \notin OnConflict
  PROVE  /\ DOMAIN stored \subseteq DOMAIN stored'
         /\ \A n \in DOMAIN stored : stored'[n] = stored[n]
BY ServerTakes

\* What it is told that it may reconcile, it has stored whole.
LEMMA ServerKeepsManifest ==
  ASSUME PrefixInv, ManifestInv, ServerStores, "replace" \notin OnConflict
  PROVE  OwnManifest' /\ ReconciledFromOneManifest'
<1>0. PICK batch : batch = Head(batches)
  OBVIOUS
<1>1. /\ batches \in Seq(Batches) /\ batches # << >> /\ batches' = Tail(batches)
      /\ batch \in Batches /\ HasBelow(batch.no) /\ batch.no \in Nat
      /\ UNCHANGED <<task, inbox>>
  BY <1>0, ServerTakes, BatchesAreTyped
<1>2. /\ DOMAIN stored \subseteq DOMAIN stored'
      /\ \A n \in DOMAIN stored : stored'[n] = stored[n]
  BY RefusingKeeps
<1>3. \A m : \A n : HasOf(m, n) => HasOf(m, n)'
  BY <1>2 DEF HasOf
<1>4. \A k \in DOMAIN acks' : stored'[acks'[k].no] = acks'[k]
  <2>1. acks \in Seq(Batches)
        /\ \A k \in DOMAIN acks : stored'[acks[k].no] = acks[k]
    BY <1>2 DEF PrefixInv, Types, Vouched, ManifestInv, OwnManifest
  <2>2. CASE acks' = acks
    BY <2>1, <2>2
  <2>3. CASE acks' = Append(acks, batch) /\ stored'[batch.no] = batch
    BY <1>1, <2>1, <2>3
  <2> QED  BY <1>0, <2>2, <2>3, ServerTakes
<1>5. ASSUME NEW g \in Goroutines
      PROVE  /\ Sending(g)' /\ task'[g].last = -1 =>
                   HasOf(task[g].manifest, task[g].next)'
             /\ \A k \in DOMAIN inbox'[g] : stored'[inbox'[g][k].no] = inbox'[g][k]
  <2>1. Sending(g)' /\ task'[g].last = -1 => HasOf(task[g].manifest, task[g].next)
    BY <1>1 DEF ManifestInv, OwnManifest, Sending, Pc
  <2>2. HasOf(task[g].manifest, task[g].next) => HasOf(task[g].manifest, task[g].next)'
    BY <1>1, <1>2 DEF HasOf
  <2>3. \A k \in DOMAIN inbox'[g] : stored'[inbox'[g][k].no] = inbox'[g][k]
    BY <1>1, <1>2 DEF PrefixInv, Vouched, ManifestInv, OwnManifest
  <2> QED  BY <2>1, <2>2, <2>3
<1>6. ASSUME NEW k \in DOMAIN batches', batches'[k].safe
      PROVE  \E m \in Manifests : batches'[k] = Batch(m, Len(m), -1) /\ HasOf(m, Len(m))'
  <2>1. k + 1 \in DOMAIN batches /\ batches'[k] = batches[k + 1]
    BY <1>1, QueueHead
  <2> QED  BY <1>3, <1>6, <2>1 DEF ManifestInv, OwnManifest
<1>7. batch.safe => \E m \in Manifests : batch = Batch(m, Len(m), -1) /\ HasOf(m, Len(m))
  BY <1>0, <1>1, QueueHead DEF ManifestInv, OwnManifest
<1>8. (reconciled' = << >> => \A n \in DOMAIN stored' : ~stored'[n].safe)
      /\ ReconciledFromOneManifest'
  <2>1. CASE UNCHANGED <<stored, reconciled>>
    BY <2>1 DEF ManifestInv, OwnManifest, ReconciledFromOneManifest
  <2>2. CASE /\ stored' = [n \in DOMAIN stored \cup {batch.no} |->
                             IF n = batch.no THEN batch ELSE stored[n]]
             /\ DOMAIN stored' = DOMAIN stored \cup {batch.no} /\ stored'[batch.no] = batch
             /\ reconciled' = IF batch.safe /\ reconciled = << >>
                                THEN <<stored'>> ELSE reconciled
    <3>1. CASE batch.safe /\ reconciled = << >>
      <4>1. PICK m \in Manifests : batch = Batch(m, Len(m), -1) /\ HasOf(m, Len(m))
        BY <1>7, <3>1
      <4>2. Len(m) \in Nat /\ batch.no = Len(m)
        BY <4>1, ManifestsAssumption DEF Batch
      <4>3. batch.no \notin DOMAIN stored
        BY <1>2, <2>2, <3>1 DEF ManifestInv, OwnManifest
      <4>4. DOMAIN stored = 0..Len(m) - 1
        <5>1. 0..Len(m) - 1 \subseteq DOMAIN stored
          BY <1>1, <4>2 DEF HasBelow
        <5>2. ASSUME NEW n \in DOMAIN stored
              PROVE  n \in 0..Len(m) - 1
          <6>1. n \in Nat /\ HasBelow(n + 1)
            BY DEF PrefixInv, StoredInPlace, Vouched
          <6> QED  BY <4>2, <4>3, <6>1 DEF HasBelow
        <5> QED  BY <5>1, <5>2
      <4>5. /\ DOMAIN stored' = 0..Len(m)
            /\ \A n \in 0..Len(m) : stored'[n] = Batch(m, n, -1)
        BY <1>2, <2>2, <4>1, <4>2, <4>4 DEF HasOf
      <4>6. stored' = [n \in 0..Len(m) |-> Batch(m, n, -1)]
        <5>1. DOMAIN stored \cup {batch.no} = 0..Len(m)
          BY <2>2, <4>5
        <5>2. \A n \in 0..Len(m) :
                 (IF n = batch.no THEN batch ELSE stored[n]) = Batch(m, n, -1)
          BY <2>2, <4>5, <5>1
        <5> QED  BY <2>2, <5>1, <5>2
      <4>7. reconciled' = <<stored'>>
        BY <2>2, <3>1
      <4> QED  BY <4>6, <4>7 DEF ReconciledFromOneManifest
    <3>2. CASE ~batch.safe
      BY <1>2, <2>2, <3>2 DEF ManifestInv, OwnManifest, ReconciledFromOneManifest
    <3>3. CASE reconciled # << >>
      BY <2>2, <3>3 DEF ManifestInv, ReconciledFromOneManifest
    <3> QED  BY <3>1, <3>2, <3>3
  <2> QED  BY <1>0, <2>1, <2>2, ServerTakes
<1>9. OwnManifest'
  <2>1. ASSUME NEW g \in Goroutines
        PROVE  Sending(g)' /\ task'[g].last = -1 =>
                   HasOf(task[g].manifest, task[g].next)'
    BY <1>5
  <2> QED  BY <1>1, <1>4, <1>5, <1>6, <1>8 DEF OwnManifest
<1> QED  BY <1>8, <1>9

LEMMA InitManifest == Init => ManifestInv
<1> SUFFICES ASSUME Init PROVE ManifestInv
  OBVIOUS
<1>1. OneReconciliation /\ ReconciledFromOneManifest
  BY DEF Init, OneReconciliation, ReconciledFromOneManifest
<1>2. ASSUME NEW g \in Goroutines
      PROVE  ~Sending(g) /\ DOMAIN inbox[g] = {}
  <2>1. Pc(g) = "free" /\ inbox[g] = << >>
    BY DEF Init, Free, Pc
  <2>2. ~Sending(g)
    BY <2>1 DEF Sending
  <2>3. DOMAIN inbox[g] = {}
    BY <2>1
  <2> QED  BY <2>2, <2>3
<1>3. OwnManifest
  BY <1>2 DEF Init, OwnManifest
<1> QED  BY <1>1, <1>3 DEF ManifestInv

LEMMA NextKeepsManifest ==
  ASSUME "replace" \notin OnConflict, PrefixInv, ManifestInv, [Next]_vars
  PROVE  ManifestInv'
<1>1. OneReconciliation'
  <2>1. reconciled' = reconciled \/ reconciled' = <<stored'>>
    BY OnlyServerStores, ServerTakes
  <2>2. Len(<<stored'>>) = 1
    OBVIOUS
  <2> QED  BY <2>1, <2>2 DEF ManifestInv, OneReconciliation
<1>2. CASE ServerStores
  BY <1>1, <1>2, ServerKeepsManifest DEF ManifestInv
<1>3. CASE UNCHANGED <<stored, reconciled>> /\ ~ServerStores
  <2>1. ReconciledFromOneManifest'
    BY <1>3 DEF ManifestInv, ReconciledFromOneManifest
  <2>2. OwnManifest'
    <3>1. CASE UNCHANGED vars
      BY <3>1 DEF vars, serverVars, ManifestInv, OwnManifest, Sending, Pc, HasOf
    <3>2. ASSUME NEW g \in Goroutines,
                 Start(g) \/ Register(g) \/ Load(g) \/ Skip(g) \/ Send(g)
                 \/ Receive(g) \/ Timeout(g)
          PROVE  OwnManifest'
      BY <3>2, GoroutinesStep, GoroutinesKeepManifest DEF ManifestInv
    <3>3. CASE HandleAck
      BY <3>3, HandleAckKeepsManifest DEF ManifestInv
    <3>4. CASE Lose \/ Crash
      BY <3>4, LossKeepsManifest DEF ManifestInv
    <3> QED  BY <1>3, <3>1, <3>2, <3>3, <3>4 DEF Next
  <2> QED  BY <1>1, <2>1, <2>2 DEF ManifestInv
<1> QED  BY <1>2, <1>3, OnlyServerStores

\* If the server refuses another batch of a number it has, what it has when it
\* reconciles is one manifest, whole and of one load: a resumed sync, which may mix two,
\* never says that its last batch is safe.
THEOREM BootstrapReconcilesOneManifest ==
  ASSUME "replace" \notin OnConflict
  PROVE  Spec => []ReconciledFromOneManifest
<1>1. Init => ManifestInv
  BY InitManifest
<1>2. PrefixInv /\ ManifestInv /\ [Next]_vars => ManifestInv'
  BY NextKeepsManifest
<1>3. ManifestInv => ReconciledFromOneManifest
  BY DEF ManifestInv
<1> QED  BY <1>1, <1>2, <1>3, PrefixInvariance, PTL DEF Spec
=============================================================================
