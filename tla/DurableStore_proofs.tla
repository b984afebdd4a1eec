------------------------ MODULE DurableStore_proofs ------------------------
(***************************************************************************)
(* Proofs about DurableStore.  The inductive invariant is the typing of    *)
(* the tables together with the suffix property of the outbox: typing      *)
(* alone is inductive, the suffix property needs the typing for its        *)
(* arithmetic, and the action property needs both.                         *)
(***************************************************************************)
EXTENDS DurableStore, TLAPS

StoreInv == StoreTypeOK /\ OutboxIsUnackedSuffix

\* A sequence that passes the range check is one the store may have handed out.
LEMMA AckInRange ==
  ASSUME NEW s \in AckSequences, NEW n, InAckRange(s, n)
  PROVE  s \in Nat /\ s \in 0..MaxEvents
  BY MaxEventsAssumption, SMT DEF AckSequences, InAckRange

\* Every sequence of a run may be acknowledged.
LEMMA AckableSequences == 0..MaxEvents \subseteq AckSequences
  BY MaxEventsAssumption, SMT DEF AckSequences

\* The tables are empty at first, so the invariant holds of them: this is the
\* state migrate leaves in a new database file.
LEMMA StoreInitInv == StoreInit => StoreInv
  BY SMT DEF StoreInit, StoreInv, StoreTypeOK, OutboxIsUnackedSuffix,
             KnownRuns, RunRow, OutboxRow

-----------------------------------------------------------------------------
(* What each operation does to a row and to the sequences of a run. *)

\* PrepareRun adds one run, leaves the others as they are, and the new run has
\* no events.
LEMMA PrepareRunEffect ==
  ASSUME StoreInv, NEW r \in Runs, NEW c \in Commands, NEW p \in Payloads,
         PrepareRun(r, c, p)
  PROVE  /\ DOMAIN agentRuns' = DOMAIN agentRuns \cup {r}
         /\ r \notin DOMAIN agentRuns
         /\ agentRuns'[r] = NewRow(c, p)
         /\ \A q \in DOMAIN agentRuns : agentRuns'[q] = agentRuns[q]
         /\ agentRuns' \in [DOMAIN agentRuns' -> RunRow]
         /\ resultOutbox' = resultOutbox
<1>1. NewRow(c, p) \in RunRow
  BY SMT DEF NewRow, RunRow
<1> QED
  BY <1>1, SMT DEF StoreInv, StoreTypeOK, PrepareRun, InsertsRun, KnownRuns

\* AppendEvent raises the counter of one run by one and adds the row with the
\* sequence it used up.
LEMMA InsertEventEffect ==
  ASSUME StoreInv, NEW r \in KnownRuns, NEW t \in EventTypes,
         InsertEvent(r, agentRuns[r].next, t)
  PROVE  /\ DOMAIN agentRuns' = DOMAIN agentRuns
         /\ agentRuns'[r] \in RunRow
         /\ agentRuns'[r].next = agentRuns[r].next + 1
         /\ agentRuns'[r].acked = agentRuns[r].acked
         /\ \A q \in DOMAIN agentRuns : q # r => agentRuns'[q] = agentRuns[q]
         /\ agentRuns' \in [DOMAIN agentRuns' -> RunRow]
         /\ resultOutbox' = resultOutbox
               \cup {[run |-> r, seq |-> agentRuns[r].next, type |-> t]}
<1> DEFINE row == agentRuns[r]
           new == AdvanceRow(row, row.next, t)
<1>1. row \in RunRow
  BY SMT DEF StoreInv, StoreTypeOK, KnownRuns
<1>2. /\ new \in RunRow
      /\ new.next = row.next + 1
      /\ new.acked = row.acked
  <2> DEFINE mid == Counted(row, row.next)
  <2>1. row.next \in Nat
    BY <1>1, SMT DEF RunRow
  <2> HIDE DEF row
  <2>2. mid \in RunRow /\ mid.next = row.next + 1 /\ mid.acked = row.acked
    BY <1>1, SMT DEF Counted, RunRow
  <2>3. new = mid \/ new = [mid EXCEPT !.final = row.next]
    BY DEF AdvanceRow
  <2> HIDE DEF mid, new
  <2> QED
    BY <2>1, <2>2, <2>3, SMT DEF RunRow
<1>3. agentRuns' = [agentRuns EXCEPT ![r] = new]
  BY SMT DEF InsertEvent
<1> HIDE DEF new
<1>4. /\ DOMAIN agentRuns' = DOMAIN agentRuns
      /\ agentRuns'[r] = new
      /\ \A q \in DOMAIN agentRuns : q # r => agentRuns'[q] = agentRuns[q]
  BY <1>3, SMT DEF KnownRuns
<1>5. agentRuns' \in [DOMAIN agentRuns' -> RunRow]
  BY <1>2, <1>3, SMT DEF StoreInv, StoreTypeOK, KnownRuns
<1> QED
  BY <1>2, <1>4, <1>5, SMT DEF InsertEvent

\* DurableAck raises the watermark of one run to the acknowledged sequence,
\* never lowers it, and releases the rows of that run up to the sequence.
LEMMA ReleaseUpToEffect ==
  ASSUME StoreInv, NEW r \in KnownRuns, NEW s \in Nat, ReleaseUpTo(r, s)
  PROVE  /\ DOMAIN agentRuns' = DOMAIN agentRuns
         /\ agentRuns'[r] \in RunRow
         /\ agentRuns'[r].next = agentRuns[r].next
         /\ agentRuns'[r].acked = MaxOf(agentRuns[r].acked, s)
         /\ \A q \in DOMAIN agentRuns : q # r => agentRuns'[q] = agentRuns[q]
         /\ agentRuns' \in [DOMAIN agentRuns' -> RunRow]
         /\ resultOutbox' = {e \in resultOutbox : ~ (e.run = r /\ e.seq <= s)}
<1> DEFINE row == agentRuns[r]
           new == AdvanceAck(row, s)
<1>1. row \in RunRow
  BY SMT DEF StoreInv, StoreTypeOK, KnownRuns
<1>2. /\ new \in RunRow
      /\ new.next = row.next
      /\ new.acked = MaxOf(row.acked, s)
  BY <1>1, SMT DEF AdvanceAck, MaxOf, RunRow
<1>3. agentRuns' = [agentRuns EXCEPT ![r] = new]
  BY SMT DEF ReleaseUpTo
<1> HIDE DEF new
<1>4. /\ DOMAIN agentRuns' = DOMAIN agentRuns
      /\ agentRuns'[r] = new
      /\ \A q \in DOMAIN agentRuns : q # r => agentRuns'[q] = agentRuns[q]
  BY <1>3, SMT DEF KnownRuns
<1>5. agentRuns' \in [DOMAIN agentRuns' -> RunRow]
  BY <1>2, <1>3, SMT DEF StoreInv, StoreTypeOK, KnownRuns
<1> QED
  BY <1>2, <1>4, <1>5, SMT DEF ReleaseUpTo, ReleasedBy

\* Cancel changes a column that neither the typing nor the suffix looks at.
LEMMA CancelEffect ==
  ASSUME StoreInv, NEW r \in Runs, Cancel(r)
  PROVE  /\ DOMAIN agentRuns' = DOMAIN agentRuns
         /\ agentRuns' \in [DOMAIN agentRuns' -> RunRow]
         /\ \A q \in DOMAIN agentRuns :
               /\ agentRuns'[q].next = agentRuns[q].next
               /\ agentRuns'[q].acked = agentRuns[q].acked
         /\ resultOutbox' = resultOutbox
<1> DEFINE row == agentRuns[r]
           new == CancelRow(row)
<1>1. row \in RunRow /\ r \in KnownRuns
  BY SMT DEF StoreInv, StoreTypeOK, KnownRuns, Cancel
<1>2. /\ new \in RunRow
      /\ new.next = row.next
      /\ new.acked = row.acked
  BY <1>1, SMT DEF CancelRow, RunRow
<1>3. agentRuns' = [agentRuns EXCEPT ![r] = new]
  BY SMT DEF Cancel
<1> HIDE DEF new
<1>4. /\ DOMAIN agentRuns' = DOMAIN agentRuns
      /\ agentRuns'[r] = new
      /\ \A q \in DOMAIN agentRuns : q # r => agentRuns'[q] = agentRuns[q]
  BY <1>1, <1>3, SMT DEF KnownRuns
<1>5. agentRuns' \in [DOMAIN agentRuns' -> RunRow]
  BY <1>1, <1>2, <1>3, SMT DEF StoreInv, StoreTypeOK, KnownRuns
<1> QED
  BY <1>2, <1>4, <1>5, SMT DEF Cancel

-----------------------------------------------------------------------------
(* Typing *)

\* One step of the store keeps the shape of both tables.
LEMMA TypingStep ==
  ASSUME StoreInv, [StoreNext]_storeVars
  PROVE  StoreTypeOK'
<1>1. ASSUME NEW r \in Runs, NEW c \in Commands, NEW p \in Payloads,
             PrepareRun(r, c, p)
      PROVE  StoreTypeOK'
  <2>1. /\ DOMAIN agentRuns' = DOMAIN agentRuns \cup {r}
        /\ agentRuns' \in [DOMAIN agentRuns' -> RunRow]
        /\ resultOutbox' = resultOutbox
    BY <1>1, PrepareRunEffect
  <2> QED
    BY <2>1 DEF StoreInv, StoreTypeOK, KnownRuns
<1>2. ASSUME NEW r \in Runs, NEW t \in EventTypes, AppendEvent(r, t)
      PROVE  StoreTypeOK'
  <2>1. r \in KnownRuns /\ InsertEvent(r, agentRuns[r].next, t)
    BY <1>2 DEF AppendEvent
  <2>2. agentRuns[r].next \in Nat
    BY <2>1, SMT DEF StoreInv, StoreTypeOK, RunRow
  <2>3. [run |-> r, seq |-> agentRuns[r].next, type |-> t] \in OutboxRow
    BY <2>2, SMT DEF OutboxRow
  <2> QED
    BY <2>1, <2>3, InsertEventEffect, SMT DEF StoreInv, StoreTypeOK, KnownRuns
<1>3. ASSUME NEW r \in Runs, NEW s \in AckSequences, DurableAck(r, s)
      PROVE  StoreTypeOK'
  <2>1. r \in KnownRuns /\ s \in Nat /\ ReleaseUpTo(r, s)
    BY <1>3, AckInRange DEF DurableAck
  <2> QED
    BY <2>1, ReleaseUpToEffect, SMT DEF StoreInv, StoreTypeOK, KnownRuns
<1>4. ASSUME NEW r \in Runs, Cancel(r)
      PROVE  StoreTypeOK'
  BY <1>4, CancelEffect, SMT DEF StoreInv, StoreTypeOK, KnownRuns
<1>5. CASE UNCHANGED storeVars
  BY <1>5, SMT DEF storeVars, StoreInv, StoreTypeOK, KnownRuns
<1> QED
  BY <1>1, <1>2, <1>3, <1>4, <1>5 DEF StoreNext

-----------------------------------------------------------------------------
(* The suffix property *)

\* Appending the next sequence extends the suffix at its end.
LEMMA AppendKeepsSuffix ==
  ASSUME StoreInv, NEW r \in KnownRuns, NEW t \in EventTypes,
         InsertEvent(r, agentRuns[r].next, t)
  PROVE  OutboxIsUnackedSuffix'
<1> DEFINE n == agentRuns[r].next
           a == agentRuns[r].acked
           new == [run |-> r, seq |-> n, type |-> t]
<1>1. n \in Nat /\ a \in Nat /\ a < n
  BY SMT DEF StoreInv, StoreTypeOK, RunRow, OutboxIsUnackedSuffix,
             HoldsUnackedSuffix
<1>2. /\ DOMAIN agentRuns' = DOMAIN agentRuns
      /\ agentRuns'[r].next = n + 1
      /\ agentRuns'[r].acked = a
      /\ \A q \in DOMAIN agentRuns : q # r => agentRuns'[q] = agentRuns[q]
      /\ resultOutbox' = resultOutbox \cup {new}
  BY InsertEventEffect
<1>3. \A e \in resultOutbox' : e.run \in KnownRuns'
  BY <1>2, SMT DEF StoreInv, OutboxIsUnackedSuffix, KnownRuns
<1>4. \A e, f \in resultOutbox' : e.run = f.run /\ e.seq = f.seq => e = f
  BY <1>2, SMT DEF StoreInv, OutboxIsUnackedSuffix, InsertEvent
<1>5. ASSUME NEW q \in KnownRuns'
      PROVE  HoldsUnackedSuffix(q)'
  <2>1. HoldsUnackedSuffix(q) /\ q \in KnownRuns
    BY <1>2, <1>5, SMT DEF StoreInv, OutboxIsUnackedSuffix, KnownRuns
  <2>2. CASE q = r
    <3>1. new.run = r /\ new.seq = n
      BY SMT
    <3>2. OutboxSeqs(r)' = OutboxSeqs(r) \cup {n}
      <4> HIDE DEF new
      <4> QED
        BY <1>2, <3>1 DEF OutboxSeqs
    <3>3. ((a + 1)..(n - 1)) \cup {n} = (a + 1)..((n + 1) - 1)
      BY <1>1, SMT
    <3>4. OutboxSeqs(r)' = (a + 1)..((n + 1) - 1)
      BY <2>1, <2>2, <3>2, <3>3 DEF HoldsUnackedSuffix
    <3>5. a < n + 1
      BY <1>1, SMT
    <3> QED
      BY <1>2, <2>2, <3>4, <3>5 DEF HoldsUnackedSuffix
  <2>3. CASE q # r
    <3>1. OutboxSeqs(q)' = OutboxSeqs(q)
      BY <1>2, <2>3, SMT DEF OutboxSeqs
    <3>2. agentRuns'[q] = agentRuns[q]
      BY <1>2, <2>1, <2>3 DEF KnownRuns
    <3> QED
      BY <2>1, <3>1, <3>2 DEF HoldsUnackedSuffix
  <2> QED
    BY <2>2, <2>3
<1> QED
  BY <1>3, <1>4, <1>5 DEF OutboxIsUnackedSuffix

\* An acknowledgement in range cuts the suffix at its front, or is late and
\* cuts nothing.
LEMMA AckKeepsSuffix ==
  ASSUME StoreInv, NEW r \in KnownRuns, NEW s \in Nat,
         InAckRange(s, agentRuns[r].next), ReleaseUpTo(r, s)
  PROVE  OutboxIsUnackedSuffix'
<1> DEFINE n == agentRuns[r].next
           a == agentRuns[r].acked
<1>1. n \in Nat /\ a \in Nat /\ a < n /\ s < n
  BY SMT DEF StoreInv, StoreTypeOK, RunRow, OutboxIsUnackedSuffix,
             HoldsUnackedSuffix, InAckRange
<1>2. /\ DOMAIN agentRuns' = DOMAIN agentRuns
      /\ agentRuns'[r].next = n
      /\ agentRuns'[r].acked = MaxOf(a, s)
      /\ \A q \in DOMAIN agentRuns : q # r => agentRuns'[q] = agentRuns[q]
      /\ resultOutbox' = {e \in resultOutbox : ~ (e.run = r /\ e.seq <= s)}
  BY ReleaseUpToEffect
<1>3. \A e \in resultOutbox' : e.run \in KnownRuns'
  BY <1>2, SMT DEF StoreInv, OutboxIsUnackedSuffix, KnownRuns
<1>4. \A e, f \in resultOutbox' : e.run = f.run /\ e.seq = f.seq => e = f
  BY <1>2, SMT DEF StoreInv, OutboxIsUnackedSuffix
<1>5. ASSUME NEW q \in KnownRuns'
      PROVE  HoldsUnackedSuffix(q)'
  <2>1. HoldsUnackedSuffix(q) /\ q \in KnownRuns
    BY <1>2, <1>5, SMT DEF StoreInv, OutboxIsUnackedSuffix, KnownRuns
  <2>2. CASE q = r
    <3>1. OutboxSeqs(r) \subseteq Nat
      BY SMT DEF StoreInv, StoreTypeOK, OutboxRow, OutboxSeqs
    <3>2. OutboxSeqs(r)' = {x \in OutboxSeqs(r) : ~ (x <= s)}
      BY <1>2, SMT DEF OutboxSeqs
    <3>3. {x \in (a + 1)..(n - 1) : ~ (x <= s)} = (MaxOf(a, s) + 1)..(n - 1)
      BY <1>1, SMT DEF MaxOf
    <3>4. OutboxSeqs(r)' = (MaxOf(a, s) + 1)..(n - 1)
      BY <2>1, <2>2, <3>2, <3>3 DEF HoldsUnackedSuffix
    <3>5. MaxOf(a, s) < n
      BY <1>1, SMT DEF MaxOf
    <3> QED
      BY <1>2, <2>2, <3>4, <3>5 DEF HoldsUnackedSuffix
  <2>3. CASE q # r
    <3>1. OutboxSeqs(q)' = OutboxSeqs(q)
      BY <1>2, <2>3, SMT DEF OutboxSeqs
    <3>2. agentRuns'[q] = agentRuns[q]
      BY <1>2, <2>1, <2>3 DEF KnownRuns
    <3> QED
      BY <2>1, <3>1, <3>2 DEF HoldsUnackedSuffix
  <2> QED
    BY <2>2, <2>3
<1> QED
  BY <1>3, <1>4, <1>5 DEF OutboxIsUnackedSuffix

\* A run that was just prepared has no events: its suffix is empty.
LEMMA PrepareKeepsSuffix ==
  ASSUME StoreInv, NEW r \in Runs, NEW c \in Commands, NEW p \in Payloads,
         PrepareRun(r, c, p)
  PROVE  OutboxIsUnackedSuffix'
<1>1. /\ DOMAIN agentRuns' = DOMAIN agentRuns \cup {r}
      /\ r \notin DOMAIN agentRuns
      /\ agentRuns'[r] = NewRow(c, p)
      /\ \A q \in DOMAIN agentRuns : agentRuns'[q] = agentRuns[q]
      /\ resultOutbox' = resultOutbox
  BY PrepareRunEffect
<1>2. \A e \in resultOutbox : e.run \in DOMAIN agentRuns
  BY DEF StoreInv, OutboxIsUnackedSuffix, KnownRuns
<1>3. ASSUME NEW q \in KnownRuns'
      PROVE  HoldsUnackedSuffix(q)'
  <2>1. OutboxSeqs(q)' = OutboxSeqs(q)
    BY <1>1 DEF OutboxSeqs
  <2>2. CASE q = r
    <3>1. OutboxSeqs(r) = {}
      BY <1>1, <1>2, SMT DEF OutboxSeqs
    <3>2. agentRuns'[r].acked = 0 /\ agentRuns'[r].next = 1
      BY <1>1, SMT DEF NewRow
    <3>3. (0 + 1)..(1 - 1) = {} /\ 0 < 1
      BY SMT
    <3> QED
      BY <2>1, <2>2, <3>1, <3>2, <3>3 DEF HoldsUnackedSuffix
  <2>3. CASE q # r
    <3>1. q \in KnownRuns /\ agentRuns'[q] = agentRuns[q]
      BY <1>1, <1>3, <2>3 DEF KnownRuns
    <3>2. HoldsUnackedSuffix(q)
      BY <3>1 DEF StoreInv, OutboxIsUnackedSuffix
    <3> QED
      BY <2>1, <3>1, <3>2 DEF HoldsUnackedSuffix
  <2> QED
    BY <2>2, <2>3
<1>4. \A e \in resultOutbox' : e.run \in KnownRuns'
  BY <1>1, <1>2 DEF KnownRuns
<1>5. \A e, f \in resultOutbox' : e.run = f.run /\ e.seq = f.seq => e = f
  BY <1>1 DEF StoreInv, OutboxIsUnackedSuffix
<1> QED
  BY <1>3, <1>4, <1>5 DEF OutboxIsUnackedSuffix

\* Cancel touches neither the watermarks nor the outbox.
LEMMA CancelKeepsSuffix ==
  ASSUME StoreInv, NEW r \in Runs, Cancel(r)
  PROVE  OutboxIsUnackedSuffix'
<1>1. /\ DOMAIN agentRuns' = DOMAIN agentRuns
      /\ \A q \in DOMAIN agentRuns :
            /\ agentRuns'[q].next = agentRuns[q].next
            /\ agentRuns'[q].acked = agentRuns[q].acked
      /\ resultOutbox' = resultOutbox
  BY CancelEffect
<1>2. ASSUME NEW q \in KnownRuns'
      PROVE  HoldsUnackedSuffix(q)'
  <2>1. q \in KnownRuns /\ HoldsUnackedSuffix(q)
    BY <1>1, <1>2 DEF StoreInv, OutboxIsUnackedSuffix, KnownRuns
  <2>2. OutboxSeqs(q)' = OutboxSeqs(q)
    BY <1>1 DEF OutboxSeqs
  <2> QED
    BY <1>1, <2>1, <2>2 DEF HoldsUnackedSuffix, KnownRuns
<1> QED
  BY <1>1, <1>2 DEF StoreInv, OutboxIsUnackedSuffix, KnownRuns

\* One step of the store keeps the whole invariant.
LEMMA StoreStepInv ==
  ASSUME StoreInv, [StoreNext]_storeVars
  PROVE  StoreInv'
<1>1. ASSUME NEW r \in Runs, NEW c \in Commands, NEW p \in Payloads,
             PrepareRun(r, c, p)
      PROVE  OutboxIsUnackedSuffix'
  BY <1>1, PrepareKeepsSuffix
<1>2. ASSUME NEW r \in Runs, NEW t \in EventTypes, AppendEvent(r, t)
      PROVE  OutboxIsUnackedSuffix'
  BY <1>2, AppendKeepsSuffix DEF AppendEvent
<1>3. ASSUME NEW r \in Runs, NEW s \in AckSequences, DurableAck(r, s)
      PROVE  OutboxIsUnackedSuffix'
  <2>1. s \in Nat
    BY <1>3, AckInRange DEF DurableAck
  <2> QED
    BY <1>3, <2>1, AckKeepsSuffix DEF DurableAck
<1>4. ASSUME NEW r \in Runs, Cancel(r)
      PROVE  OutboxIsUnackedSuffix'
  BY <1>4, CancelKeepsSuffix
<1>5. ASSUME UNCHANGED storeVars
      PROVE  OutboxIsUnackedSuffix'
  BY <1>5 DEF storeVars, StoreInv, OutboxIsUnackedSuffix, KnownRuns,
              HoldsUnackedSuffix, OutboxSeqs
<1>6. OutboxIsUnackedSuffix'
  BY <1>1, <1>2, <1>3, <1>4, <1>5 DEF StoreNext
<1> QED
  BY <1>6, TypingStep DEF StoreInv

LEMMA StoreInvariance == StoreSpec => []StoreInv
  BY StoreInitInv, StoreStepInv, PTL DEF StoreSpec

-----------------------------------------------------------------------------
(* The theorems *)

\* The tables keep their declared shape.
THEOREM StoreTyping == StoreSpec => []StoreTypeOK
  BY StoreInvariance, PTL DEF StoreInv

\* The outbox of every run is its unacknowledged suffix, for any number of
\* runs, commands and events: what Pending resends has no gap and no excess.
THEOREM StoreUnackedSuffix == StoreSpec => []OutboxIsUnackedSuffix
  BY StoreInvariance, PTL DEF StoreInv

\* An event leaves the outbox only when the watermark has reached it, and
\* neither the watermark nor the sequence counter ever goes back, whatever the
\* interleaving of appends, cancellations and repeated acknowledgements.
THEOREM StoreReleasesOnlyAcked == StoreSpec => ReleasesOnlyAcked
<1> DEFINE Kept == /\ \A e \in resultOutbox \ resultOutbox' :
                         /\ e.run \in KnownRuns'
                         /\ e.seq <= agentRuns'[e.run].acked
                   /\ \A r \in KnownRuns :
                         /\ r \in KnownRuns'
                         /\ agentRuns[r].acked <= agentRuns'[r].acked
                         /\ agentRuns[r].next <= agentRuns'[r].next
<1>1. ASSUME StoreInv, [StoreNext]_storeVars
      PROVE  [Kept]_storeVars
  <2>1. \A r \in KnownRuns : agentRuns[r].acked \in Nat /\ agentRuns[r].next \in Nat
    BY <1>1, SMT DEF StoreInv, StoreTypeOK, RunRow
  <2>2. ASSUME NEW r \in Runs, NEW c \in Commands, NEW p \in Payloads,
               PrepareRun(r, c, p)
        PROVE  Kept
    <3>1. /\ DOMAIN agentRuns' = DOMAIN agentRuns \cup {r}
          /\ \A q \in DOMAIN agentRuns : agentRuns'[q] = agentRuns[q]
          /\ resultOutbox' = resultOutbox
      BY <1>1, <2>2, PrepareRunEffect
    <3> QED
      BY <2>1, <3>1, SMT DEF KnownRuns
  <2>3. ASSUME NEW r \in Runs, NEW t \in EventTypes, AppendEvent(r, t)
        PROVE  Kept
    <3>1. r \in KnownRuns /\ InsertEvent(r, agentRuns[r].next, t)
      BY <2>3 DEF AppendEvent
    <3>2. /\ DOMAIN agentRuns' = DOMAIN agentRuns
          /\ agentRuns'[r].next = agentRuns[r].next + 1
          /\ agentRuns'[r].acked = agentRuns[r].acked
          /\ \A q \in DOMAIN agentRuns : q # r => agentRuns'[q] = agentRuns[q]
          /\ resultOutbox \subseteq resultOutbox'
      BY <1>1, <3>1, InsertEventEffect
    <3> QED
      BY <2>1, <3>1, <3>2, SMT DEF KnownRuns
  <2>4. ASSUME NEW r \in Runs, NEW s \in AckSequences, DurableAck(r, s)
        PROVE  Kept
    <3>1. r \in KnownRuns /\ s \in Nat /\ ReleaseUpTo(r, s)
      BY <2>4, AckInRange DEF DurableAck
    <3>2. /\ DOMAIN agentRuns' = DOMAIN agentRuns
          /\ agentRuns'[r].next = agentRuns[r].next
          /\ agentRuns'[r].acked = MaxOf(agentRuns[r].acked, s)
          /\ \A q \in DOMAIN agentRuns : q # r => agentRuns'[q] = agentRuns[q]
          /\ resultOutbox' = {e \in resultOutbox : ~ (e.run = r /\ e.seq <= s)}
      BY <1>1, <3>1, ReleaseUpToEffect
    <3>3. s <= agentRuns'[r].acked /\ agentRuns[r].acked <= agentRuns'[r].acked
      BY <2>1, <3>1, <3>2, SMT DEF MaxOf
    <3>4. \A e \in resultOutbox \ resultOutbox' :
             e.run \in KnownRuns' /\ e.seq <= agentRuns'[e.run].acked
      <4> TAKE e \in resultOutbox \ resultOutbox'
      <4>1. e.run = r /\ e.seq <= s /\ e.seq \in Nat
        BY <1>1, <3>2, SMT DEF StoreInv, StoreTypeOK, OutboxRow
      <4>2. agentRuns'[r].acked \in Nat
        BY <2>1, <3>1, <3>2, SMT DEF MaxOf
      <4> QED
        BY <3>1, <3>2, <3>3, <4>1, <4>2, SMT DEF KnownRuns
    <3> QED
      BY <2>1, <3>1, <3>2, <3>3, <3>4, SMT DEF KnownRuns
  <2>5. ASSUME NEW r \in Runs, Cancel(r)
        PROVE  Kept
    <3>1. /\ DOMAIN agentRuns' = DOMAIN agentRuns
          /\ \A q \in DOMAIN agentRuns :
                /\ agentRuns'[q].next = agentRuns[q].next
                /\ agentRuns'[q].acked = agentRuns[q].acked
          /\ resultOutbox' = resultOutbox
      BY <1>1, <2>5, CancelEffect
    <3> QED
      BY <2>1, <3>1, SMT DEF KnownRuns
  <2> HIDE DEF Kept
  <2>6. CASE StoreNext
    BY <2>2, <2>3, <2>4, <2>5, <2>6 DEF StoreNext
  <2>7. CASE UNCHANGED storeVars
    BY <2>7
  <2> QED
    BY <1>1, <2>6, <2>7
<1> QED
  BY <1>1, StoreInvariance, PTL DEF StoreSpec, ReleasesOnlyAcked
=============================================================================
