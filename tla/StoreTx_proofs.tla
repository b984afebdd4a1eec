--------------------------- MODULE StoreTx_proofs ---------------------------
(***************************************************************************)
(* Proof that overlapping transactions implement the atomic store.  What   *)
(* makes the commit of an append the atomic AppendEvent is that its read   *)
(* is still current (ReadStillCurrent), which in turn needs that only one  *)
(* transaction writes: a commit then puts every other open transaction     *)
(* behind, and those may no longer upgrade.                                *)
(***************************************************************************)
EXTENDS StoreTx, DurableStore_proofs

TxInv == StoreInv /\ TxTypeOK /\ ReadStillCurrent

\* What an open transaction has read is what the tables hold now.
Current(c) ==
    /\ tx[c].run \in KnownRuns
    /\ tx[c].next = agentRuns[tx[c].run].next
    /\ tx[c].op = "append" => tx[c].next <= MaxEvents
    /\ tx[c].op = "ack" => InAckRange(tx[c].seq, tx[c].next)

LEMMA ReadStillCurrentParts ==
  ReadStillCurrent <=>
     /\ \A c, d \in Conns : Holds(c) /\ Holds(d) => c = d
     /\ \A c \in Conns : Open(c) /\ (Holds(c) \/ c \notin stale) => Current(c)
  BY DEF ReadStillCurrent, Current

\* Nothing is open at first.
LEMMA TxInitInv == TxInit => TxInv
<1> SUFFICES ASSUME TxInit PROVE TxInv
  OBVIOUS
<1>1. StoreInv
  BY StoreInitInv DEF TxInit
<1>2. \A c \in Conns : ~ Open(c)
  BY DEF TxInit, Open
<1>3. TxTypeOK
  BY <1>1, <1>2 DEF TxInit, TxTypeOK, StoreInv
<1>4. ReadStillCurrent
  BY <1>2 DEF ReadStillCurrent, Holds
<1> QED
  BY <1>1, <1>3, <1>4 DEF TxInv

-----------------------------------------------------------------------------
(* Every step is a step of the atomic store, or leaves its tables alone. *)

\* A committing append has read the counter that is current.
LEMMA CommitAppendIsAppend ==
  ASSUME TxInv, NEW c \in Conns, CommitAppend(c)
  PROVE  AppendEvent(tx[c].run, tx[c].type) /\ tx[c].run \in Runs
                                            /\ tx[c].type \in EventTypes
<1>1. Open(c) /\ Holds(c) /\ tx[c].op = "append"
  BY DEF CommitAppend, Holds
<1>2. tx[c] \in AppendTx
  BY <1>1, SMT DEF TxInv, TxTypeOK, AckTx, AppendTx, Open
<1>3. Current(c)
  BY <1>1, ReadStillCurrentParts DEF TxInv
<1>4. tx[c].run \in Runs /\ tx[c].type \in EventTypes
  BY <1>2, SMT DEF AppendTx
<1> QED
  BY <1>1, <1>3, <1>4 DEF CommitAppend, AppendEvent, Current

\* A committing acknowledgement is still in the range it was checked against.
LEMMA CommitAckIsAck ==
  ASSUME TxInv, NEW c \in Conns, CommitAck(c)
  PROVE  DurableAck(tx[c].run, tx[c].seq) /\ tx[c].run \in Runs
                                          /\ tx[c].seq \in 0..MaxEvents
<1>1. Open(c) /\ Holds(c) /\ tx[c].op = "ack"
  BY DEF CommitAck, Holds
<1>2. tx[c] \in AckTx
  BY <1>1, SMT DEF TxInv, TxTypeOK, AckTx, AppendTx, Open
<1>3. Current(c)
  BY <1>1, ReadStillCurrentParts DEF TxInv
<1>4. tx[c].run \in Runs /\ tx[c].seq \in 0..MaxEvents
  BY <1>2, SMT DEF AckTx
<1> QED
  BY <1>1, <1>3, <1>4 DEF CommitAck, DurableAck, Current

LEMMA TxStepIsStoreStep ==
  ASSUME TxInv, [TxNext]_txVars
  PROVE  [StoreNext]_storeVars
<1>1. ASSUME NEW c \in Conns, NEW r \in Runs, NEW t \in EventTypes,
             BeginAppend(c, r, t)
      PROVE  [StoreNext]_storeVars
  BY <1>1 DEF BeginAppend, storeVars
<1>2. ASSUME NEW c \in Conns, NEW r \in Runs, NEW s \in AckSequences,
             BeginAck(c, r, s)
      PROVE  [StoreNext]_storeVars
  BY <1>2 DEF BeginAck, storeVars
<1>3. ASSUME NEW c \in Conns, Upgrade(c)
      PROVE  [StoreNext]_storeVars
  BY <1>3 DEF Upgrade, storeVars
<1>4. ASSUME NEW c \in Conns, CommitAppend(c)
      PROVE  [StoreNext]_storeVars
  BY <1>4, CommitAppendIsAppend DEF StoreNext
<1>5. ASSUME NEW c \in Conns, CommitAck(c)
      PROVE  [StoreNext]_storeVars
  BY <1>5, CommitAckIsAck, AckableSequences DEF StoreNext
<1>6. ASSUME NEW c \in Conns, Rollback(c)
      PROVE  [StoreNext]_storeVars
  BY <1>6 DEF Rollback, storeVars
<1>7. ASSUME NEW c \in Conns, NEW r \in Runs, NEW k \in Commands,
             NEW p \in Payloads, PrepareRunTx(c, r, k, p)
      PROVE  [StoreNext]_storeVars
  BY <1>7 DEF PrepareRunTx, StoreNext
<1>8. ASSUME NEW c \in Conns, NEW r \in Runs, CancelTx(c, r)
      PROVE  [StoreNext]_storeVars
  BY <1>8 DEF CancelTx, StoreNext
<1>9. ASSUME Crash
      PROVE  [StoreNext]_storeVars
  BY <1>9 DEF Crash, storeVars
<1>10. ASSUME UNCHANGED txVars
       PROVE  [StoreNext]_storeVars
  BY <1>10 DEF txVars, storeVars
<1> QED
  BY <1>1, <1>2, <1>3, <1>4, <1>5, <1>6, <1>7, <1>8, <1>9, <1>10,
     AppendedAssumption DEF TxNext

-----------------------------------------------------------------------------
(* The invariant *)

\* After a commit by c every other open transaction is behind and none writes,
\* so nothing is left that could hold an outdated read.
LEMMA CommitKeepsReads ==
  ASSUME TxInv, NEW c \in Conns, OthersFallBehind(c),
         tx' \in [Conns -> AppendTx \cup AckTx \cup {NoTx}],
         tx'[c] = NoTx,
         \A d \in Conns \ {c} : tx'[d] = tx[d] /\ ~ Holds(d)
  PROVE  /\ stale' \subseteq {d \in Conns : Open(d)}'
         /\ ReadStillCurrent'
<1>1. ~ Open(c)' /\ ~ Holds(c)'
  BY DEF Open, Holds
<1>2. \A d \in Conns \ {c} : /\ Open(d)' <=> Open(d)
                             /\ ~ Holds(d)'
  BY DEF Open, Holds
<1>3. stale' = {d \in Conns \ {c} : Open(d)}
  BY DEF OthersFallBehind
<1>4. stale' \subseteq {d \in Conns : Open(d)}'
  BY <1>2, <1>3
<1>5. \A d \in Conns : ~ (Open(d)' /\ (Holds(d)' \/ d \notin stale'))
  BY <1>1, <1>2, <1>3
<1>6. \A d, e \in Conns : ~ (Holds(d)' /\ Holds(e)')
  BY <1>1, <1>2
<1> QED
  BY <1>4, <1>5, <1>6 DEF ReadStillCurrent

\* A new reader sees the last commit.
LEMMA BeginKeepsReads ==
  ASSUME TxInv, NEW c \in Conns, ~ Open(c),
         NEW x \in AppendTx \cup AckTx,
         x.phase = "read", x.run \in KnownRuns,
         x.next = agentRuns[x.run].next,
         x.op = "append" => x.next <= MaxEvents,
         x.op = "ack" => InAckRange(x.seq, x.next),
         tx' = [tx EXCEPT ![c] = x],
         UNCHANGED <<agentRuns, resultOutbox, stale>>
  PROVE  TxTypeOK' /\ ReadStillCurrent'
<1>1. x # NoTx
  BY SMT DEF AppendTx, AckTx, NoTx
<1>2. tx \in [Conns -> AppendTx \cup AckTx \cup {NoTx}]
  BY DEF TxInv, TxTypeOK
<1>3. /\ tx' \in [Conns -> AppendTx \cup AckTx \cup {NoTx}]
      /\ tx'[c] = x
      /\ \A d \in Conns : d # c => tx'[d] = tx[d]
  BY <1>2
<1>4. Open(c)' /\ ~ Holds(c)'
  BY <1>1, <1>3 DEF Open, Holds
<1>5. \A d \in Conns : d # c => (Open(d)' <=> Open(d)) /\ (Holds(d)' <=> Holds(d))
  BY <1>3 DEF Open, Holds
<1>6. stale' \subseteq {d \in Conns : Open(d)}'
  BY <1>4, <1>5 DEF TxInv, TxTypeOK
<1>7. StoreTypeOK'
  BY DEF TxInv, TxTypeOK, StoreTypeOK, KnownRuns
<1>8. Current(c)'
  BY <1>3 DEF Current, KnownRuns
<1>9. \A d \in Conns : d # c =>
         (Open(d)' /\ (Holds(d)' \/ d \notin stale') => Current(d)')
  <2>1. \A d \in Conns : d # c => (Current(d)' <=> Current(d))
    BY <1>3 DEF Current, KnownRuns
  <2> QED
    BY <1>5, <2>1, ReadStillCurrentParts DEF TxInv
<1>10. \A d, e \in Conns : Holds(d)' /\ Holds(e)' => d = e
  BY <1>4, <1>5, ReadStillCurrentParts DEF TxInv
<1>11. ReadStillCurrent'
  BY <1>8, <1>9, <1>10 DEF ReadStillCurrent, Current
<1> QED
  BY <1>3, <1>6, <1>7, <1>11 DEF TxTypeOK

LEMMA TxStepInv ==
  ASSUME TxInv, [TxNext]_txVars
  PROVE  TxInv'
<1>1. StoreInv'
  BY TxStepIsStoreStep, StoreStepInv DEF TxInv
<1>2. StoreTypeOK'
  BY <1>1 DEF StoreInv
<1>3. tx \in [Conns -> AppendTx \cup AckTx \cup {NoTx}]
  BY DEF TxInv, TxTypeOK
<1>4. ASSUME NEW c \in Conns, NEW r \in Runs, NEW t \in EventTypes,
             BeginAppend(c, r, t)
      PROVE  TxTypeOK' /\ ReadStillCurrent'
  <2> DEFINE x == [op |-> "append", run |-> r, type |-> t,
                   next |-> agentRuns[r].next, phase |-> "read"]
  <2>1. r \in KnownRuns /\ agentRuns[r].next \in Nat
    BY <1>4, SMT DEF BeginAppend, TxInv, StoreInv, StoreTypeOK, RunRow
  <2>2. x \in AppendTx
    BY <2>1, SMT DEF AppendTx
  <2>3. /\ x.phase = "read" /\ x.run \in KnownRuns
        /\ x.next = agentRuns[x.run].next
        /\ x.next <= MaxEvents /\ x.op # "ack"
    BY <1>4, <2>1 DEF BeginAppend
  <2>4. ~ Open(c) /\ tx' = [tx EXCEPT ![c] = x]
        /\ UNCHANGED <<agentRuns, resultOutbox, stale>>
    BY <1>4 DEF BeginAppend
  <2> HIDE DEF x
  <2> QED
    BY <2>2, <2>3, <2>4, BeginKeepsReads
<1>5. ASSUME NEW c \in Conns, NEW r \in Runs, NEW s \in AckSequences,
             BeginAck(c, r, s)
      PROVE  TxTypeOK' /\ ReadStillCurrent'
  <2> DEFINE x == [op |-> "ack", run |-> r, seq |-> s,
                   next |-> agentRuns[r].next, phase |-> "read"]
  <2>1. r \in KnownRuns /\ agentRuns[r].next \in Nat
    BY <1>5, SMT DEF BeginAck, TxInv, StoreInv, StoreTypeOK, RunRow
  <2>2. x \in AckTx
    <3>1. s \in 0..MaxEvents
      BY <1>5, AckInRange DEF BeginAck
    <3> QED
      BY <2>1, <3>1, SMT DEF AckTx
  <2>3. /\ x.phase = "read" /\ x.run \in KnownRuns
        /\ x.next = agentRuns[x.run].next
        /\ InAckRange(x.seq, x.next) /\ x.op # "append"
    BY <1>5, <2>1 DEF BeginAck
  <2>4. ~ Open(c) /\ tx' = [tx EXCEPT ![c] = x]
        /\ UNCHANGED <<agentRuns, resultOutbox, stale>>
    BY <1>5 DEF BeginAck
  <2> HIDE DEF x
  <2> QED
    BY <2>2, <2>3, <2>4, BeginKeepsReads
<1>6. ASSUME NEW c \in Conns, Upgrade(c)
      PROVE  TxTypeOK' /\ ReadStillCurrent'
  <2> DEFINE x == [tx[c] EXCEPT !.phase = "write"]
  <2>1. Open(c) /\ tx[c] \in AppendTx \cup AckTx /\ c \notin stale
    BY <1>3, <1>6 DEF Upgrade, MayUpgrade, Open
  <2>2. /\ x \in AppendTx \cup AckTx /\ x.phase = "write"
        /\ x.op = tx[c].op /\ x.run = tx[c].run /\ x.next = tx[c].next
        /\ x.op = "ack" => x.seq = tx[c].seq
    BY <2>1, SMT DEF AppendTx, AckTx
  <2>3. tx' = [tx EXCEPT ![c] = x] /\ UNCHANGED <<agentRuns, resultOutbox, stale>>
    BY <1>6 DEF Upgrade
  <2> HIDE DEF x
  <2>4. x # NoTx
    BY <2>2, SMT DEF AppendTx, AckTx, NoTx
  <2>5. /\ tx' \in [Conns -> AppendTx \cup AckTx \cup {NoTx}]
        /\ tx'[c] = x
        /\ \A d \in Conns : d # c => tx'[d] = tx[d]
    BY <1>3, <2>2, <2>3
  <2>6. Open(c)' /\ \A d \in Conns : d # c =>
           /\ Open(d)' <=> Open(d)
           /\ ~ Holds(d)'
    BY <1>6, <2>4, <2>5 DEF Open, Holds, Upgrade, MayUpgrade, WriterFree
  <2>7. stale' \subseteq {d \in Conns : Open(d)}'
    BY <2>1, <2>3, <2>6 DEF TxInv, TxTypeOK
  <2>8. Current(c)'
    <3>1. Current(c)
      BY <2>1, ReadStillCurrentParts DEF TxInv
    <3> QED
      BY <2>2, <2>3, <2>5, <3>1 DEF Current, KnownRuns
  <2>9. \A d \in Conns : d # c => (Open(d)' /\ d \notin stale' => Current(d)')
    <3>1. \A d \in Conns : d # c => (Current(d)' <=> Current(d))
      BY <2>3, <2>5 DEF Current, KnownRuns
    <3> QED
      BY <2>3, <2>6, <3>1, ReadStillCurrentParts DEF TxInv
  <2>10. ReadStillCurrent'
    BY <2>6, <2>8, <2>9 DEF ReadStillCurrent, Current
  <2> QED
    BY <1>2, <2>5, <2>7, <2>10 DEF TxTypeOK
<1>7. ASSUME NEW c \in Conns, CommitAppend(c) \/ CommitAck(c)
      PROVE  TxTypeOK' /\ ReadStillCurrent'
  <2>1. Holds(c) /\ tx' = [tx EXCEPT ![c] = NoTx] /\ OthersFallBehind(c)
    BY <1>7 DEF CommitAppend, CommitAck
  <2>2. \A d \in Conns \ {c} : tx'[d] = tx[d] /\ ~ Holds(d)
    BY <1>3, <2>1, ReadStillCurrentParts DEF TxInv
  <2>3. tx'[c] = NoTx /\ tx' \in [Conns -> AppendTx \cup AckTx \cup {NoTx}]
    BY <1>3, <2>1
  <2> QED
    BY <1>2, <2>1, <2>2, <2>3, CommitKeepsReads DEF TxTypeOK
<1>8. ASSUME NEW c \in Conns, Rollback(c)
      PROVE  TxTypeOK' /\ ReadStillCurrent'
  <2>1. /\ tx' \in [Conns -> AppendTx \cup AckTx \cup {NoTx}]
        /\ tx'[c] = NoTx
        /\ \A d \in Conns : d # c => tx'[d] = tx[d]
        /\ stale' = stale \ {c}
        /\ UNCHANGED <<agentRuns, resultOutbox>>
    BY <1>3, <1>8 DEF Rollback
  <2>2. ~ Open(c)' /\ ~ Holds(c)'
    BY <2>1 DEF Open, Holds
  <2>3. \A d \in Conns : d # c => /\ Open(d)' <=> Open(d)
                                  /\ Holds(d)' <=> Holds(d)
                                  /\ Current(d)' <=> Current(d)
    BY <2>1 DEF Open, Holds, Current, KnownRuns
  <2>4. stale' \subseteq {d \in Conns : Open(d)}'
    BY <2>1, <2>3 DEF TxInv, TxTypeOK
  <2>5. \A d \in Conns : Open(d)' /\ (Holds(d)' \/ d \notin stale') => Current(d)'
    BY <2>1, <2>2, <2>3, ReadStillCurrentParts DEF TxInv
  <2>6. \A d, e \in Conns : Holds(d)' /\ Holds(e)' => d = e
    BY <2>2, <2>3, ReadStillCurrentParts DEF TxInv
  <2>7. ReadStillCurrent'
    BY <2>5, <2>6 DEF ReadStillCurrent, Current
  <2> QED
    BY <1>2, <2>1, <2>4, <2>7 DEF TxTypeOK
<1>9. ASSUME NEW c \in Conns, ~ Open(c), WriterFree, OthersFallBehind(c),
             UNCHANGED tx
      PROVE  TxTypeOK' /\ ReadStillCurrent'
  <2>1. tx'[c] = NoTx /\ tx' \in [Conns -> AppendTx \cup AckTx \cup {NoTx}]
    BY <1>3, <1>9 DEF Open
  <2>2. \A d \in Conns \ {c} : tx'[d] = tx[d] /\ ~ Holds(d)
    BY <1>9 DEF WriterFree
  <2> QED
    BY <1>2, <1>9, <2>1, <2>2, CommitKeepsReads DEF TxTypeOK
<1>10. ASSUME NEW c \in Conns, NEW r \in Runs, NEW k \in Commands,
              NEW p \in Payloads, PrepareRunTx(c, r, k, p)
       PROVE  TxTypeOK' /\ ReadStillCurrent'
  BY <1>9, <1>10 DEF PrepareRunTx
<1>11. ASSUME NEW c \in Conns, NEW r \in Runs, CancelTx(c, r)
       PROVE  TxTypeOK' /\ ReadStillCurrent'
  BY <1>9, <1>11 DEF CancelTx
<1>12. ASSUME Crash
       PROVE  TxTypeOK' /\ ReadStillCurrent'
  BY <1>2, <1>12 DEF Crash, TxTypeOK, ReadStillCurrent, Open, Holds
<1>13. ASSUME UNCHANGED txVars
       PROVE  TxTypeOK' /\ ReadStillCurrent'
  <2>1. \A d \in Conns : /\ Open(d)' <=> Open(d)
                         /\ Holds(d)' <=> Holds(d)
                         /\ Current(d)' <=> Current(d)
    BY <1>13 DEF txVars, Open, Holds, Current, KnownRuns
  <2>2. ReadStillCurrent'
    BY <1>13, <2>1, ReadStillCurrentParts
       DEF txVars, TxInv, ReadStillCurrent, Current
  <2> QED
    BY <1>2, <1>13, <2>1, <2>2 DEF txVars, TxInv, TxTypeOK
<1>14. TxTypeOK' /\ ReadStillCurrent'
  BY <1>4, <1>5, <1>6, <1>7, <1>8, <1>10, <1>11, <1>12, <1>13,
     AppendedAssumption DEF TxNext
<1> QED
  BY <1>1, <1>14 DEF TxInv

LEMMA TxInvariance == TxSpec => []TxInv
  BY TxInitInv, TxStepInv, PTL DEF TxSpec

-----------------------------------------------------------------------------
(* The theorems *)

\* What is open has read a row that there is, and only open transactions can be behind.
THEOREM TxTyping == TxSpec => []TxTypeOK
  BY TxInvariance, PTL DEF TxInv

\* No transaction writes on a read that another commit has overtaken, for any
\* number of connections.
THEOREM TxReadsStayCurrent == TxSpec => []ReadStillCurrent
  BY TxInvariance, PTL DEF TxInv

\* Overlapping transactions, rollbacks and crashes implement the atomic store:
\* every theorem about StoreSpec holds of the store as it really runs.
THEOREM TxImplementsStore == TxSpec => AtomicStore
<1>1. TxInit => StoreInit
  BY DEF TxInit
<1> QED
  BY <1>1, TxInvariance, TxStepIsStoreStep, PTL DEF TxSpec, StoreSpec, AtomicStore
=============================================================================
