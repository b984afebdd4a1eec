------------------------------- MODULE StoreTx -------------------------------
(***************************************************************************)
(* DurableStore with the transactions of internal/durable/store.go taken   *)
(* apart.  database/sql hands every transaction a pooled connection of its *)
(* own; BeginTx(ctx, nil) opens a deferred transaction of a WAL database:  *)
(* the first SELECT fixes the snapshot it reads, the first write needs the *)
(* single writer lock and a snapshot that is still the last commit.  When  *)
(* either is missing the statement fails at once (the busy handler is not  *)
(* run for a transaction that already reads) and the deferred Rollback     *)
(* ends the transaction.                                                   *)
(*                                                                         *)
(* The handler goroutine (acks, run.accepted, rejections), the goroutine   *)
(* of the running turn and the replay ticker use the store at once.        *)
(***************************************************************************)
EXTENDS DurableStore

CONSTANTS
    Conns,       \* connections of the pool that are used at once
    Appended     \* bound: the types of the events that are appended

ASSUME AppendedAssumption == Appended \subseteq EventTypes

VARIABLES
    tx,       \* tx[c]: the open transaction of connection c, or NoTx
    stale     \* connections whose snapshot is behind the last commit

txVars == <<agentRuns, resultOutbox, tx, stale>>

NoTx == [op |-> "none"]

\* next is the next_agent_sequence that the SELECT returned; the phase is
\* "write" from the first write on, while the writer lock is held.
AppendTx == [op : {"append"}, run : Runs, type : EventTypes, next : Nat,
             phase : {"read", "write"}]
AckTx == [op : {"ack"}, run : Runs, seq : 0..MaxEvents, next : Nat,
          phase : {"read", "write"}]

Open(c) == tx[c] # NoTx
Holds(c) == Open(c) /\ tx[c].phase = "write"
WriterFree == \A c \in Conns : ~ Holds(c)

\* A commit leaves every other open transaction on an old snapshot.
OthersFallBehind(c) == stale' = {d \in Conns \ {c} : Open(d)}

-----------------------------------------------------------------------------
\* AppendEvent: BeginTx and the SELECT; an unknown run is an error.
BeginAppend(c, r, t) ==
    /\ ~ Open(c)
    /\ r \in KnownRuns
    /\ agentRuns[r].next <= MaxEvents
    /\ tx' = [tx EXCEPT ![c] = [op |-> "append", run |-> r, type |-> t,
                                next |-> agentRuns[r].next, phase |-> "read"]]
    /\ UNCHANGED <<agentRuns, resultOutbox, stale>>

\* DurableAck: BeginTx, the SELECT and the range check on what it returned.
BeginAck(c, r, s) ==
    /\ ~ Open(c)
    /\ r \in KnownRuns
    /\ InAckRange(s, agentRuns[r].next)
    /\ tx' = [tx EXCEPT ![c] = [op |-> "ack", run |-> r, seq |-> s,
                                next |-> agentRuns[r].next, phase |-> "read"]]
    /\ UNCHANGED <<agentRuns, resultOutbox, stale>>

MayUpgradeStale(c) ==              \* mutant: an old snapshot may write
    WriterFree

MayUpgradeLocked(c) ==             \* mutant: no writer lock
    c \notin stale

\* What the WAL asks of a reading transaction at its first write.
MayUpgrade(c) == WriterFree /\ c \notin stale

Upgrade(c) ==
    /\ Open(c) /\ tx[c].phase = "read"
    /\ MayUpgrade(c)
    /\ tx' = [tx EXCEPT ![c].phase = "write"]
    /\ UNCHANGED <<agentRuns, resultOutbox, stale>>

\* The writes become visible to the other connections together.
CommitAppend(c) ==
    /\ Holds(c) /\ tx[c].op = "append"
    /\ InsertEvent(tx[c].run, tx[c].next, tx[c].type)
    /\ tx' = [tx EXCEPT ![c] = NoTx]
    /\ OthersFallBehind(c)

CommitAck(c) ==
    /\ Holds(c) /\ tx[c].op = "ack"
    /\ ReleaseUpTo(tx[c].run, tx[c].seq)
    /\ tx' = [tx EXCEPT ![c] = NoTx]
    /\ OthersFallBehind(c)

\* SQLITE_BUSY, SQLITE_BUSY_SNAPSHOT or a cancelled context.
Rollback(c) ==
    /\ Open(c)
    /\ tx' = [tx EXCEPT ![c] = NoTx]
    /\ stale' = stale \ {c}
    /\ UNCHANGED <<agentRuns, resultOutbox>>

\* Single statements commit on their own, on a connection without snapshot.
PrepareRunTx(c, r, k, p) ==
    /\ ~ Open(c) /\ WriterFree
    /\ PrepareRun(r, k, p)
    /\ OthersFallBehind(c)
    /\ UNCHANGED tx

CancelTx(c, r) ==
    /\ ~ Open(c) /\ WriterFree
    /\ Cancel(r)
    /\ OthersFallBehind(c)
    /\ UNCHANGED tx

\* The process dies; uncommitted frames of the log are ignored at reopening.
Crash ==
    /\ tx' = [c \in Conns |-> NoTx]
    /\ stale' = {}
    /\ UNCHANGED <<agentRuns, resultOutbox>>

-----------------------------------------------------------------------------
TxInit ==
    /\ StoreInit
    /\ tx = [c \in Conns |-> NoTx]
    /\ stale = {}

TxNext ==
    \/ \E c \in Conns, r \in Runs, t \in Appended : BeginAppend(c, r, t)
    \/ \E c \in Conns, r \in Runs, s \in AckSequences : BeginAck(c, r, s)
    \/ \E c \in Conns : \/ Upgrade(c)
                        \/ CommitAppend(c)
                        \/ CommitAck(c)
                        \/ Rollback(c)
    \/ \E c \in Conns, r \in Runs, k \in Commands, p \in Payloads :
          PrepareRunTx(c, r, k, p)
    \/ \E c \in Conns, r \in Runs : CancelTx(c, r)
    \/ Crash

TxSpec == TxInit /\ [][TxNext]_txVars

-----------------------------------------------------------------------------
(* Properties *)

\* Open transactions, and the connections left behind by a commit.
TxTypeOK ==
    /\ StoreTypeOK
    /\ tx \in [Conns -> AppendTx \cup AckTx \cup {NoTx}]
    /\ stale \subseteq {c \in Conns : Open(c)}

\* The sequence an append has read is still the next one when it may write it,
\* and an acknowledgement's range check still holds when it deletes: the reads
\* of AppendEvent and DurableAck cannot go stale under their own writes, for
\* there is one writer at a time and only a current reader becomes the writer.
ReadStillCurrent ==
    /\ \A c, d \in Conns : Holds(c) /\ Holds(d) => c = d
    /\ \A c \in Conns :
          Open(c) /\ (Holds(c) \/ c \notin stale) =>
            /\ tx[c].run \in KnownRuns
            /\ tx[c].next = agentRuns[tx[c].run].next
            /\ tx[c].op = "append" => tx[c].next <= MaxEvents
            /\ tx[c].op = "ack" => InAckRange(tx[c].seq, tx[c].next)

\* Overlapping transactions commit as if each had run alone: this module
\* implements DurableStore, with the same tables.
AtomicStore == StoreSpec
=============================================================================
