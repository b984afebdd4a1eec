---------------------------- MODULE DurableStore ----------------------------
(***************************************************************************)
(* The agent's SQLite store (internal/durable/store.go) with every         *)
(* transaction taken as one atomic step.  Two tables matter to delivery:   *)
(*                                                                         *)
(*   agent_runs     one row per run the server started on this agent, with *)
(*                  the command that started it, the next event sequence,  *)
(*                  the acknowledged watermark and the final sequence;     *)
(*   result_outbox  one row per event that is not yet known to be durable  *)
(*                  on the server.                                         *)
(*                                                                         *)
(* StoreTx refines this module with transactions that overlap;             *)
(* RunDelivery composes it with the relay connection and the handler.      *)
(* The bootstrap_syncs table is modelled in Bootstrap.                     *)
(***************************************************************************)
EXTENDS Integers, FiniteSets

CONSTANTS
    Runs,        \* run ids the server may use
    Commands,    \* ids of turn.start commands
    Payloads,    \* serialised turn.start payloads
    MaxEvents    \* bound on the events of one run

ASSUME MaxEventsAssumption == MaxEvents \in Nat

\* Events that close a run: the types AppendEvent treats as terminal.
TerminalTypes == {"turn.completed", "turn.failed", "turn.interrupted"}

\* "turn.event" stands for turn.started, turn.output and the turn.item.* types,
\* which the store does not tell apart.
EventTypes == {"run.accepted", "turn.event", "turn.rejected"} \cup TerminalTypes

VARIABLES
    agentRuns,      \* table agent_runs, keyed by run_id
    resultOutbox    \* table result_outbox, a set of rows

storeVars == <<agentRuns, resultOutbox>>

\* The columns of agent_runs that the code reads or that a property needs.
\* final = 0 is a NULL final_sequence; status is 'terminal' iff final # 0.
RunRow == [command : Commands, payload : Payloads, cancelRequested : {0, 1},
           next : Nat, acked : Nat, final : Nat]

OutboxRow == [run : Runs, seq : Nat, type : EventTypes]

KnownRuns == DOMAIN agentRuns

-----------------------------------------------------------------------------
(* PrepareRun *)

NewRow(c, p) == [command |-> c, payload |-> p, cancelRequested |-> 0,
                 next |-> 1, acked |-> 0, final |-> 0]

\* INSERT OR IGNORE takes effect only when neither key is in use: run_id is
\* the primary key and start_command_id is UNIQUE.
InsertsRun(r, c) ==
    /\ r \notin KnownRuns
    /\ \A q \in KnownRuns : agentRuns[q].command # c

\* A redelivered turn.start: the row exists with this command and payload.
\* Anything else that does not insert is reported as an error.
IsDuplicate(r, c, p) ==
    /\ r \in KnownRuns
    /\ agentRuns[r].command = c
    /\ agentRuns[r].payload = p

PrepareRun(r, c, p) ==
    /\ InsertsRun(r, c)
    /\ agentRuns' = [q \in KnownRuns \cup {r} |->
                        IF q = r THEN NewRow(c, p) ELSE agentRuns[q]]
    /\ UNCHANGED resultOutbox

-----------------------------------------------------------------------------
(* AppendEvent *)

\* The UPDATE of agent_runs that follows the INSERT into the outbox.
Counted(row, q) == [row EXCEPT !.next = q + 1]

AdvanceRow(row, q, t) ==
    IF t \in TerminalTypes THEN [Counted(row, q) EXCEPT !.final = q]
                           ELSE Counted(row, q)

\* The writes of AppendEvent, for the sequence q it has read.  The primary
\* key (run_id, agent_sequence) refuses a second row with the same sequence.
InsertEvent(r, q, t) ==
    /\ ~ \E e \in resultOutbox : e.run = r /\ e.seq = q
    /\ resultOutbox' = resultOutbox \cup {[run |-> r, seq |-> q, type |-> t]}
    /\ agentRuns' = [agentRuns EXCEPT ![r] = AdvanceRow(@, q, t)]

AppendEvent(r, t) ==
    /\ r \in KnownRuns
    /\ agentRuns[r].next <= MaxEvents
    /\ InsertEvent(r, agentRuns[r].next, t)

-----------------------------------------------------------------------------
(* DurableAck, Pending, Cancel *)

InAckRangeUpperOnly(s, next) ==    \* mutant: no check for a negative sequence
    s < next

\* The range check, against the next_agent_sequence that was read.
InAckRange(s, next) == s >= 0 /\ s < next

\* Sequences an acknowledgement may name, one of them below every range.
AckSequences == (-1)..MaxEvents

MaxOf(a, b) == IF a >= b THEN a ELSE b

AdvanceAckBack(row, s) ==          \* mutant: a late acknowledgement wins
    [row EXCEPT !.acked = s]

\* An acknowledgement never moves the watermark back, however late it comes.
AdvanceAck(row, s) == [row EXCEPT !.acked = MaxOf(@, s)]

ReleasedByAnyRun(r, s) ==          \* mutant: DELETE without run_id
    {e \in resultOutbox : e.seq <= s}

ReleasedByNext(r, s) ==            \* mutant: one event too many
    {e \in resultOutbox : e.run = r /\ e.seq <= s + 1}

\* The DELETE of DurableAck.
ReleasedBy(r, s) == {e \in resultOutbox : e.run = r /\ e.seq <= s}

ReleaseUpTo(r, s) ==
    /\ agentRuns' = [agentRuns EXCEPT ![r] = AdvanceAck(@, s)]
    /\ resultOutbox' = resultOutbox \ ReleasedBy(r, s)

DurableAck(r, s) ==
    /\ r \in KnownRuns
    /\ InAckRange(s, agentRuns[r].next)
    /\ ReleaseUpTo(r, s)

PendingAfterNext ==                \* mutant: off by one
    {e \in resultOutbox :
        e.run \in KnownRuns /\ e.seq > agentRuns[e.run].acked + 1}

\* What Pending selects; its order is taken up where the rows are sent.
Pending == {e \in resultOutbox :
                e.run \in KnownRuns /\ e.seq > agentRuns[e.run].acked}

\* Nothing reads cancel_requested back.
CancelRow(row) == [row EXCEPT !.cancelRequested = 1]

Cancel(r) ==
    /\ r \in KnownRuns
    /\ agentRuns' = [agentRuns EXCEPT ![r] = CancelRow(@)]
    /\ UNCHANGED resultOutbox

-----------------------------------------------------------------------------
StoreInit ==
    /\ agentRuns = [r \in {} |-> NewRow(r, r)]
    /\ resultOutbox = {}

StoreNext ==
    \/ \E r \in Runs, c \in Commands, p \in Payloads : PrepareRun(r, c, p)
    \/ \E r \in Runs, t \in EventTypes : AppendEvent(r, t)
    \/ \E r \in Runs, s \in AckSequences : DurableAck(r, s)
    \/ \E r \in Runs : Cancel(r)

StoreSpec == StoreInit /\ [][StoreNext]_storeVars

-----------------------------------------------------------------------------
(* Properties *)

\* Both tables hold rows of their declared shape.
StoreTypeOK ==
    /\ KnownRuns \subseteq Runs
    /\ agentRuns \in [KnownRuns -> RunRow]
    /\ resultOutbox \subseteq OutboxRow

\* The sequences of the rows a run still has in the outbox.
OutboxSeqs(r) == {e.seq : e \in {x \in resultOutbox : x.run = r}}

HoldsUnackedSuffix(r) ==
    /\ agentRuns[r].acked < agentRuns[r].next
    /\ OutboxSeqs(r) = (agentRuns[r].acked + 1)..(agentRuns[r].next - 1)

\* Whatever order appends, late acknowledgements and repeated acknowledgements
\* come in, the outbox of a run is exactly the unacknowledged suffix of its
\* events: one row for every sequence from acked + 1 to next - 1 and nothing
\* else, so Pending resends all that the server has not confirmed, with no gap.
OutboxIsUnackedSuffix ==
    /\ \A e \in resultOutbox : e.run \in KnownRuns
    /\ \A e, f \in resultOutbox : e.run = f.run /\ e.seq = f.seq => e = f
    /\ \A r \in KnownRuns : HoldsUnackedSuffix(r)

\* An event leaves the outbox only when the watermark has reached it, the
\* watermark never goes back, and neither does the sequence counter: a
\* sequence that the server may have seen is never handed to a new event.
ReleasesOnlyAcked ==
    [][/\ \A e \in resultOutbox \ resultOutbox' :
             /\ e.run \in KnownRuns'
             /\ e.seq <= agentRuns'[e.run].acked
       /\ \A r \in KnownRuns :
             /\ r \in KnownRuns'
             /\ agentRuns[r].acked <= agentRuns'[r].acked
             /\ agentRuns[r].next <= agentRuns'[r].next]_storeVars
=============================================================================
