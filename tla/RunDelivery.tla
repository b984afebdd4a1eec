---------------------------- MODULE RunDelivery ----------------------------
(***************************************************************************)
(* Delivery of the events of a run, from the turn that produces them to    *)
(* the server: the durable store (DurableStore), the handler, the sink of  *)
(* the running turn and the replay ticker of internal/agent/service.go,    *)
(* and the session and outbound queue of internal/relay/client.go.         *)
(*                                                                         *)
(* Four goroutines publish into one bounded queue that drops when it is    *)
(* full: the handler, the turn, the replay ticker, and (through the        *)
(* initial messages of a session) the relay client itself.  The process    *)
(* may crash and the connection may break at any step; the store survives. *)
(*                                                                         *)
(* The server is external: it sends turn.start any number of times and     *)
(* acknowledges a sequence once it has every event of the run up to it.    *)
(* agent.status and replies to queries are left out: they are not durable. *)
(* Two kinds of message about a run do go out without an agent_sequence,   *)
(* recorded or not, and are modelled with the sequence 0: the copy of the  *)
(* last terminal message that an idle agent sends at the end of a session's*)
(* initial messages, and the turn.rejected that reject() publishes.        *)
(***************************************************************************)
EXTENDS DurableStore, Sequences

CONSTANTS
    QueueSize,         \* relay.Config.QueueSize
    Outcomes,          \* terminal types the turns of this instance end with
    Oversized,         \* event types larger than MaxMessageBytes when encoded
    SlowTicks,         \* TRUE: the 2 s ticker waits for an up session to drain
    MaxStarts,         \* bound on the turn.start messages the server sends
    MaxDisconnects,    \* bound on the times the network breaks a session
    MaxCrashes,        \* bound on the times the process dies
    MaxFailures        \* bound on the appends SQLite refuses (see StoreTx)

ASSUME RunsAssumption == Runs \subseteq Nat
ASSUME OutcomesAssumption == Outcomes \subseteq TerminalTypes
ASSUME QueueSizeAssumption == QueueSize \in Nat \ {0}

VARIABLES
    outbound,    \* Client.outbound, a buffered channel
    conn,        \* progress of runSession
    initial,     \* initial messages that are still to be written
    handler,     \* the message in the hands of Service.Handle
    exec,        \* the goroutine of the running turn
    lastTerminal, \* Controller.lastTerminal, at most one message
    replay,      \* rows the replay ticker still has to publish
    durable,     \* external: events the server has, each under its sequence
    told,        \* external: messages without a sequence the server has got
    log,         \* history: every event ever appended
    emitted,     \* history: what each turn handed to its sink
    starts,      \* history: times a turn of the run was started
    used         \* how much of each bound is used up

vars == <<agentRuns, resultOutbox, outbound, conn, initial, handler, exec,
          lastTerminal, replay, durable, told, log, emitted, starts, used>>

relayVars == <<outbound, conn, initial>>
serverVars == <<durable, told>>
historyVars == <<log, emitted, starts>>

Event == [run : Runs, seq : 1..MaxEvents, type : EventTypes]

\* A message about run r that carries no agent_sequence.
Notice(r, t) == [run |-> r, seq |-> 0, type |-> t]
Message == [run : Runs, seq : 0..MaxEvents, type : EventTypes]

-----------------------------------------------------------------------------
(* Order and the queue *)

\* ORDER BY run_id, agent_sequence; the last terminal message comes after the rows.
Before(e, f) ==
    \/ f.seq = 0
    \/ e.seq # 0 /\ (e.run < f.run \/ (e.run = f.run /\ e.seq < f.seq))
IsFirst(e, E) == \A f \in E \ {e} : Before(e, f)

PublishUnbounded(e) ==             \* mutant: no capacity
    outbound' = Append(outbound, e)

\* Publish drops the message when the channel is full.
Publish(e) ==
    outbound' = IF Len(outbound) < QueueSize THEN Append(outbound, e)
                                             ELSE outbound

\* A row just appended; its sequence is the counter of the run before it.
NewEvent(r, t) == [run |-> r, seq |-> agentRuns[r].next, type |-> t]

\* The store may refuse an append that overlaps another transaction.
AppendFails ==
    /\ used.failures < MaxFailures
    /\ used' = [used EXCEPT !.failures = @ + 1]
    /\ UNCHANGED <<agentRuns, resultOutbox, log>>

Append1(r, t) ==
    /\ AppendEvent(r, t)
    /\ log' = log \cup {NewEvent(r, t)}
    /\ UNCHANGED used

-----------------------------------------------------------------------------
(* Service.Handle *)

Idle == [pc |-> "idle"]
HandlerIs(pc) == handler.pc = pc

\* reject(): a turn.rejected that no row stands behind.
Refusing(r) == [pc |-> "publish", rows |-> {Notice(r, "turn.rejected")}, then |-> Idle]

\* mutant: a redelivered command is started again
HandleStartAgain(r, c, p) ==
    /\ conn = "up" /\ HandlerIs("idle")
    /\ used.starts < MaxStarts
    /\ used' = [used EXCEPT !.starts = @ + 1]
    /\ \/ /\ PrepareRun(r, c, p)
          /\ handler' = [pc |-> "accept", run |-> r]
       \/ /\ IsDuplicate(r, c, p)
          /\ handler' = [pc |-> "start", run |-> r]
          /\ UNCHANGED storeVars
    /\ UNCHANGED <<relayVars, exec, lastTerminal, replay, serverVars,
                   historyVars>>

\* turn.start: a new run goes on to run.accepted; a redelivered one has what is
\* pending published again; any other combination is rejected without a row,
\* by a message without a sequence.
HandleStart(r, c, p) ==
    /\ conn = "up" /\ HandlerIs("idle")
    /\ used.starts < MaxStarts
    /\ used' = [used EXCEPT !.starts = @ + 1]
    /\ \/ /\ PrepareRun(r, c, p)
          /\ handler' = [pc |-> "accept", run |-> r]
       \/ /\ IsDuplicate(r, c, p)
          /\ handler' = [pc |-> "publish", rows |-> Pending, then |-> Idle]
          /\ UNCHANGED storeVars
       \/ /\ ~ InsertsRun(r, c) /\ ~ IsDuplicate(r, c, p)
          /\ handler' = Refusing(r)
          /\ UNCHANGED storeVars
    /\ UNCHANGED <<relayVars, exec, lastTerminal, replay, serverVars,
                   historyVars>>

\* AppendEvent of run.accepted; when it fails the run is rejected without a
\* sequence and the row of the run stays behind.
HandleAccept ==
    /\ HandlerIs("accept")
    /\ LET r == handler.run IN
       \/ /\ Append1(r, "run.accepted")
          /\ handler' = [pc |-> "publish", rows |-> {NewEvent(r, "run.accepted")},
                         then |-> [pc |-> "start", run |-> r]]
       \/ AppendFails /\ handler' = Refusing(r)
    /\ UNCHANGED <<relayVars, exec, lastTerminal, replay, serverVars, emitted,
                   starts>>

\* Publishing one by one, in order.
HandlePublish ==
    /\ HandlerIs("publish")
    /\ \/ /\ handler.rows = {}
          /\ handler' = handler.then
          /\ UNCHANGED outbound
       \/ \E e \in handler.rows :
             /\ IsFirst(e, handler.rows)
             /\ Publish(e)
             /\ handler' = [handler EXCEPT !.rows = @ \ {e}]
    /\ UNCHANGED <<storeVars, conn, initial, exec, lastTerminal, replay,
                   serverVars, historyVars, used>>

\* mutant: a turn that cannot be started is not reported
HandleControllerStartSilent ==
    /\ HandlerIs("start")
    /\ \/ /\ exec.pc = "idle"
          /\ exec' = [pc |-> "running", run |-> handler.run]
          /\ lastTerminal' = {}
          /\ starts' = [starts EXCEPT ![handler.run] = @ + 1]
       \/ UNCHANGED <<exec, lastTerminal, starts>>
    /\ handler' = Idle
    /\ UNCHANGED <<storeVars, relayVars, replay, serverVars, log, emitted, used>>

\* Controller.Start: it runs the turn, or says busy or failed.
HandleControllerStart ==
    /\ HandlerIs("start")
    /\ LET r == handler.run IN
       \/ /\ exec.pc = "idle"
          /\ exec' = [pc |-> "running", run |-> r]
          /\ lastTerminal' = {}
          /\ starts' = [starts EXCEPT ![r] = @ + 1]
          /\ handler' = Idle
       \/ /\ handler' = [pc |-> "reject", run |-> r]
          /\ UNCHANGED <<exec, lastTerminal, starts>>
    /\ UNCHANGED <<storeVars, relayVars, replay, serverVars, log, emitted, used>>

\* rejectRun
HandleReject ==
    /\ HandlerIs("reject")
    /\ LET r == handler.run IN
       \/ /\ Append1(r, "turn.rejected")
          /\ handler' = [pc |-> "publish", rows |-> {NewEvent(r, "turn.rejected")},
                         then |-> Idle]
       \/ AppendFails /\ handler' = Idle
    /\ UNCHANGED <<relayVars, exec, lastTerminal, replay, serverVars, emitted,
                   starts>>

\* The server has every event of r up to s.
ServerHasAll(r, s) ==
    \A n \in 1..s : \E e \in durable : e.run = r /\ e.seq = n

HandleReceivedAck(r, s) ==         \* mutant: a receipt taken for durability
    /\ conn = "up" /\ HandlerIs("idle")
    /\ DurableAck(r, s)
    /\ UNCHANGED <<relayVars, handler, exec, lastTerminal, replay, serverVars,
                   historyVars, used>>

\* runtime.durable_ack; the server acknowledges prefixes, possibly late.
HandleAck(r, s) ==
    /\ conn = "up" /\ HandlerIs("idle")
    /\ ServerHasAll(r, s)
    /\ DurableAck(r, s)
    /\ UNCHANGED <<relayVars, handler, exec, lastTerminal, replay, serverVars,
                   historyVars, used>>

-----------------------------------------------------------------------------
(* The running turn: every durable event is appended, then published *)

Ending(r, t) == [pc |-> "ending", run |-> r, type |-> t]

AfterAppendGoesOn(t) == exec       \* mutant: the terminal event does not end it

AfterAppend(t) == IF t \in TerminalTypes THEN Ending(exec.run, t) ELSE exec

\* mutant: the turn publishes an event the store has refused
ExecAppendIgnoringErrors(t) ==
    /\ exec.pc = "running"
    /\ Append1(exec.run, t) \/ AppendFails
    /\ exec' = [pc |-> "publish", row |-> NewEvent(exec.run, t),
                then |-> AfterAppend(t)]
    /\ UNCHANGED <<relayVars, handler, lastTerminal, replay, serverVars,
                   emitted, starts>>

ExecAppend(t) ==
    /\ exec.pc = "running"
    /\ LET r == exec.run
       IN  /\ t = "turn.event" => agentRuns[r].next < MaxEvents
           /\ emitted' = [emitted EXCEPT ![r] = @ \cup {t}]
           /\ \/ /\ Append1(r, t)
                 /\ exec' = [pc |-> "publish", row |-> NewEvent(r, t),
                             then |-> AfterAppend(t)]
              \/ AppendFails /\ exec' = AfterAppend(t)
    /\ UNCHANGED <<relayVars, handler, lastTerminal, replay, serverVars,
                   starts>>

ExecPublish ==
    /\ exec.pc = "publish"
    /\ Publish(exec.row)
    /\ exec' = exec.then
    /\ UNCHANGED <<storeVars, conn, initial, handler, lastTerminal, replay,
                   serverVars, historyVars, used>>

\* The slot of the controller is freed after the terminal event, recorded or not,
\* and the message is kept without the sequence the sink may have given it.
ExecEnd ==
    /\ exec.pc = "ending"
    /\ exec' = Idle
    /\ lastTerminal' = {Notice(exec.run, exec.type)}
    /\ UNCHANGED <<storeVars, relayVars, handler, replay,
                   serverVars, historyVars, used>>

-----------------------------------------------------------------------------
(* StartDurableReplay *)

\* A tick every 2 s.  Safety is checked for ticks at any time; with SlowTicks
\* the period is long enough for writeLoop to empty the queue, which liveness
\* needs: ticks in lock-step with the writer could find it full for ever.
TickDue == SlowTicks /\ conn = "up" => outbound = << >>

ReplayTick ==
    /\ TickDue
    /\ replay = {} /\ Pending # {}
    /\ replay' = Pending
    /\ UNCHANGED <<storeVars, relayVars, handler, exec, lastTerminal,
                   serverVars, historyVars, used>>

ReplayPublish ==
    /\ \E e \in replay :
          /\ IsFirst(e, replay)
          /\ Publish(e)
          /\ replay' = replay \ {e}
    /\ UNCHANGED <<storeVars, conn, initial, handler, exec, lastTerminal,
                   serverVars, historyVars, used>>

-----------------------------------------------------------------------------
(* relay.Client *)

\* write: a message over the limit ends the session without being sent.
Write(e) ==
    \/ e.type \in Oversized /\ conn' = "down" /\ UNCHANGED serverVars
    \/ /\ e.type \notin Oversized /\ UNCHANGED conn
       /\ IF e.seq = 0 THEN told' = told \cup {e} /\ UNCHANGED durable
                       ELSE durable' = durable \cup {e} /\ UNCHANGED told

\* runSession starts only after the readLoop of the last one, and with it the
\* handler, has returned.
Dial ==
    /\ conn = "down" /\ HandlerIs("idle")
    /\ conn' = "dialed"
    /\ outbound' = << >>
    /\ UNCHANGED <<storeVars, initial, handler, exec, lastTerminal, replay,
                   serverVars, historyVars, used>>

\* InitialMessages, called after drainOutbound: the pending rows and, when the
\* controller is idle, its last terminal message.  RelaySession takes the read of
\* the controller and the read of the outbox apart.
LoadInitial ==
    /\ conn = "dialed"
    /\ conn' = "initial"
    /\ initial' = Pending \cup (IF exec.pc = "idle" THEN lastTerminal ELSE {})
    /\ UNCHANGED <<storeVars, outbound, handler, exec, lastTerminal, replay,
                   serverVars, historyVars, used>>

WriteInitial ==
    /\ conn = "initial"
    /\ \/ initial = {} /\ conn' = "up" /\ UNCHANGED <<initial, serverVars>>
       \/ \E e \in initial :
             /\ IsFirst(e, initial)
             /\ Write(e)
             /\ initial' = initial \ {e}
    /\ UNCHANGED <<storeVars, outbound, handler, exec, lastTerminal, replay,
                   historyVars, used>>

WriteOutbound ==
    /\ conn = "up" /\ outbound # << >>
    /\ Write(Head(outbound))
    /\ outbound' = Tail(outbound)
    /\ UNCHANGED <<storeVars, initial, handler, exec, lastTerminal, replay,
                   historyVars, used>>

Disconnect ==
    /\ conn # "down"
    /\ used.disconnects < MaxDisconnects
    /\ used' = [used EXCEPT !.disconnects = @ + 1]
    /\ conn' = "down"
    /\ UNCHANGED <<storeVars, outbound, initial, handler, exec, lastTerminal,
                   replay, serverVars, historyVars>>

\* The process dies and starts again: only the store is left.
Crash ==
    /\ used.crashes < MaxCrashes
    /\ used' = [used EXCEPT !.crashes = @ + 1]
    /\ conn' = "down" /\ outbound' = << >> /\ initial' = {}
    /\ handler' = Idle /\ exec' = Idle /\ lastTerminal' = {} /\ replay' = {}
    /\ UNCHANGED <<storeVars, serverVars, historyVars>>

-----------------------------------------------------------------------------
Init ==
    /\ StoreInit
    /\ outbound = << >> /\ conn = "down" /\ initial = {}
    /\ handler = Idle /\ exec = Idle /\ lastTerminal = {} /\ replay = {}
    /\ durable = {} /\ told = {} /\ log = {}
    /\ emitted = [r \in Runs |-> {}] /\ starts = [r \in Runs |-> 0]
    /\ used = [starts |-> 0, disconnects |-> 0, crashes |-> 0, failures |-> 0]

Next ==
    \/ \E r \in Runs, c \in Commands, p \in Payloads : HandleStart(r, c, p)
    \/ \E r \in Runs, s \in 1..MaxEvents : HandleAck(r, s)
    \/ HandleAccept \/ HandlePublish \/ HandleControllerStart \/ HandleReject
    \/ \E t \in {"turn.event"} \cup Outcomes : ExecAppend(t)
    \/ ExecPublish \/ ExecEnd
    \/ ReplayTick \/ ReplayPublish
    \/ Dial \/ LoadInitial \/ WriteInitial \/ WriteOutbound
    \/ Disconnect \/ Crash

\* The goroutines of the agent are scheduled, the ticker ticks, the relay is
\* dialled again and again, and the server acknowledges what it has.
AckProgress ==
    \E r \in Runs, s \in 1..MaxEvents :
        HandleAck(r, s) /\ agentRuns'[r].acked > agentRuns[r].acked

\* Every turn ends: TurnTimeout is positive (see TurnController).
ExecEndsTurn == \E t \in Outcomes : ExecAppend(t)

Fairness ==
    /\ WF_vars(HandleAccept) /\ WF_vars(HandlePublish)
    /\ WF_vars(HandleControllerStart) /\ WF_vars(HandleReject)
    /\ WF_vars(ExecEndsTurn) /\ WF_vars(ExecPublish) /\ WF_vars(ExecEnd)
    /\ WF_vars(ReplayTick) /\ WF_vars(ReplayPublish)
    /\ WF_vars(Dial) /\ WF_vars(LoadInitial)
    /\ WF_vars(WriteInitial) /\ WF_vars(WriteOutbound)
    /\ WF_vars(AckProgress)

Spec == Init /\ [][Next]_vars
FairSpec == Spec /\ Fairness

-----------------------------------------------------------------------------
(* Properties *)

\* Goroutine states and queue contents are of their declared shape.
TypeOK ==
    /\ StoreTypeOK
    /\ outbound \in Seq(Message) /\ Len(outbound) <= QueueSize
    /\ conn \in {"down", "dialed", "initial", "up"}
    /\ initial \subseteq Message /\ replay \subseteq Event
    /\ lastTerminal \subseteq Message /\ told \subseteq Message
    /\ durable \subseteq Event /\ log \subseteq Event
    /\ handler.pc \in {"idle", "accept", "publish", "start", "reject"}
    /\ exec.pc \in {"idle", "running", "publish", "ending"}
    /\ emitted \in [Runs -> SUBSET EventTypes]
    /\ starts \in [Runs -> Nat]

\* However connections break, the queue overflows, acknowledgements come late
\* and the process dies, an event that AppendEvent recorded is still in the
\* outbox or has reached the server.
NoEventLost == log \subseteq resultOutbox \cup durable

SaysHowItEnded(E) == {e \in E : e.type \in TerminalTypes}

\* The server never sees two different events under one run and sequence, nor,
\* under a sequence, one that was never recorded: retransmissions are exact.  A
\* terminal message that comes without a sequence may well be one that the store
\* refused, but it is what the turn ended with: whichever way the server learns of
\* the end of a run, it never learns of two different ones.
OneEventPerSequence ==
    /\ durable \subseteq log
    /\ \A e, f \in log : e.run = f.run /\ e.seq = f.seq => e = f
    /\ \A m \in SaysHowItEnded(told) : m.type \in emitted[m.run]
    /\ \A e, f \in SaysHowItEnded(durable \cup told) :
          e.run = f.run => e.type = f.type

\* A start command that is delivered again, to the same process or after a
\* crash, under the same run or another, does not run the turn again.
StartedAtMostOnce ==
    /\ \A r \in Runs : starts[r] <= 1
    /\ \A r, q \in Runs : starts[r] > 0 /\ starts[q] > 0
                          /\ agentRuns[r].command = agentRuns[q].command => r = q

\* The record of a run reads accepted, then its turn's events, and ends with
\* its first terminal event or rejection: the handler and the turn, which
\* append from two goroutines, never interleave badly within one run.
RunRecordWellFormed ==
    \A e \in log :
        /\ (e.type = "run.accepted") <=> (e.seq = 1)
        /\ e.type \in TerminalTypes \cup {"turn.rejected"} =>
              ~ \E f \in log : f.run = e.run /\ f.seq > e.seq

\* The whole composition keeps the promise of ReliableLog.
Log == INSTANCE ReliableLog WITH Events <- Event, retained <- resultOutbox
KeepsReliableLog == Log!LogSpec

\* Every recorded event reaches the server in the end, whatever was dropped
\* from the queue, lost with a session or left behind by a crash.
EveryRecordedEventArrives ==
    \A r \in Runs, s \in 1..MaxEvents :
        (\E e \in log : e.run = r /\ e.seq = s)
            ~> (\E e \in durable : e.run = r /\ e.seq = s)

Closing == TerminalTypes \cup {"turn.rejected"}

\* As long as the process lives and the store refuses no append, a run that was
\* accepted is closed: the server comes to know how its turn ended or that it
\* was rejected, also when the controller was busy or could not start.
EveryAcceptedRunCloses ==
    \A r \in Runs :
        (\E e \in log : e.run = r)
            ~> \/ \E e \in durable : e.run = r /\ e.type \in Closing
               \/ used.crashes > 0 \/ used.failures > 0

\* The message a turn ends with reaches the server once the turn has handed it to
\* its sink: as an event, replayed for as long as the server has not confirmed it,
\* or without a sequence, at the start of a session that finds the agent idle.
EveryEmittedEventArrives ==
    \A r \in Runs, t \in TerminalTypes :
        t \in emitted[r] ~> \E e \in durable \cup told : e.run = r /\ e.type = t
=============================================================================
