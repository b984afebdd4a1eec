---------------------------- MODULE RelaySession ----------------------------
(***************************************************************************)
(* The sessions with the relay (internal/relay/client.go, runSession,      *)
(* readLoop, writeLoop; internal/agent/service.go, InitialMessages), with  *)
(* the turn controller as far as it tells the relay which run is at work   *)
(* (internal/turn/controller.go).                                          *)
(*                                                                         *)
(* runSession starts two goroutines and waits for both.  The reader        *)
(* handles a message before it reads the next, and only a reader that      *)
(* reads sees the answer to a ping, so a handler that waits for the        *)
(* app-server looks like a dead peer to the writer.  The first messages of *)
(* a session are put together from the controller and the outbox while the *)
(* turn goes on.                                                           *)
(*                                                                         *)
(* What is written reaches the relay unless the connection has broken.  Of *)
(* the messages only those remain that say whether a run is at work; the   *)
(* end of a run is durable and also in the outbox (RunDelivery).           *)
(***************************************************************************)
EXTENDS Integers, Sequences, SequencesExt

CONSTANTS
    Turns,             \* runs, each with one turn
    NoTurn,
    QueueSize,         \* capacity of outbound
    MaxBreaks          \* bound on connections that break by themselves

ASSUME NoTurnAssumption == NoTurn \notin Turns
ASSUME QueueSizeAssumption == QueueSize \in Nat \ {0}
ASSUME MaxBreaksAssumption == MaxBreaks \in Nat

VARIABLES
    main,              \* the goroutine of Run and runSession
    reader, writer,    \* readLoop and writeLoop
    connection,        \* "closed", "up", "broken", or "silent": nothing gets
                       \* through any more and nobody has noticed
    cancelled,         \* sessionContext
    initial,           \* what is left of InitialMessages
    outbound,
    idleDropped,       \* history: the queue refused an idle status
    slot, lastTerminal,   \* fields of Controller
    turn,              \* how far each turn has come
    outbox,            \* the runs whose end is not acknowledged
    view,              \* external: the last report the relay has
    known,             \* external: the runs whose end the relay has
    breaks

loops == <<reader, writer>>
link == <<connection, cancelled>>
queue == <<outbound, idleDropped>>
controller == <<slot, lastTerminal, turn>>
relay == <<view, known>>
rest == <<controller, outbox, breaks>>
sessionVars == <<main, loops, link, initial, queue, controller, outbox, relay,
                 breaks>>

Message(says, t) == [says |-> says, run |-> t]
Running(t) == Message("running", t)     \* agent.status and turn.snapshot
Ended(t) == Message("ended", t)         \* turn.completed, .failed, ...
IdleAgain == Message("idle", NoTurn)
Answer == Message("answer", NoTurn)     \* to a query

\* Client.Publish: a full queue refuses the message.
Publish(message) ==
    IF Len(outbound) < QueueSize
      THEN outbound' = Append(outbound, message) /\ UNCHANGED idleDropped
      ELSE idleDropped' = (idleDropped \/ message = IdleAgain) /\ UNCHANGED outbound

-----------------------------------------------------------------------------
(* Run and runSession *)

Main(from, to) == main = from /\ main' = to

\* The agent has opened its store and everything else, and calls Run.
Begin ==
    /\ Main("none", "down")
    /\ UNCHANGED <<loops, link, initial, queue, relay, rest>>

\* An attempt that fails changes nothing; each is followed by a pause.
Dial ==
    /\ Main("down", "drain")
    /\ connection' = "up" /\ cancelled' = FALSE
    /\ UNCHANGED <<loops, initial, queue, relay, rest>>

\* drainOutbound: what is durable is in the outbox, the rest is out of date.
DrainOutbound ==
    /\ Main("drain", "snapshot")
    /\ outbound' = << >> /\ idleDropped' = FALSE
    /\ UNCHANGED <<loops, link, initial, relay, rest>>

\* InitialMessages: the status first, and last what is known of the turn; the
\* outbox goes between them when it has been read.
TakeSnapshot ==
    /\ Main("snapshot", "pending")
    /\ initial' =
         IF slot # NoTurn THEN <<Running(slot), Running(slot)>>
         ELSE IF lastTerminal # NoTurn THEN <<IdleAgain, Ended(lastTerminal)>>
         ELSE <<IdleAgain>>
    /\ UNCHANGED <<loops, link, queue, relay, rest>>

Pending == [k \in DOMAIN outbox |-> Ended(outbox[k])]

ReadPendingThenDrain ==            \* mutant: drains behind InitialMessages
    /\ Main("pending", "initial")
    /\ initial' = <<Head(initial)>> \o Pending \o Tail(initial)
    /\ outbound' = << >> /\ idleDropped' = FALSE
    /\ UNCHANGED <<loops, link, relay, rest>>

ReadPending ==
    /\ Main("pending", "initial")
    /\ initial' = <<Head(initial)>> \o Pending \o Tail(initial)
    /\ UNCHANGED <<loops, link, queue, relay, rest>>

Writable == connection \in {"up", "silent"}

\* Client.write, as far as the relay is concerned: what is written arrives unless
\* the connection has gone silent.
Deliver(message) ==
    /\ view' = IF connection = "up" /\ message # Answer THEN message ELSE view
    /\ known' = IF connection = "up" /\ message.says = "ended"
                  THEN known \cup {message.run} ELSE known

WriteInitial ==
    /\ main = "initial" /\ initial # << >> /\ Writable
    /\ Deliver(Head(initial))
    /\ initial' = Tail(initial)
    /\ UNCHANGED <<main, loops, link, queue, rest>>

InitialFails ==
    /\ initial # << >> /\ ~Writable
    /\ Main("initial", "down")
    /\ connection' = "closed" /\ initial' = << >>
    /\ UNCHANGED <<loops, cancelled, queue, relay, rest>>

StartLoops ==
    /\ initial = << >>
    /\ Main("initial", "loops")
    /\ reader' = [pc |-> "reading"] /\ writer' = "select"
    /\ UNCHANGED <<link, initial, queue, relay, rest>>

\* The loops that have sent their error.
Returned == {loop \in {"reader", "writer"} :
                IF loop = "reader" THEN reader.pc = "returned"
                                   ELSE writer = "returned"}

FirstErrorKeepsOther ==            \* mutant: neither cancelled nor closed
    /\ Returned # {}
    /\ Main("loops", "closing")
    /\ UNCHANGED <<loops, link, initial, queue, relay, rest>>

FirstError ==
    /\ Returned # {}
    /\ Main("loops", "closing")
    /\ cancelled' = TRUE /\ connection' = "closed"
    /\ UNCHANGED <<loops, initial, queue, relay, rest>>

SecondErrorAtOnce ==               \* mutant: does not wait for the other loop
    /\ Main("closing", "down")
    /\ UNCHANGED <<loops, link, initial, queue, relay, rest>>

SecondError ==
    /\ Returned = {"reader", "writer"}
    /\ Main("closing", "down")
    /\ UNCHANGED <<loops, link, initial, queue, relay, rest>>

-----------------------------------------------------------------------------
(* readLoop and the handlers *)

Reader(from, to) ==
    /\ reader = from /\ reader' = to
    /\ UNCHANGED <<main, writer, link, initial, relay, breaks>>

Reading == [pc |-> "reading"]
Querying == [pc |-> "query"]
Starting(t) == [pc |-> "start", run |-> t]
Announcing(t) == [pc |-> "announce", run |-> t]

\* A query waits for the inventory or the app-server.
ReceiveQuery ==
    /\ connection = "up"
    /\ Reader(Reading, Querying)
    /\ UNCHANGED <<queue, controller, outbox>>

ReceiveStart(t) ==
    /\ connection = "up" /\ turn[t] = "new"
    /\ Reader(Reading, Starting(t))
    /\ UNCHANGED <<queue, controller, outbox>>

Unacknowledged == {outbox[k] : k \in DOMAIN outbox}

\* event.durable_ack for the end of a run, which is there once.
ReceiveAck(t) ==
    /\ connection = "up" /\ t \in known \cap Unacknowledged
    /\ Reader(Reading, Reading)
    /\ \E k \in DOMAIN outbox : outbox[k] = t /\ outbox' = RemoveAt(outbox, k)
    /\ UNCHANGED <<queue, controller>>

ReadFails ==
    /\ ~Writable \/ cancelled
    /\ Reader(Reading, [pc |-> "returned"])
    /\ UNCHANGED <<queue, controller, outbox>>

\* The context of a handler is the service's, which no session cancels.
QueryReturns ==
    /\ Reader(Querying, Reading)
    /\ Publish(Answer)
    /\ UNCHANGED <<controller, outbox>>

\* Controller.Start up to the unlock; a busy controller rejects the run.
StartTurn(t) ==
    /\ IF slot = NoTurn
         THEN /\ Reader(Starting(t), Announcing(t))
              /\ slot' = t /\ lastTerminal' = NoTurn
              /\ turn' = [turn EXCEPT ![t] = "starting"]
         ELSE /\ Reader(Starting(t), Reading)
              /\ UNCHANGED controller
    /\ UNCHANGED <<queue, outbox>>

\* The running status; only then does the goroutine of the turn start.
AnnounceRunning(t) ==
    /\ Reader(Announcing(t), Reading)
    /\ turn' = [turn EXCEPT ![t] = "running"]
    /\ Publish(Running(t))
    /\ UNCHANGED <<slot, lastTerminal, outbox>>

-----------------------------------------------------------------------------
(* writeLoop *)

Writer(from, to) ==
    /\ writer = from /\ writer' = to
    /\ UNCHANGED <<main, reader, link, initial, idleDropped, rest>>

WriteNext ==
    /\ outbound # << >>
    /\ outbound' = Tail(outbound)
    /\ IF Writable /\ ~cancelled
         THEN Writer("select", "select") /\ Deliver(Head(outbound))
         ELSE Writer("select", "returned") /\ UNCHANGED relay

WriterStops ==
    /\ cancelled
    /\ Writer("select", "returned") /\ UNCHANGED <<outbound, relay>>

Ping == Writer("select", "ping") /\ UNCHANGED <<outbound, relay>>

\* The pong is seen by the reader while it reads.
Pong ==
    /\ connection = "up" /\ reader = Reading
    /\ Writer("ping", "select") /\ UNCHANGED <<outbound, relay>>

\* Half the interval has passed, or the connection is gone.
PingFails ==
    /\ connection # "up" \/ reader # Reading
    /\ Writer("ping", "returned") /\ UNCHANGED <<outbound, relay>>

-----------------------------------------------------------------------------
(* The turn, the replay and the network *)

Turn(t, from, to) ==
    /\ turn[t] = from
    /\ turn' = [turn EXCEPT ![t] = to]
    /\ UNCHANGED <<main, loops, link, initial, relay, breaks>>

\* The sink of the terminal message: AppendEvent, then publish.
RecordEnd(t) ==
    /\ Turn(t, "running", "recorded")
    /\ outbox' = Append(outbox, t)
    /\ UNCHANGED <<queue, slot, lastTerminal>>

PublishEnd(t) ==
    /\ Turn(t, "recorded", "reported")
    /\ Publish(Ended(t))
    /\ UNCHANGED <<slot, lastTerminal, outbox>>

\* The last critical section of execute.
FreeSlot(t) ==
    /\ Turn(t, "reported", "freed")
    /\ slot' = NoTurn /\ lastTerminal' = t
    /\ UNCHANGED <<queue, outbox>>

AnnounceIdle(t) ==
    /\ Turn(t, "freed", "over")
    /\ Publish(IdleAgain)
    /\ UNCHANGED <<slot, lastTerminal, outbox>>

\* One message of StartDurableReplay.
Replay(t) ==
    /\ t \in Unacknowledged
    /\ Publish(Ended(t))
    /\ UNCHANGED <<main, loops, link, initial, relay, rest>>

\* The connection breaks; the agent may or may not be told.
Break ==
    /\ connection = "up" /\ breaks < MaxBreaks
    /\ breaks' = breaks + 1
    /\ connection' \in {"broken", "silent"}
    /\ UNCHANGED <<main, loops, cancelled, initial, queue, controller, outbox,
                   relay>>

-----------------------------------------------------------------------------
SessionInit ==
    /\ main = "none" /\ reader = [pc |-> "none"] /\ writer = "none"
    /\ connection = "closed" /\ cancelled = FALSE
    /\ outbound = << >> /\ initial = << >>
    /\ slot = NoTurn /\ lastTerminal = NoTurn
    /\ turn = [t \in Turns |-> "new"]
    /\ outbox = << >>
    /\ view = IdleAgain /\ known = {}
    /\ idleDropped = FALSE /\ breaks = 0

RunSession ==
    \/ Dial \/ DrainOutbound \/ TakeSnapshot \/ ReadPending \/ WriteInitial
    \/ InitialFails \/ StartLoops \/ FirstError \/ SecondError
Handler == QueryReturns \/ \E t \in Turns : StartTurn(t) \/ AnnounceRunning(t)
Execute(t) == RecordEnd(t) \/ PublishEnd(t) \/ FreeSlot(t) \/ AnnounceIdle(t)
Receive == ReceiveQuery \/ \E t \in Turns : ReceiveStart(t) \/ ReceiveAck(t)

SessionNext ==
    \/ Begin \/ RunSession \/ Handler \/ Receive \/ ReadFails
    \/ WriteNext \/ WriterStops \/ Ping \/ Pong \/ PingFails
    \/ \E t \in Turns : Execute(t) \/ Replay(t)
    \/ Break

\* The client dials again and again, goroutines are scheduled and pings come
\* round.  Handlers return: the app-server answers or its process ends.  The
\* select of the writer takes a message in the end, however often it pings.
SessionFairness ==
    /\ WF_sessionVars(RunSession) /\ WF_sessionVars(Handler \/ ReadFails)
    /\ WF_sessionVars(WriterStops \/ Ping \/ Pong \/ PingFails)
    /\ SF_sessionVars(WriteNext)
    /\ WF_sessionVars(\E t \in Turns : Execute(t))

SessionSpec == SessionInit /\ [][SessionNext]_sessionVars
FairSessionSpec == SessionSpec /\ SessionFairness

-----------------------------------------------------------------------------
(* Properties *)

\* The variables have their types, and the loops live only inside a session.
SessionTypeOK ==
    /\ main \in {"none", "down", "drain", "snapshot", "pending", "initial", "loops",
                 "closing"}
    /\ reader.pc \in {"none", "reading", "query", "start", "announce", "returned"}
    /\ writer \in {"none", "select", "ping", "returned"}
    /\ connection \in {"closed", "up", "broken", "silent"}
    /\ cancelled \in BOOLEAN /\ idleDropped \in BOOLEAN /\ breaks \in 0..MaxBreaks
    /\ Len(outbound) <= QueueSize
    /\ slot \in Turns \cup {NoTurn} /\ lastTerminal \in Turns \cup {NoTurn}
    /\ DOMAIN turn = Turns /\ known \subseteq Turns

\* When a turn is over, the relay is in the end told something later than that it
\* runs, in whatever session and with whatever snapshot it was taken for running,
\* unless the queue refused the idle status after the snapshot was taken.
EndIsTheLastWord ==
    \A t \in Turns :
        <>[](turn[t] = "over" => view # Running(t) \/ idleDropped)

Serving == main = "loops" /\ connection = "up" /\ Returned = {}

\* An agent that runs always comes back to a working session: a broken or silent connection,
\* a ping lost behind a slow handler or an error in one of the loops ends the
\* session, and the next one begins.
SessionComesBack == []<>(main = "none" \/ Serving)

\* Messages are handled one at a time inside a session, and a new session waits for
\* the handler of the old one: what RunDelivery takes for granted.
Contract ==
    INSTANCE SessionContract WITH
        session <- IF main \in {"none", "down"} THEN "down"
                   ELSE IF main \in {"loops", "closing"} THEN "up" ELSE "opening",
        handling <- reader.pc \in {"query", "start", "announce"}
KeepsSessionContract == Contract!SessionContractSpec
=============================================================================
