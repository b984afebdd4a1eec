--------------------------- MODULE Serving_proofs ---------------------------
(***************************************************************************)
(* Theorems about the parts that serve the relay.                          *)
(*                                                                         *)
(* RelaySession implements SessionContract, for any number of turns, any   *)
(* queue and any number of breaks: what the refinement rests on is where   *)
(* the goroutine of the reader can be while no session is open.            *)
(*                                                                         *)
(* A listing of Inventory never returns a preview that is older than the   *)
(* date it gives the session, for any callers, sessions, workers and       *)
(* cache, and any order in which the app-server answers: the invariant     *)
(* says of each text, wherever it is, for which date it is good, that of   *)
(* its entry in the cache or that of the listing that has fetched it.      *)
(* Dates of a listing lie in the past, so that the newest text is always   *)
(* good for them.                                                          *)
(*                                                                         *)
(* A window of SourceReader and a session of ThreadDetail are fitted step  *)
(* by step, and the invariants say what the steps have taken and that what *)
(* was there before the last of them was too large.  Nothing is needed of  *)
(* the sizes themselves.                                                   *)
(*                                                                         *)
(* A project of Workspace has the allowed ones of the paths walked so far  *)
(* as its roots, and has one if any of them is allowed; what is inside a   *)
(* root is inside the allowed one around it: to be inside is transitive.   *)
(***************************************************************************)
EXTENDS MCServing, SequenceTheorems, FiniteSetTheorems, WellFoundedInduction, TLAPS

-----------------------------------------------------------------------------
(* Sessions: where the reader is *)

\* Outside the loops no message is being handled and none can be received: the
\* reader has not begun or has returned.
ReaderIsInside == main \notin {"loops", "closing"} => reader.pc \in {"none", "returned"}

\* A move of the reader leaves the goroutine of runSession where it is, and only a
\* reader that has begun and not returned moves.
ReaderMoves ==
    /\ UNCHANGED main
    /\ reader.pc \notin {"none", "returned"}

\* Every action of the reader is such a move.
LEMMA ReaderActionsMove ==
    ASSUME Handler \/ Receive \/ ReadFails
    PROVE  ReaderMoves
<1>1. CASE ReadFails
  BY <1>1 DEF ReaderMoves, ReadFails, Reader, Reading
<1>2. CASE ReceiveQuery \/ QueryReturns
  BY <1>2 DEF ReaderMoves, ReceiveQuery, QueryReturns, Reader, Reading, Querying
<1>3. ASSUME NEW t \in Turns, ReceiveStart(t) \/ ReceiveAck(t)
      PROVE  ReaderMoves
  BY <1>3 DEF ReaderMoves, ReceiveStart, ReceiveAck, Reader, Reading, Starting
<1>4. ASSUME NEW t \in Turns, StartTurn(t)
      PROVE  ReaderMoves
  <2>1. reader = Starting(t) /\ main' = main
    BY <1>4 DEF StartTurn, Reader
  <2> QED  BY <2>1 DEF ReaderMoves, Starting
<1>5. ASSUME NEW t \in Turns, AnnounceRunning(t)
      PROVE  ReaderMoves
  BY <1>5 DEF ReaderMoves, AnnounceRunning, Reader, Announcing
<1> QED  BY <1>1, <1>2, <1>3, <1>4, <1>5 DEF Handler, Receive

\* The actions of the writer, the turns and the network touch neither goroutine.
Elsewhere ==
    \/ WriteNext \/ WriterStops \/ Ping \/ Pong \/ PingFails
    \/ \E t \in Turns : Execute(t) \/ Replay(t)
    \/ Break

LEMMA ElsewhereLeavesBoth ==
    ASSUME Elsewhere
    PROVE  UNCHANGED <<main, reader>>
<1>1. CASE WriteNext
  BY <1>1 DEF WriteNext, Writer
<1>2. CASE WriterStops \/ Ping \/ Pong \/ PingFails
  BY <1>2 DEF WriterStops, Ping, Pong, PingFails, Writer
<1>3. ASSUME NEW t \in Turns, Execute(t) \/ Replay(t)
      PROVE  UNCHANGED <<main, reader>>
  BY <1>3 DEF Execute, RecordEnd, PublishEnd, FreeSlot, AnnounceIdle, Replay, Turn, loops
<1>4. CASE Break
  BY <1>4 DEF Break, loops
<1> QED  BY <1>1, <1>2, <1>3, <1>4 DEF Elsewhere

LEMMA RunSessionKeepsReader ==
    ASSUME ReaderIsInside, Begin \/ RunSession
    PROVE  ReaderIsInside'
<1>1. CASE Begin \/ Dial \/ DrainOutbound \/ TakeSnapshot \/ ReadPending \/ InitialFails
  BY <1>1 DEF ReaderIsInside, Begin, Dial, DrainOutbound, TakeSnapshot, ReadPending,
              InitialFails, Main, loops
<1>2. CASE WriteInitial \/ StartLoops \/ FirstError
  BY <1>2 DEF ReaderIsInside, WriteInitial, StartLoops, FirstError, Main, loops
<1>3. CASE SecondError
  <2>1. reader.pc = "returned"
    BY <1>3 DEF SecondError, Returned
  <2> QED  BY <1>3, <2>1 DEF ReaderIsInside, SecondError, Main, loops
<1> QED  BY <1>1, <1>2, <1>3 DEF RunSession

\* A session that is not open has no reader at work.
THEOREM SessionReaderIsInside == SessionSpec => []ReaderIsInside
<1>1. SessionInit => ReaderIsInside
  BY DEF SessionInit, ReaderIsInside
<1>2. ASSUME ReaderIsInside, [SessionNext]_sessionVars
      PROVE  ReaderIsInside'
  <2>1. CASE Begin \/ RunSession
    BY <1>2, <2>1, RunSessionKeepsReader
  <2>2. CASE Handler \/ Receive \/ ReadFails
    BY <1>2, <2>2, ReaderActionsMove DEF ReaderIsInside, ReaderMoves
  <2>3. CASE Elsewhere
    BY <1>2, <2>3, ElsewhereLeavesBoth DEF ReaderIsInside
  <2>4. CASE UNCHANGED sessionVars
    BY <1>2, <2>4 DEF sessionVars, loops, ReaderIsInside
  <2> QED  BY <1>2, <2>1, <2>2, <2>3, <2>4 DEF SessionNext, Elsewhere
<1> QED  BY <1>1, <1>2, PTL DEF SessionSpec

-----------------------------------------------------------------------------
(* The steps of RelaySession as steps of SessionContract *)

ContractStep == Contract!SessionContractNext \/ UNCHANGED Contract!sessionContractVars

\* runSession opens, serves and leaves a session.
LEMMA RunSessionImplements ==
    ASSUME ReaderIsInside, Begin \/ RunSession
    PROVE  ContractStep
<1> USE DEF ContractStep, Contract!SessionContractNext, Contract!sessionContractVars,
            ReaderIsInside, Main, loops
<1>1. CASE Begin
  BY <1>1 DEF Begin
<1>2. CASE Dial
  <2>1. Contract!Open
    BY <1>2 DEF Dial, Contract!Open
  <2> QED  BY <2>1
<1>3. CASE DrainOutbound \/ TakeSnapshot \/ ReadPending
  BY <1>3 DEF DrainOutbound, TakeSnapshot, ReadPending
<1>4. CASE WriteInitial
  BY <1>4 DEF WriteInitial
<1>5. CASE InitialFails
  <2>1. Contract!Leave
    BY <1>5 DEF InitialFails, Contract!Leave
  <2> QED  BY <2>1
<1>6. CASE StartLoops
  <2>1. Contract!Serve
    BY <1>6 DEF StartLoops, Contract!Serve
  <2> QED  BY <2>1
<1>7. CASE FirstError
  BY <1>7 DEF FirstError
<1>8. CASE SecondError
  <2>1. reader.pc = "returned"
    BY <1>8 DEF SecondError, Returned
  <2>2. Contract!Leave
    BY <1>8, <2>1 DEF SecondError, Contract!Leave
  <2> QED  BY <2>2
<1> QED  BY <1>1, <1>2, <1>3, <1>4, <1>5, <1>6, <1>7, <1>8 DEF RunSession

\* The reader begins a message in an open session only, one at a time.
LEMMA ReaderImplements ==
    ASSUME ReaderIsInside, Handler \/ Receive \/ ReadFails
    PROVE  ContractStep
<1> USE DEF ContractStep, Contract!SessionContractNext, Contract!sessionContractVars
<1>1. main \in {"loops", "closing"} /\ main' = main
  BY ReaderActionsMove DEF ReaderIsInside, ReaderMoves
<1>2. CASE ReadFails \/ \E t \in Turns : ReceiveAck(t)
  <2>1. reader = Reading /\ reader' \in {Reading, [pc |-> "returned"]}
    BY <1>2 DEF ReadFails, ReceiveAck, Reader
  <2>2. ~(reader.pc \in {"query", "start", "announce"})
        /\ ~(reader'.pc \in {"query", "start", "announce"})
    BY <2>1 DEF Reading
  <2> QED  BY <1>1, <2>2
<1>3. CASE ReceiveQuery \/ \E t \in Turns : ReceiveStart(t)
  <2>1. reader.pc = "reading" /\ reader'.pc \in {"query", "start"}
    BY <1>3 DEF ReceiveQuery, ReceiveStart, Reader, Reading, Querying, Starting
  <2>2. Contract!Handle
    BY <1>1, <2>1 DEF Contract!Handle
  <2> QED  BY <2>2
<1>4. CASE Handler
  <2>1. /\ reader.pc \in {"query", "start", "announce"}
        /\ reader'.pc \in {"reading", "announce"}
    <3>1. CASE QueryReturns
      BY <3>1 DEF QueryReturns, Reader, Reading, Querying
    <3>2. ASSUME NEW t \in Turns, StartTurn(t) \/ AnnounceRunning(t)
          PROVE  /\ reader.pc \in {"start", "announce"}
                 /\ reader'.pc \in {"reading", "announce"}
      <4>1. \/ reader = Starting(t) /\ reader' \in {Announcing(t), Reading}
            \/ reader = Announcing(t) /\ reader' = Reading
        BY <3>2 DEF StartTurn, AnnounceRunning, Reader
      <4> QED  BY <4>1 DEF Starting, Announcing, Reading
    <3> QED  BY <1>4, <3>1, <3>2 DEF Handler
  <2>2. CASE reader'.pc = "announce"
    BY <1>1, <2>1, <2>2
  <2>3. CASE reader'.pc = "reading"
    <3>1. Contract!Return
      BY <1>1, <2>1, <2>3 DEF Contract!Return
    <3> QED  BY <3>1
  <2> QED  BY <2>1, <2>2, <2>3
<1> QED  BY <1>2, <1>3, <1>4 DEF Receive

\* Sessions follow one another, messages are handled one at a time and inside a
\* session, and no session begins before the last handler is through.
THEOREM SessionKeepsContract == SessionSpec => KeepsSessionContract
<1>1. SessionInit => Contract!SessionContractInit
  BY DEF SessionInit, Contract!SessionContractInit
<1>2. ASSUME ReaderIsInside, [SessionNext]_sessionVars
      PROVE  [Contract!SessionContractNext]_(Contract!sessionContractVars)
  <2>1. CASE Begin \/ RunSession
    BY <1>2, <2>1, RunSessionImplements DEF ContractStep
  <2>2. CASE Handler \/ Receive \/ ReadFails
    BY <1>2, <2>2, ReaderImplements DEF ContractStep
  <2>3. CASE Elsewhere
    BY <2>3, ElsewhereLeavesBoth DEF Contract!sessionContractVars
  <2>4. CASE UNCHANGED sessionVars
    BY <2>4 DEF sessionVars, loops, Contract!sessionContractVars
  <2> QED  BY <1>2, <2>1, <2>2, <2>3, <2>4 DEF SessionNext, Elsewhere
<1> QED  BY <1>1, <1>2, SessionReaderIsInside, PTL
         DEF SessionSpec, KeepsSessionContract, Contract!SessionContractSpec

-----------------------------------------------------------------------------
(* Sessions: what the variables hold *)

\* What may be written to the relay; the end is that of a run.
Messages == [says : {"running", "ended"}, run : Turns] \cup {IdleAgain, Answer}

SessionTypes ==
    /\ SessionTypeOK
    /\ outbound \in Seq(Messages) /\ initial \in Seq(Messages) /\ outbox \in Seq(Turns)
    /\ main = "pending" => initial # << >>

\* A full queue takes no more.
LEMMA PublishTypes ==
    ASSUME SessionTypes, NEW message \in Messages, Publish(message)
    PROVE  /\ outbound' \in Seq(Messages) /\ Len(outbound') <= QueueSize
           /\ idleDropped' \in BOOLEAN
<1>1. outbound \in Seq(Messages) /\ Len(outbound) <= QueueSize /\ idleDropped \in BOOLEAN
  BY DEF SessionTypes, SessionTypeOK
<1>2. CASE Len(outbound) < QueueSize
  <2>1. outbound' = Append(outbound, message) /\ idleDropped' = idleDropped
    BY <1>2 DEF Publish
  <2>2. Len(outbound) \in Nat /\ Len(outbound') = Len(outbound) + 1
    BY <1>1, <2>1
  <2> QED  BY <1>1, <1>2, <2>1, <2>2, QueueSizeAssumption
<1>3. CASE ~(Len(outbound) < QueueSize)
  <2>1. outbound' = outbound /\ idleDropped' = (idleDropped \/ message = IdleAgain)
    BY <1>3 DEF Publish
  <2>2. idleDropped' \in BOOLEAN
    BY <1>1, <2>1, Zenon
  <2> QED  BY <1>1, <2>1, <2>2
<1> QED  BY <1>2, <1>3

\* What the relay learns of the runs that have ended.
LEMMA DeliverTypes ==
    ASSUME SessionTypes, NEW message \in Messages, Deliver(message)
    PROVE  known' \subseteq Turns
<1>1. message.says = "ended" => message.run \in Turns
  BY DEF Messages, IdleAgain, Answer, Message
<1> QED  BY <1>1 DEF Deliver, SessionTypes, SessionTypeOK

LEMMA MessagesAre ==
    /\ IdleAgain \in Messages /\ Answer \in Messages
    /\ \A t \in Turns : Running(t) \in Messages /\ Ended(t) \in Messages
  BY DEF Messages, Running, Ended, Message

\* The goroutine of Run and runSession.
LEMMA RunSessionTypes ==
    ASSUME SessionTypes, Begin \/ RunSession
    PROVE  SessionTypes'
<1>1. CASE Begin \/ Dial \/ DrainOutbound \/ StartLoops \/ FirstError \/ SecondError
           \/ InitialFails
  <2>1. /\ outbound' = outbound \/ outbound' = << >>
        /\ initial' = initial \/ initial' = << >>
        /\ outbox' = outbox /\ main' # "pending"
        /\ idleDropped' \in {idleDropped, FALSE}
    BY <1>1 DEF Begin, Dial, DrainOutbound, StartLoops, FirstError, SecondError,
                InitialFails, Main, queue, rest
  <2>2. /\ main' \in {"down", "drain", "snapshot", "loops", "closing"}
        /\ connection' \in {connection, "up", "closed"}
        /\ cancelled' \in {cancelled, TRUE, FALSE}
    BY <1>1 DEF Begin, Dial, DrainOutbound, StartLoops, FirstError, SecondError,
                InitialFails, Main, link
  <2>3. /\ reader' \in {reader, [pc |-> "reading"]} /\ writer' \in {writer, "select"}
        /\ UNCHANGED <<slot, lastTerminal, turn, breaks, known>>
    BY <1>1 DEF Begin, Dial, DrainOutbound, StartLoops, FirstError, SecondError,
                InitialFails, loops, controller, relay, rest
  <2>4. << >> \in Seq(Messages) /\ Len(<< >>) <= QueueSize
    BY QueueSizeAssumption
  <2>5. /\ outbound' \in Seq(Messages) /\ initial' \in Seq(Messages)
        /\ outbox' \in Seq(Turns) /\ Len(outbound') <= QueueSize
    BY <2>1, <2>4 DEF SessionTypes, SessionTypeOK
  <2>6. idleDropped' \in BOOLEAN /\ cancelled' \in BOOLEAN
    BY <2>1, <2>2 DEF SessionTypes, SessionTypeOK
  <2>7. /\ reader'.pc \in {"none", "reading", "query", "start", "announce", "returned"}
        /\ writer' \in {"none", "select", "ping", "returned"}
    BY <2>3 DEF SessionTypes, SessionTypeOK
  <2> QED  BY <2>1, <2>2, <2>3, <2>5, <2>6, <2>7 DEF SessionTypes, SessionTypeOK
<1>2. CASE TakeSnapshot \/ ReadPending \/ WriteInitial
  <2>1. /\ main' \in {"pending", "initial"}
        /\ UNCHANGED <<loops, link, queue, rest>>
    BY <1>2 DEF TakeSnapshot, ReadPending, WriteInitial, Main
  <2>2. initial' \in Seq(Messages) /\ (main' = "pending" => initial' # << >>)
    <3>1. CASE TakeSnapshot
      <4>1. PICK first : first = initial'
        OBVIOUS
      <4>2. CASE slot # NoTurn
        <5>1. first = <<Running(slot), Running(slot)>> /\ Running(slot) \in Messages
          BY <3>1, <4>1, <4>2, MessagesAre DEF TakeSnapshot, SessionTypes, SessionTypeOK
        <5> QED  BY <4>1, <5>1
      <4>3. CASE slot = NoTurn /\ lastTerminal # NoTurn
        <5>1. /\ first = <<IdleAgain, Ended(lastTerminal)>>
              /\ IdleAgain \in Messages /\ Ended(lastTerminal) \in Messages
          BY <3>1, <4>1, <4>3, MessagesAre DEF TakeSnapshot, SessionTypes, SessionTypeOK
        <5> QED  BY <4>1, <5>1
      <4>4. CASE slot = NoTurn /\ lastTerminal = NoTurn
        <5>1. first = <<IdleAgain>> /\ IdleAgain \in Messages
          BY <3>1, <4>1, <4>4, MessagesAre DEF TakeSnapshot
        <5> QED  BY <4>1, <5>1
      <4> QED  BY <4>2, <4>3, <4>4
    <3>2. CASE ReadPending
      <4>1. PICK p : p = Pending
        OBVIOUS
      <4>2. outbox \in Seq(Turns) /\ initial \in Seq(Messages) /\ initial # << >>
            /\ main' # "pending"
        BY <3>2 DEF ReadPending, Main, SessionTypes
      <4>3. p \in Seq(Messages)
        <5>1. PICK n \in Nat : n = Len(outbox) /\ DOMAIN outbox = 1..n
          BY <4>2
        <5>2. p = [k \in 1..n |-> Ended(outbox[k])]
          BY <4>1, <5>1 DEF Pending
        <5>3. \A k \in 1..n : Ended(outbox[k]) \in Messages
          BY <4>2, <5>1, MessagesAre
        <5> QED  BY <5>2, <5>3
      <4>4. Head(initial) \in Messages /\ Tail(initial) \in Seq(Messages)
        BY <4>2
      <4>5. <<Head(initial)>> \in Seq(Messages)
        BY <4>4
      <4>6. initial' = <<Head(initial)>> \o p \o Tail(initial)
        BY <3>2, <4>1 DEF ReadPending
      <4> QED  BY <4>2, <4>3, <4>4, <4>5, <4>6
    <3>3. CASE WriteInitial
      BY <3>3 DEF WriteInitial, SessionTypes
    <3> QED  BY <1>2, <3>1, <3>2, <3>3
  <2>3. known' \subseteq Turns
    <3>1. CASE WriteInitial
      <4>1. Head(initial) \in Messages /\ Deliver(Head(initial))
        BY <3>1 DEF WriteInitial, SessionTypes
      <4> QED  BY <4>1, DeliverTypes
    <3>2. CASE TakeSnapshot \/ ReadPending
      BY <3>2 DEF TakeSnapshot, ReadPending, relay, SessionTypes, SessionTypeOK
    <3> QED  BY <1>2, <3>1, <3>2
  <2>4. UNCHANGED <<reader, writer, connection, cancelled, outbound, idleDropped, slot,
                    lastTerminal, turn, outbox, breaks>>
    BY <2>1 DEF loops, link, queue, rest, controller
  <2> QED  BY <2>1, <2>2, <2>3, <2>4 DEF SessionTypes, SessionTypeOK
<1> QED  BY <1>1, <1>2 DEF RunSession

\* Whoever publishes, ends a turn or acknowledges one.
LEMMA ControllerTypes ==
    ASSUME SessionTypes, UNCHANGED <<main, writer, link, initial, relay, breaks>>,
           reader'.pc \in {"none", "reading", "query", "start", "announce", "returned"},
           UNCHANGED queue \/ \E message \in Messages : Publish(message),
           slot' \in Turns \cup {NoTurn}, lastTerminal' \in Turns \cup {NoTurn},
           DOMAIN turn' = Turns, outbox' \in Seq(Turns)
    PROVE  SessionTypes'
<1>1. /\ outbound' \in Seq(Messages) /\ Len(outbound') <= QueueSize
      /\ idleDropped' \in BOOLEAN
  <2>1. CASE UNCHANGED queue
    BY <2>1 DEF queue, SessionTypes, SessionTypeOK
  <2> QED  BY <2>1, PublishTypes
<1> QED  BY <1>1 DEF SessionTypes, SessionTypeOK, link, relay

LEMMA ReaderTypes ==
    ASSUME SessionTypes, Handler \/ Receive \/ ReadFails
    PROVE  SessionTypes'
<1>1. /\ slot \in Turns \cup {NoTurn} /\ lastTerminal \in Turns \cup {NoTurn}
      /\ DOMAIN turn = Turns /\ outbox \in Seq(Turns)
  BY DEF SessionTypes, SessionTypeOK
<1>2. CASE QueryReturns \/ ReceiveQuery \/ ReadFails
  BY <1>1, <1>2, ControllerTypes, MessagesAre
     DEF QueryReturns, ReceiveQuery, ReadFails, Reader, Reading, Querying, controller
<1>3. ASSUME NEW t \in Turns, ReceiveStart(t) \/ AnnounceRunning(t)
      PROVE  SessionTypes'
  BY <1>1, <1>3, ControllerTypes, MessagesAre
     DEF ReceiveStart, AnnounceRunning, Reader, Reading, Starting, controller
<1>4. ASSUME NEW t \in Turns, StartTurn(t)
      PROVE  SessionTypes'
  BY <1>1, <1>4, ControllerTypes
     DEF StartTurn, Reader, Reading, Announcing, controller
<1>5. ASSUME NEW t \in Turns, ReceiveAck(t)
      PROVE  SessionTypes'
  <2>1. PICK k \in DOMAIN outbox : outbox' = RemoveAt(outbox, k)
    BY <1>5 DEF ReceiveAck
  <2>2. RemoveAt(outbox, k) \in Seq(Turns)
    BY <1>1 DEF RemoveAt
  <2> QED  BY <1>1, <1>5, <2>1, <2>2, ControllerTypes
           DEF ReceiveAck, Reader, Reading, controller
<1> QED  BY <1>2, <1>3, <1>4, <1>5 DEF Handler, Receive

LEMMA TurnStepTypes ==
    ASSUME SessionTypes, NEW t \in Turns, Execute(t) \/ Replay(t)
    PROVE  SessionTypes'
<1>1. /\ slot \in Turns \cup {NoTurn} /\ lastTerminal \in Turns \cup {NoTurn}
      /\ DOMAIN turn = Turns /\ outbox \in Seq(Turns) /\ Append(outbox, t) \in Seq(Turns)
      /\ reader.pc \in {"none", "reading", "query", "start", "announce", "returned"}
  BY DEF SessionTypes, SessionTypeOK
<1>2. CASE Replay(t)
  BY <1>1, <1>2, ControllerTypes, MessagesAre DEF Replay, loops, rest, controller
<1>3. CASE Execute(t)
  BY <1>1, <1>3, ControllerTypes, MessagesAre
     DEF Execute, RecordEnd, PublishEnd, FreeSlot, AnnounceIdle, Turn, loops, controller
<1> QED  BY <1>2, <1>3

LEMMA WriterTypes ==
    ASSUME SessionTypes, WriteNext \/ WriterStops \/ Ping \/ Pong \/ PingFails \/ Break
    PROVE  SessionTypes'
<1>1. CASE WriteNext
  <2>1. /\ outbound # << >> /\ outbound \in Seq(Messages) /\ Len(outbound) <= QueueSize
        /\ outbound' = Tail(outbound)
    BY <1>1 DEF WriteNext, SessionTypes, SessionTypeOK
  <2>2. /\ Head(outbound) \in Messages
        /\ outbound' \in Seq(Messages) /\ Len(outbound') <= QueueSize
    BY <2>1, QueueSizeAssumption
  <2>3. known' \subseteq Turns
    BY <1>1, <2>2, DeliverTypes DEF WriteNext, relay, SessionTypes, SessionTypeOK
  <2>4. /\ writer' \in {"select", "returned"}
        /\ UNCHANGED <<main, reader, link, initial, idleDropped, rest>>
    BY <1>1 DEF WriteNext, Writer
  <2> QED  BY <2>2, <2>3, <2>4 DEF SessionTypes, SessionTypeOK, link, rest, controller
<1>2. CASE WriterStops \/ Ping \/ Pong \/ PingFails
  BY <1>2 DEF WriterStops, Ping, Pong, PingFails, Writer, SessionTypes, SessionTypeOK,
              link, rest, controller, relay
<1>3. CASE Break
  <2>1. breaks' \in 0..MaxBreaks
    BY <1>3, MaxBreaksAssumption DEF Break, SessionTypes, SessionTypeOK
  <2> QED  BY <1>3, <2>1 DEF Break, SessionTypes, SessionTypeOK, loops, queue, controller,
                             relay
<1> QED  BY <1>1, <1>2, <1>3

LEMMA SessionTypesInit == SessionInit => SessionTypes
<1> SUFFICES ASSUME SessionInit PROVE SessionTypes
  OBVIOUS
<1>1. /\ << >> \in Seq(Messages) /\ << >> \in Seq(Turns) /\ Len(<< >>) <= QueueSize
      /\ 0 \in 0..MaxBreaks /\ DOMAIN [t \in Turns |-> "new"] = Turns
  BY QueueSizeAssumption, MaxBreaksAssumption
<1>2. /\ outbound \in Seq(Messages) /\ initial \in Seq(Messages) /\ outbox \in Seq(Turns)
      /\ Len(outbound) <= QueueSize /\ main = "none"
  BY <1>1 DEF SessionInit
<1>3. SessionTypeOK
  BY <1>1, <1>2 DEF SessionInit, SessionTypeOK
<1> QED  BY <1>2, <1>3 DEF SessionTypes

LEMMA SessionTypesStep ==
    ASSUME SessionTypes, [SessionNext]_sessionVars
    PROVE  SessionTypes'
<1>1. CASE UNCHANGED sessionVars
  BY <1>1 DEF sessionVars, SessionTypes, SessionTypeOK, loops, link, queue, controller,
              relay
<1> QED  BY <1>1, RunSessionTypes, ReaderTypes, WriterTypes, TurnStepTypes DEF SessionNext

\* The queue of a session keeps its limit, and what the relay is told to have ended is a
\* run that has (SessionTypeOK).
THEOREM SessionTyping == SessionSpec => []SessionTypeOK
<1>1. SessionTypes => SessionTypeOK
  BY DEF SessionTypes
<1> QED  BY <1>1, SessionTypesInit, SessionTypesStep, PTL DEF SessionSpec

-----------------------------------------------------------------------------
(* Listings: the dates for which a text is good *)

Partial(S) == UNION {[D -> S] : D \in SUBSET Threads}
JobStates == [pc : {"left", "lookup", "fetch"}]
             \cup [pc : {"store", "done"}, text : Int]

InventoryTypes ==
    /\ dates \in [Threads -> Seq(Nat)]
    /\ listing \in [Callers -> [pc : {"idle", "jobs", "returned"}, dates : Partial(Nat)]]
    /\ job \in [Callers -> Partial(JobStates)]
    /\ cache \in Partial([date : Nat, text : Int])

\* A text of the session that is as new as a date, or what stands for none.
GoodFor(t, text, date) ==
    text = Fallback \/ (text \in 0..Len(dates[t]) /\ DateOf(t, text) >= date)

CacheIsGood == \A t \in DOMAIN cache : GoodFor(t, cache[t].text, cache[t].date)

\* What a session of a listing may be: a text that is still to be stored is good, and
\* so is one that is done with.
GoodState(t, state, date) ==
    state.pc \in {"store", "done"} => GoodFor(t, state.text, date)

ListingsAreGood ==
    \A c \in Callers :
        /\ DOMAIN job[c] = DOMAIN listing[c].dates
        /\ \A t \in DOMAIN job[c] :
              /\ listing[c].dates[t] <= UpdatedAt(t)
              /\ GoodState(t, job[c][t], listing[c].dates[t])
              /\ listing[c].pc = "returned" => job[c][t].pc = "done"

PreviewInv == InventoryTypes /\ CacheIsGood /\ ListingsAreGood

\* The newest text has the date of the session.
LEMMA NewestIsGood ==
    ASSUME InventoryTypes, NEW t \in Threads
    PROVE  /\ UpdatedAt(t) \in Nat
           /\ \A date \in Nat : date <= UpdatedAt(t) => GoodFor(t, Len(dates[t]), date)
<1>1. dates[t] \in Seq(Nat) /\ Len(dates[t]) \in Nat
  BY DEF InventoryTypes
<1>2. DateOf(t, Len(dates[t])) \in Nat
  BY <1>1 DEF DateOf
<1> QED  BY <1>1, <1>2 DEF UpdatedAt, GoodFor

LEMMA InitPreview == InventoryInit => PreviewInv
<1> SUFFICES ASSUME InventoryInit PROVE PreviewInv
  OBVIOUS
<1>1. ASSUME NEW S PROVE << >> \in Partial(S)
  <2>1. << >> \in [{} -> S]
    OBVIOUS
  <2> QED  BY <2>1 DEF Partial
<1>2. InventoryTypes
  BY <1>1 DEF InventoryInit, InventoryTypes, NoListing
<1> QED  BY <1>2 DEF InventoryInit, PreviewInv, CacheIsGood, ListingsAreGood, NoListing

\* A text stays as good as it was when a session gets another.
LEMMA UpdateKeeps ==
    ASSUME PreviewInv, NEW u \in Threads, Update(u)
    PROVE  PreviewInv'
<1>1. PICK later \in {0, 1} :
         dates' = [dates EXCEPT ![u] = Append(@, UpdatedAt(u) + later)]
  BY DEF Update
<1>2. UpdatedAt(u) + later \in Nat /\ UpdatedAt(u) + later >= UpdatedAt(u)
  BY NewestIsGood DEF PreviewInv
<1>3. dates' \in [Threads -> Seq(Nat)]
  BY <1>1, <1>2 DEF PreviewInv, InventoryTypes
<1>4. ASSUME NEW t \in Threads, NEW text \in 0..Len(dates[t])
      PROVE  text \in 0..Len(dates'[t]) /\ DateOf(t, text)' = DateOf(t, text)
  <2>1. dates[t] \in Seq(Nat)
    BY DEF PreviewInv, InventoryTypes
  <2> QED  BY <1>1, <1>2, <2>1 DEF DateOf, PreviewInv, InventoryTypes
<1>5. ASSUME NEW t \in Threads
      PROVE  UpdatedAt(t)' >= UpdatedAt(t)
  <2>1. CASE t = u
    <3>1. dates[u] \in Seq(Nat) /\ dates'[u] = Append(dates[u], UpdatedAt(u) + later)
      BY <1>1 DEF PreviewInv, InventoryTypes
    <3>2. UpdatedAt(u)' = UpdatedAt(u) + later
      BY <3>1 DEF UpdatedAt, DateOf
    <3> QED  BY <1>2, <2>1, <3>2
  <2>2. CASE t # u
    <3>1. dates'[t] = dates[t]
      BY <1>1, <2>2 DEF PreviewInv, InventoryTypes
    <3> QED  BY <3>1, NewestIsGood DEF UpdatedAt, DateOf, PreviewInv
  <2> QED  BY <2>1, <2>2
<1>6. ASSUME NEW t \in Threads, NEW text, NEW date, GoodFor(t, text, date)
      PROVE  GoodFor(t, text, date)'
  BY <1>4, <1>6 DEF GoodFor
<1>7. CacheIsGood'
  <2>1. cache' = cache /\ DOMAIN cache \subseteq Threads
    BY DEF Update, PreviewInv, InventoryTypes, Partial
  <2> QED  BY <1>6, <2>1 DEF CacheIsGood, PreviewInv
<1>8. ListingsAreGood'
  <2> SUFFICES ASSUME NEW c \in Callers, NEW t \in DOMAIN job[c]
               PROVE  /\ listing[c].dates[t] <= UpdatedAt(t)'
                      /\ GoodState(t, job[c][t], listing[c].dates[t])'
    BY DEF ListingsAreGood, PreviewInv, Update
  <2>1. t \in Threads /\ listing[c].dates[t] \in Nat
    BY DEF PreviewInv, InventoryTypes, Partial, ListingsAreGood
  <2>2. UpdatedAt(t) \in Nat /\ UpdatedAt(t)' \in Nat
    BY <1>3, <2>1, NewestIsGood DEF PreviewInv, UpdatedAt, DateOf
  <2>3. listing[c].dates[t] <= UpdatedAt(t)'
    BY <1>5, <2>1, <2>2 DEF PreviewInv, ListingsAreGood
  <2>4. GoodState(t, job[c][t], listing[c].dates[t])'
    BY <1>6, <2>1 DEF GoodState, PreviewInv, ListingsAreGood, Update
  <2> QED  BY <2>3, <2>4
<1> QED  BY <1>3, <1>7, <1>8 DEF PreviewInv, InventoryTypes, Update

\* A worker that is not through with a session brings it into a state that is good.
LEMMA SessionAdvances ==
    ASSUME PreviewInv, NEW c \in Callers, NEW t \in Owned(c), NEW state \in JobStates,
           job[c][t].pc # "done", GoodState(t, state, listing[c].dates[t]),
           Becomes(c, t, state), UNCHANGED <<dates, listing>>
    PROVE  job' \in [Callers -> Partial(JobStates)] /\ ListingsAreGood'
<1>1. job \in [Callers -> Partial(JobStates)] /\ job[c] \in Partial(JobStates)
  BY DEF PreviewInv, InventoryTypes
<1>2. PICK D \in SUBSET Threads : job[c] \in [D -> JobStates]
  BY <1>1 DEF Partial
<1>3. job' = [job EXCEPT ![c] = [job[c] EXCEPT ![t] = state]]
  BY DEF Becomes
<1>4. /\ t \in D /\ job'[c] = [job[c] EXCEPT ![t] = state]
      /\ job'[c] \in [D -> JobStates]
  BY <1>1, <1>2, <1>3 DEF Owned
<1>5. job'[c] \in Partial(JobStates)
  BY <1>4 DEF Partial
<1>6. \A d \in Callers \ {c} : job'[d] = job[d]
  BY <1>1, <1>3
<1>7. job' \in [Callers -> Partial(JobStates)]
  BY <1>1, <1>3, <1>4, <1>5
<1>8. ListingsAreGood'
  <2> SUFFICES ASSUME NEW d \in Callers
               PROVE  /\ DOMAIN job'[d] = DOMAIN listing[d].dates
                      /\ \A u \in DOMAIN job'[d] :
                            /\ listing[d].dates[u] <= UpdatedAt(u)
                            /\ GoodState(u, job'[d][u], listing[d].dates[u])
                            /\ listing[d].pc = "returned" => job'[d][u].pc = "done"
    BY DEF ListingsAreGood, GoodState, GoodFor, UpdatedAt, DateOf
  <2>1. CASE d # c
    BY <1>6, <2>1 DEF PreviewInv, ListingsAreGood
  <2>2. CASE d = c
    <3>1. DOMAIN job'[c] = DOMAIN job[c]
      BY <1>4
    <3>2. job'[c][t] = state /\ \A u \in D \ {t} : job'[c][u] = job[c][u]
      BY <1>2, <1>4
    <3>3. listing[c].pc # "returned"
      BY <1>2, <1>4 DEF PreviewInv, ListingsAreGood
    <3> QED  BY <1>2, <1>4, <2>2, <3>1, <3>2, <3>3 DEF PreviewInv, ListingsAreGood
  <2> QED  BY <2>1, <2>2
<1> QED  BY <1>7, <1>8

\* The sessions a listing works on are sessions, with a state and a date each.
LEMMA OfListing ==
    ASSUME PreviewInv, NEW c \in Callers, NEW t \in Owned(c)
    PROVE  /\ t \in Threads /\ listing[c].dates[t] \in Nat
           /\ job[c][t] \in JobStates
           /\ listing[c].dates[t] <= UpdatedAt(t)
           /\ GoodState(t, job[c][t], listing[c].dates[t])
<1>1. PICK D \in SUBSET Threads : job[c] \in [D -> JobStates]
  BY DEF PreviewInv, InventoryTypes, Partial
<1>2. listing[c].dates \in Partial(Nat)
  BY DEF PreviewInv, InventoryTypes
<1>3. PICK E \in SUBSET Threads : listing[c].dates \in [E -> Nat]
  BY <1>2 DEF Partial
<1> QED  BY <1>1, <1>3 DEF Owned, PreviewInv, ListingsAreGood

\* A call begins with dates that are true, ends with no session left, and leaves nothing.
LEMMA CallKeeps ==
    ASSUME PreviewInv, NEW c \in Callers, List(c) \/ Return(c) \/ Forget(c)
    PROVE  PreviewInv'
<1>1. dates' = dates /\ cache' = cache
  BY DEF List, Return, Forget
<1>2. CacheIsGood'
  BY <1>1 DEF CacheIsGood, GoodFor, DateOf, PreviewInv
<1>3. \A t \in Threads : UpdatedAt(t)' = UpdatedAt(t)
  BY <1>1 DEF UpdatedAt, DateOf
<1> DEFINE Proper(l, j) ==
             /\ \A t \in DOMAIN j :
                   /\ l.dates[t] <= UpdatedAt(t)
                   /\ GoodState(t, j[t], l.dates[t])
                   /\ l.pc = "returned" => j[t].pc = "done"
             /\ l \in [pc : {"idle", "jobs", "returned"}, dates : Partial(Nat)]
             /\ j \in Partial(JobStates)
             /\ DOMAIN j = DOMAIN l.dates
             /\ listing' = [listing EXCEPT ![c] = l]
             /\ job' = [job EXCEPT ![c] = j]
<1>4. PICK l, j : Proper(l, j)
  <2>1. CASE List(c)
    <3>1. PICK owned \in SUBSET Threads :
            /\ listing' = [listing EXCEPT ![c] =
                  [pc |-> "jobs", dates |-> [t \in owned |-> UpdatedAt(t)]]]
            /\ job' = [job EXCEPT ![c] = [t \in owned |-> Left]]
      BY <2>1 DEF List
    <3> DEFINE given == [t \in owned |-> UpdatedAt(t)]
               left == [t \in owned |-> Left]
    <3>2. given \in Partial(Nat)
      <4>1. given \in [owned -> Nat]
        BY NewestIsGood DEF PreviewInv
      <4> QED  BY <4>1 DEF Partial
    <3>3. left \in Partial(JobStates)
      <4>1. left \in [owned -> JobStates]
        BY DEF Left, JobStates
      <4> QED  BY <4>1 DEF Partial
    <3>4. \A t \in owned : given[t] <= UpdatedAt(t) /\ GoodState(t, left[t], given[t])
      BY NewestIsGood DEF PreviewInv, GoodState, Left
    <3> DEFINE l == [pc |-> "jobs", dates |-> given]
    <3>5. /\ l \in [pc : {"idle", "jobs", "returned"}, dates : Partial(Nat)]
          /\ l.pc = "jobs" /\ l.dates = given
      BY <3>2
    <3>6. DOMAIN left = owned /\ DOMAIN given = owned
      OBVIOUS
    <3> HIDE DEF left, given
    <3>7. listing' = [listing EXCEPT ![c] = l] /\ job' = [job EXCEPT ![c] = left]
      BY <3>1 DEF left, given
    <3> HIDE DEF l
    <3>8. Proper(l, left)
      BY <3>3, <3>4, <3>5, <3>6, <3>7
    <3> QED  BY <3>8
  <2>2. CASE Return(c)
    <3> DEFINE l == [listing[c] EXCEPT !.pc = "returned"]
    <3>1. listing[c] \in [pc : {"idle", "jobs", "returned"}, dates : Partial(Nat)]
      BY DEF PreviewInv, InventoryTypes
    <3>2. /\ l \in [pc : {"idle", "jobs", "returned"}, dates : Partial(Nat)]
          /\ l.dates = listing[c].dates
      BY <3>1
    <3>3. /\ job[c] \in Partial(JobStates) /\ job' = [job EXCEPT ![c] = job[c]]
          /\ listing' = [listing EXCEPT ![c] = l]
      BY <2>2 DEF Return, PreviewInv, InventoryTypes
    <3>4. ASSUME NEW t \in DOMAIN job[c]
          PROVE  /\ listing[c].dates[t] <= UpdatedAt(t)
                 /\ GoodState(t, job[c][t], listing[c].dates[t])
                 /\ job[c][t].pc = "done"
      <4>1. job[c][t].pc \notin {"left", "lookup", "fetch", "store"}
        BY <2>2 DEF Return, AllDone, AtWork, In, Owned
      <4>2. job[c][t].pc \in {"left", "lookup", "fetch", "store", "done"}
        BY OfListing DEF Owned, JobStates
      <4> QED  BY <4>1, <4>2, OfListing DEF Owned
    <3>5. DOMAIN job[c] = DOMAIN l.dates
      BY <3>2 DEF PreviewInv, ListingsAreGood
    <3>6. \A t \in DOMAIN job[c] :
            /\ l.dates[t] <= UpdatedAt(t)
            /\ GoodState(t, job[c][t], l.dates[t])
            /\ l.pc = "returned" => job[c][t].pc = "done"
      BY <3>2, <3>4
    <3> HIDE DEF l
    <3>7. Proper(l, job[c])
      BY <3>2, <3>3, <3>5, <3>6
    <3> QED  BY <3>7
  <2>3. CASE Forget(c)
    <3>1. ASSUME NEW S PROVE << >> \in Partial(S)
      <4>1. << >> \in [{} -> S]
        OBVIOUS
      <4> QED  BY <4>1 DEF Partial
    <3>2. NoListing \in [pc : {"idle", "jobs", "returned"}, dates : Partial(Nat)]
      BY <3>1 DEF NoListing
    <3>3. DOMAIN << >> = {} /\ DOMAIN NoListing.dates = {}
      BY DEF NoListing
    <3>4. Proper(NoListing, << >>)
      BY <2>3, <3>1, <3>2, <3>3 DEF Forget
    <3> QED  BY <3>4
  <2> QED  BY <2>1, <2>2, <2>3
<1>5. /\ listing'[c] = l /\ job'[c] = j
      /\ \A d \in Callers \ {c} : listing'[d] = listing[d] /\ job'[d] = job[d]
  BY <1>4 DEF PreviewInv, InventoryTypes
<1>6. InventoryTypes'
  BY <1>1, <1>4 DEF PreviewInv, InventoryTypes
<1>7. ListingsAreGood'
  <2> SUFFICES ASSUME NEW d \in Callers
               PROVE  /\ DOMAIN job'[d] = DOMAIN listing'[d].dates
                      /\ \A t \in DOMAIN job'[d] :
                            /\ listing'[d].dates[t] <= UpdatedAt(t)
                            /\ GoodState(t, job'[d][t], listing'[d].dates[t])
                            /\ listing'[d].pc = "returned" => job'[d][t].pc = "done"
    BY <1>1 DEF ListingsAreGood, GoodState, GoodFor, UpdatedAt, DateOf
  <2>1. CASE d # c
    BY <1>5, <2>1 DEF PreviewInv, ListingsAreGood
  <2>2. CASE d = c
    BY <1>4, <1>5, <2>2
  <2> QED  BY <2>1, <2>2
<1> QED  BY <1>2, <1>6, <1>7 DEF PreviewInv

\* The places of a worker: it takes up a session, finds its preview in the cache, asks
\* for it, and gives up; what it has asked for is the newest text.
LEMMA WorkKeeps ==
    ASSUME PreviewInv, NEW c \in Callers, NEW t \in Threads,
           Feed(c, t) \/ Lookup(c, t) \/ Fetch(c, t) \/ FetchFails(c, t)
    PROVE  PreviewInv'
<1>1. /\ dates' = dates /\ listing' = listing /\ cache' = cache
      /\ t \in Owned(c)
  BY DEF Feed, Lookup, Fetch, FetchFails, In
<1>2. job[c][t].pc # "done"
  BY DEF Feed, Lookup, Fetch, FetchFails, In
<1>3. PICK state \in JobStates :
        GoodState(t, state, listing[c].dates[t]) /\ Becomes(c, t, state)
  <2>1. CASE Feed(c, t)
    BY <2>1 DEF Feed, JobStates, GoodState, Becomes
  <2>2. CASE Lookup(c, t)
    <3>1. CASE Hit(c, t)
      <4>1. PICK D \in SUBSET Threads : cache \in [D -> [date : Nat, text : Int]]
        BY DEF PreviewInv, InventoryTypes, Partial
      <4>2. GoodFor(t, cache[t].text, listing[c].dates[t]) /\ cache[t].text \in Int
        BY <3>1, <4>1 DEF Hit, PreviewInv, CacheIsGood
      <4> QED  BY <2>2, <3>1, <4>2 DEF Lookup, Done, JobStates, GoodState
    <3>2. CASE ~Hit(c, t)
      BY <2>2, <3>2 DEF Lookup, JobStates, GoodState
    <3> QED  BY <3>1, <3>2
  <2>3. CASE Fetch(c, t)
    <3>1. GoodFor(t, Len(dates[t]), listing[c].dates[t])
      BY <1>1, OfListing, NewestIsGood DEF PreviewInv
    <3>2. Len(dates[t]) \in Int
      BY DEF PreviewInv, InventoryTypes
    <3>3. GoodFor(t, Fallback, listing[c].dates[t]) /\ Fallback \in Int
      BY DEF GoodFor, Fallback
    <3>4. PICK text \in {Len(dates[t]), Fallback} :
              Becomes(c, t, [pc |-> "store", text |-> text])
      BY <2>3 DEF Fetch
    <3>5. GoodFor(t, text, listing[c].dates[t]) /\ text \in Int
      BY <3>1, <3>2, <3>3, <3>4
    <3>6. PICK asked : asked = [pc |-> "store", text |-> text]
      OBVIOUS
    <3>7. asked \in JobStates /\ GoodState(t, asked, listing[c].dates[t])
      BY <3>5, <3>6 DEF JobStates, GoodState
    <3> QED  BY <3>4, <3>6, <3>7 DEF Becomes
  <2>4. CASE FetchFails(c, t)
    <3>1. PICK given : given = Done(Fallback)
      OBVIOUS
    <3>2. given \in JobStates /\ GoodState(t, given, listing[c].dates[t])
      BY <3>1 DEF Done, Fallback, JobStates, GoodState, GoodFor
    <3> QED  BY <2>4, <3>1, <3>2 DEF FetchFails, Becomes
  <2> QED  BY <2>1, <2>2, <2>3, <2>4
<1>4. job' \in [Callers -> Partial(JobStates)] /\ ListingsAreGood'
  BY <1>1, <1>2, <1>3, SessionAdvances
<1>5. CacheIsGood'
  BY <1>1 DEF CacheIsGood, GoodFor, DateOf, PreviewInv
<1> QED  BY <1>1, <1>4, <1>5 DEF PreviewInv, InventoryTypes

\* What goes into the cache is good for the date it is filed under, also when another
\* listing has filed a newer text of the session in the meantime.
LEMMA StoreKeeps ==
    ASSUME PreviewInv, NEW c \in Callers, NEW t \in Threads, Store(c, t)
    PROVE  PreviewInv'
<1>1. /\ dates' = dates /\ listing' = listing
      /\ t \in Owned(c) /\ job[c][t].pc = "store"
  BY DEF Store, In
<1>2. /\ job[c][t].text \in Int
      /\ listing[c].dates[t] \in Nat
      /\ GoodFor(t, job[c][t].text, listing[c].dates[t])
  BY <1>1, OfListing DEF JobStates, GoodState
<1>3. Done(job[c][t].text) \in JobStates
      /\ GoodState(t, Done(job[c][t].text), listing[c].dates[t])
  BY <1>2 DEF Done, JobStates, GoodState
<1>4. job' \in [Callers -> Partial(JobStates)] /\ ListingsAreGood'
  BY <1>1, <1>3, SessionAdvances DEF Store
<1> DEFINE entry == [date |-> listing[c].dates[t], text |-> job[c][t].text]
<1>5. PICK room \in WithRoom : cache' = With(room, t, entry)
  BY DEF Store
<1>6. PICK D \in SUBSET Threads : cache \in [D -> [date : Nat, text : Int]]
  BY DEF PreviewInv, InventoryTypes, Partial
<1>7. /\ room = [x \in DOMAIN room |-> cache[x]] /\ DOMAIN room \subseteq D
  <2>1. cache = [x \in DOMAIN cache |-> cache[x]]
    BY <1>6
  <2>2. CASE room = cache
    BY <1>6, <2>1, <2>2
  <2>3. CASE \E k \in DOMAIN cache : room = Without(cache, k)
    BY <1>6, <2>3 DEF Without
  <2> QED  BY <1>5, <2>2, <2>3 DEF WithRoom
<1>8. entry \in [date : Nat, text : Int] /\ GoodFor(t, entry.text, entry.date)
  BY <1>2 DEF GoodFor, PreviewInv, InventoryTypes
<1>9. DOMAIN cache' = DOMAIN room \cup {t}
      /\ \A x \in DOMAIN cache' : cache'[x] = IF x = t THEN entry ELSE cache[x]
  <2> HIDE DEF entry
  <2> QED  BY <1>5, <1>7 DEF With
<1>10. cache' \in Partial([date : Nat, text : Int])
  <2>1. cache' = [x \in DOMAIN cache' |-> cache'[x]]
    BY <1>5 DEF With
  <2>2. cache' \in [DOMAIN cache' -> [date : Nat, text : Int]]
    <3> HIDE DEF entry
    <3> QED  BY <1>6, <1>7, <1>8, <1>9, <2>1
  <2> QED  BY <1>7, <1>9, <2>2 DEF Partial
<1>11. CacheIsGood'
  <2> SUFFICES ASSUME NEW x \in DOMAIN cache'
               PROVE  GoodFor(x, cache'[x].text, cache'[x].date)
    BY <1>1 DEF CacheIsGood, GoodFor, DateOf
  <2>1. CASE x = t
    BY <1>8, <1>9, <2>1
  <2>2. CASE x # t
    BY <1>6, <1>7, <1>9, <2>2 DEF PreviewInv, CacheIsGood
  <2> QED  BY <2>1, <2>2
<1> QED  BY <1>1, <1>4, <1>10, <1>11 DEF PreviewInv, InventoryTypes

\* Every text in the cache and in a listing stays good for its date.
THEOREM PreviewsStayGood == InventorySpec => []PreviewInv
<1>1. PreviewInv /\ [InventoryNext]_inventoryVars => PreviewInv'
  <2> SUFFICES ASSUME PreviewInv, [InventoryNext]_inventoryVars PROVE PreviewInv'
    OBVIOUS
  <2>1. CASE UNCHANGED inventoryVars
    BY <2>1 DEF inventoryVars, PreviewInv, InventoryTypes, CacheIsGood, ListingsAreGood,
                GoodState, GoodFor, UpdatedAt, DateOf
  <2>2. ASSUME NEW t \in Threads, Update(t) PROVE PreviewInv'
    BY <2>2, UpdateKeeps
  <2>3. ASSUME NEW c \in Callers, List(c) \/ Return(c) \/ Forget(c) PROVE PreviewInv'
    BY <2>3, CallKeeps
  <2>4. ASSUME NEW c \in Callers, NEW t \in Threads, Work(c, t) PROVE PreviewInv'
    BY <2>4, WorkKeeps, StoreKeeps DEF Work
  <2> QED  BY <2>1, <2>2, <2>3, <2>4 DEF InventoryNext
<1> QED  BY <1>1, InitPreview, PTL DEF InventorySpec

\* A listing returns a preview for each of its sessions, none older than the session's
\* date in that listing (PreviewIsCurrent), for any number of listings at a time.
THEOREM PreviewsAreCurrent == InventorySpec => []PreviewIsCurrent
<1>1. PreviewInv => PreviewIsCurrent
  <2> SUFFICES ASSUME PreviewInv, NEW c \in Callers, listing[c].pc = "returned",
                      NEW t \in Owned(c)
               PROVE  /\ job[c][t].pc = "done"
                      /\ \/ job[c][t].text = Fallback
                         \/ DateOf(t, job[c][t].text) >= listing[c].dates[t]
    BY DEF PreviewIsCurrent
  <2> QED  BY DEF PreviewInv, ListingsAreGood, Owned, GoodState, GoodFor
<1> QED  BY <1>1, PreviewsStayGood, PTL

-----------------------------------------------------------------------------
(* Listings: workers and the cache *)

\* The bounds: workers of a listing, and entries of the cache.
InventoryBounds ==
    /\ \A c \in Callers : Cardinality(AtWork(c)) <= Workers
    /\ Cardinality(DOMAIN cache) <= CacheSize

LEMMA AtWorkIsFinite ==
    ASSUME PreviewInv, NEW c \in Callers
    PROVE  Owned(c) \subseteq Threads /\ IsFiniteSet(AtWork(c))
<1>1. Owned(c) \subseteq Threads
  BY DEF PreviewInv, InventoryTypes, Partial, Owned
<1> QED  BY <1>1, FS_Subset, ThreadsAssumption DEF AtWork, In

\* Who has fewer at work than before has not too many.
LEMMA FewerAtWork ==
    ASSUME PreviewInv, InventoryBounds, NEW c \in Callers, NEW some \in SUBSET AtWork(c)
    PROVE  Cardinality(some) <= Workers
<1>1. IsFiniteSet(AtWork(c)) /\ Cardinality(AtWork(c)) <= Workers
  BY AtWorkIsFinite DEF InventoryBounds
<1>2. /\ Cardinality(some) \in Nat /\ Cardinality(AtWork(c)) \in Nat
      /\ Cardinality(some) <= Cardinality(AtWork(c))
  BY <1>1, FS_Subset, FS_CardinalityType
<1> QED  BY <1>1, <1>2, WorkersAssumption

\* A call begins and ends with nobody at work.
LEMMA CallBounds ==
    ASSUME PreviewInv, InventoryBounds, NEW c \in Callers,
           List(c) \/ Return(c) \/ Forget(c)
    PROVE  InventoryBounds'
<1>1. ASSUME NEW d \in Callers
      PROVE  AtWork(d)' \subseteq AtWork(d)
  <2>1. CASE job'[d] = job[d]
    BY <2>1 DEF AtWork, In, Owned
  <2>2. CASE d = c /\ List(c)
    <3>1. PICK owned \in SUBSET Threads : job' = [job EXCEPT ![c] = [t \in owned |-> Left]]
      BY <2>2 DEF List
    <3>2. job'[c] = [t \in owned |-> Left]
      BY <3>1 DEF PreviewInv, InventoryTypes
    <3>3. \A t \in DOMAIN job'[c] : job'[c][t].pc = "left"
      BY <3>2 DEF Left
    <3> QED  BY <2>2, <3>3 DEF AtWork, In, Owned
  <2>3. CASE d = c /\ Forget(c)
    <3>1. DOMAIN job'[c] = {}
      BY <2>3 DEF Forget, PreviewInv, InventoryTypes
    <3> QED  BY <2>3, <3>1 DEF AtWork, In, Owned
  <2> QED  BY <2>1, <2>2, <2>3 DEF List, Return, Forget, PreviewInv, InventoryTypes
<1>2. cache' = cache
  BY DEF List, Return, Forget
<1>3. ASSUME NEW d \in Callers PROVE Cardinality(AtWork(d)') <= Workers
  BY <1>1, FewerAtWork
<1> QED  BY <1>2, <1>3 DEF InventoryBounds

\* Only the feeding of a session puts another one to work, and there is a worker free.
LEMMA WorkBounds ==
    ASSUME PreviewInv, InventoryBounds, NEW c \in Callers, NEW t \in Threads, Work(c, t)
    PROVE  \A d \in Callers : Cardinality(AtWork(d)') <= Workers
<1>1. PICK state : job' = [job EXCEPT ![c][t] = state]
  BY DEF Work, Feed, Lookup, Fetch, FetchFails, Store, Becomes
<1>2. t \in Owned(c)
  BY DEF Work, Feed, Lookup, Fetch, FetchFails, Store, In
<1>3. /\ job \in [Callers -> Partial(JobStates)]
      /\ \A d \in Callers \ {c} : job'[d] = job[d]
      /\ DOMAIN job'[c] = Owned(c)
      /\ \A u \in Owned(c) \ {t} : job'[c][u] = job[c][u]
  BY <1>1, <1>2 DEF PreviewInv, InventoryTypes, Owned
<1>4. AtWork(c)' \subseteq AtWork(c) \cup {t}
  BY <1>3 DEF AtWork, In, Owned
<1>5. Cardinality(AtWork(c)') <= Workers
  <2>1. CASE Feed(c, t)
    <3>1. IsFiniteSet(AtWork(c)) /\ Cardinality(AtWork(c)) \in Nat
      BY AtWorkIsFinite, FS_CardinalityType
    <3>2. Cardinality(Owned(c)) \in Nat
      BY AtWorkIsFinite, FS_Subset, FS_CardinalityType, ThreadsAssumption
    <3>3. Cardinality(AtWork(c)) < Workers
      BY <2>1, <3>1, <3>2, WorkersAssumption DEF Feed, WorkerCount, Min2
    <3>4. /\ IsFiniteSet(AtWork(c) \cup {t})
          /\ Cardinality(AtWork(c) \cup {t}) <= Cardinality(AtWork(c)) + 1
          /\ Cardinality(AtWork(c) \cup {t}) \in Nat
      BY <3>1, FS_AddElement, FS_CardinalityType
    <3>5. /\ Cardinality(AtWork(c)') <= Cardinality(AtWork(c) \cup {t})
          /\ Cardinality(AtWork(c)') \in Nat
      BY <1>4, <3>4, FS_Subset, FS_CardinalityType
    <3> QED  BY <3>1, <3>3, <3>4, <3>5, WorkersAssumption
  <2>2. CASE ~Feed(c, t)
    <3>1. t \in AtWork(c)
      BY <2>2 DEF Work, Lookup, Fetch, FetchFails, Store, In, AtWork
    <3> QED  BY <1>4, <3>1, FewerAtWork
  <2> QED  BY <2>1, <2>2
<1>6. ASSUME NEW d \in Callers, d # c PROVE Cardinality(AtWork(d)') <= Workers
  <2>1. AtWork(d)' = AtWork(d)
    BY <1>3, <1>6 DEF AtWork, In, Owned
  <2> QED  BY <2>1 DEF InventoryBounds
<1> QED  BY <1>5, <1>6

\* A full cache loses an entry before it gets another.
LEMMA CacheBounds ==
    ASSUME PreviewInv, InventoryBounds, NEW c \in Callers, NEW t \in Threads, Work(c, t)
    PROVE  Cardinality(DOMAIN cache') <= CacheSize
<1>1. IsFiniteSet(DOMAIN cache) /\ Cardinality(DOMAIN cache) \in Nat
      /\ Cardinality(DOMAIN cache) <= CacheSize
  <2>1. DOMAIN cache \subseteq Threads
    BY DEF PreviewInv, InventoryTypes, Partial
  <2> QED  BY <2>1, FS_Subset, FS_CardinalityType, ThreadsAssumption DEF InventoryBounds
<1>2. CASE Store(c, t)
  <2>1. PICK room \in WithRoom : DOMAIN cache' = DOMAIN room \cup {t}
    BY <1>2 DEF Store, With
  <2>2. /\ IsFiniteSet(DOMAIN room) /\ Cardinality(DOMAIN room) \in Nat
        /\ Cardinality(DOMAIN room) < CacheSize
    <3>1. CASE Cardinality(DOMAIN cache) >= CacheSize
      <4>1. PICK k \in DOMAIN cache : room = Without(cache, k)
        BY <2>1, <3>1 DEF WithRoom
      <4>2. DOMAIN room = DOMAIN cache \ {k}
        BY <4>1 DEF Without
      <4>3. /\ IsFiniteSet(DOMAIN room)
            /\ Cardinality(DOMAIN room) = Cardinality(DOMAIN cache) - 1
        BY <1>1, <4>1, <4>2, FS_RemoveElement
      <4>4. Cardinality(DOMAIN room) \in Nat
        BY <4>3, FS_CardinalityType
      <4> QED  BY <1>1, <4>3, <4>4, CacheSizeAssumption
    <3>2. CASE ~(Cardinality(DOMAIN cache) >= CacheSize)
      <4>1. room = cache
        BY <2>1, <3>2 DEF WithRoom
      <4> QED  BY <1>1, <3>2, <4>1, CacheSizeAssumption
    <3> QED  BY <3>1, <3>2
  <2>3. Cardinality(DOMAIN room \cup {t}) <= Cardinality(DOMAIN room) + 1
        /\ Cardinality(DOMAIN room \cup {t}) \in Nat
    <3>1. /\ IsFiniteSet(DOMAIN room \cup {t})
          /\ Cardinality(DOMAIN room \cup {t})
               = IF t \in DOMAIN room THEN Cardinality(DOMAIN room)
                 ELSE Cardinality(DOMAIN room) + 1
      BY <2>2, FS_AddElement
    <3>2. Cardinality(DOMAIN room \cup {t}) \in Nat
      BY <3>1, FS_CardinalityType
    <3> QED  BY <2>2, <3>1, <3>2
  <2>4. Cardinality(DOMAIN room \cup {t}) <= CacheSize
    BY <2>2, <2>3, CacheSizeAssumption
  <2> QED  BY <2>1, <2>4
<1>3. CASE ~Store(c, t)
  BY <1>1, <1>3 DEF Work, Feed, Lookup, Fetch, FetchFails
<1> QED  BY <1>2, <1>3

LEMMA BoundsInit == InventoryInit => InventoryBounds
<1> SUFFICES ASSUME InventoryInit PROVE InventoryBounds
  OBVIOUS
<1>1. DOMAIN cache = {} /\ \A c \in Callers : AtWork(c) = {}
  BY DEF InventoryInit, AtWork, In, Owned
<1> QED  BY <1>1, FS_EmptySet, WorkersAssumption, CacheSizeAssumption DEF InventoryBounds

LEMMA BoundsStep ==
    ASSUME PreviewInv, InventoryBounds, [InventoryNext]_inventoryVars
    PROVE  InventoryBounds'
<1>1. CASE UNCHANGED inventoryVars \/ \E t \in Threads : Update(t)
  <2>1. job' = job /\ cache' = cache
    BY <1>1 DEF inventoryVars, Update
  <2> QED  BY <2>1 DEF InventoryBounds, AtWork, In, Owned
<1>2. ASSUME NEW c \in Callers, NEW t \in Threads, Work(c, t)
      PROVE  InventoryBounds'
  BY <1>2, WorkBounds, CacheBounds DEF InventoryBounds
<1>3. ASSUME NEW c \in Callers, List(c) \/ Return(c) \/ Forget(c)
      PROVE  InventoryBounds'
  BY <1>3, CallBounds
<1> QED  BY <1>1, <1>2, <1>3 DEF InventoryNext

\* No listing has more workers than it may and the cache never outgrows its limit, for
\* any number of listings that share it (InventoryTypeOK).
THEOREM InventoryTyping == InventorySpec => []InventoryTypeOK
<1>1. PreviewInv /\ InventoryBounds => InventoryTypeOK
  BY DEF PreviewInv, InventoryBounds, InventoryTypeOK, InventoryTypes, ListingsAreGood,
         Partial, Owned
<1>2. InventorySpec => []InventoryBounds
  BY BoundsInit, BoundsStep, PreviewsStayGood, PTL DEF InventorySpec
<1> QED  BY <1>1, <1>2, PreviewsStayGood, PTL

-----------------------------------------------------------------------------
(* The window of a source file *)

\* What a window, from line a to line b, has come to: it holds the line in focus, it is
\* the whole file if that fits, and none of the wider centred windows within the first
\* fits.
Widest(lines, focus, first, a, b) ==
    /\ a \in 1..focus /\ b \in focus..Len(lines)
    /\ a >= first.start /\ b <= first.end
    /\ Fits(lines, 1, Len(lines)) =>
          /\ a = 1 /\ b = Len(lines) /\ first = [start |-> 1, end |-> Len(lines)]
    /\ Centred(focus, first, a, b)
    /\ \A s \in first.start..focus, e \in focus..first.end :
          Centred(focus, first, s, e) /\ e - s > b - a => ~Fits(lines, s, e)

WindowSince(lines, focus, window, first) ==
    /\ lines \in Seq(Nat) /\ focus \in 1..Len(lines)
    /\ first \in [start : Int, end : Int]
    /\ \E a, b \in Int : /\ window = [start |-> a, end |-> b]
                         /\ Widest(lines, focus, first, a, b)

WindowInv ==
    /\ file \in Files \cup {Missing}
    /\ read.pc \in {"stat", "open", "shrink", "answered", "line_too_large", "refused"}
    /\ read.pc \in {"stat", "open"} =>
          read \in [pc : {"stat", "open"}, focus : Int, context : Int]
    /\ read.pc \in {"shrink", "answered", "line_too_large"} =>
          /\ DOMAIN read = {"pc", "lines", "focus", "window", "first"}
          /\ read = [x \in DOMAIN read |-> read[x]]
          /\ WindowSince(read.lines, read.focus, read.window, read.first)
    /\ read.pc = "answered" => ContentFits
    /\ read.pc = "line_too_large" =>
          read.window.start = read.window.end /\ ~ContentFits

\* The window at first, after the clamps on what was asked for.
LEMMA FirstWindow ==
    ASSUME NEW lines \in Seq(Nat), lines # << >>, NEW asked \in Int, NEW context \in Nat,
           NEW focus, focus = Lower(Len(lines), Higher(1, asked))
    PROVE  LET w == Window(lines, focus, context) IN WindowSince(lines, focus, w, w)
<1>1. Len(lines) \in Nat /\ Len(lines) >= 1
  OBVIOUS
<1>2. focus \in 1..Len(lines)
  BY <1>1 DEF Lower, Higher
<1>3. ASSUME NEW a \in 1..focus, NEW b \in focus..Len(lines), NEW w,
             w = [start |-> a, end |-> b],
             Fits(lines, 1, Len(lines)) => a = 1 /\ b = Len(lines)
      PROVE  WindowSince(lines, focus, w, w)
  <2>1. w \in [start : Int, end : Int] /\ w.start = a /\ w.end = b
    BY <1>1, <1>2, <1>3
  <2>2. Centred(focus, w, a, b)
    BY <2>1 DEF Centred
  <2>3. \A s \in a..focus, e \in focus..b : ~(e - s > b - a)
    BY <1>2
  <2>4. Widest(lines, focus, w, a, b)
    BY <1>2, <1>3, <2>1, <2>2, <2>3 DEF Widest
  <2> QED  BY <1>2, <1>3, <2>1, <2>4 DEF WindowSince
<1>4. CASE Fits(lines, 1, Len(lines))
  <2>1. Window(lines, focus, context) = [start |-> 1, end |-> Len(lines)]
    BY <1>4 DEF Window
  <2>2. 1 \in 1..focus /\ Len(lines) \in focus..Len(lines)
    BY <1>1, <1>2
  <2> QED  BY <1>3, <2>1, <2>2
<1>5. CASE ~Fits(lines, 1, Len(lines))
  <2>1. PICK a, b : a = Higher(1, focus - context) /\ b = Lower(Len(lines), focus + context)
    OBVIOUS
  <2>2. Window(lines, focus, context) = [start |-> a, end |-> b]
    BY <1>5, <2>1 DEF Window
  <2>3. a \in 1..focus /\ b \in focus..Len(lines)
    BY <1>1, <1>2, <2>1 DEF Higher, Lower
  <2> QED  BY <1>3, <1>5, <2>2, <2>3
<1> QED  BY <1>4, <1>5

\* There is one centred window of a length.
LEMMA OneCentred ==
    ASSUME NEW focus \in Int, NEW first \in [start : Int, end : Int],
           NEW a \in first.start..focus, NEW b \in focus..first.end,
           NEW s \in first.start..focus, NEW e \in focus..first.end,
           Centred(focus, first, a, b), Centred(focus, first, s, e), b - a = e - s
    PROVE  a = s /\ b = e
<1>1. PICK top \in Int, bottom \in Int : top = first.start /\ bottom = first.end
  OBVIOUS
<1>2. a > top => focus - a >= b - focus
  BY <1>1 DEF Centred
<1>3. b < bottom => focus - a <= b - focus + 1
  BY <1>1 DEF Centred
<1>4. s > top => focus - s >= e - focus
  BY <1>1 DEF Centred
<1>5. e < bottom => focus - s <= e - focus + 1
  BY <1>1 DEF Centred
<1>6. ~(a < s)
  BY <1>1, <1>2, <1>3, <1>4, <1>5
<1>7. ~(s < a)
  BY <1>1, <1>2, <1>3, <1>4, <1>5
<1> QED  BY <1>1, <1>6, <1>7

\* A line given away: the new window is centred too, and of the wider ones the one it
\* had been did not fit either.
LEMMA ShrinkWindow ==
    ASSUME NEW lines, NEW focus, NEW window, NEW first,
           WindowSince(lines, focus, window, first),
           ~Fits(lines, window.start, window.end), window.end > window.start
    PROVE  /\ DropFirst(window.start, window.end, focus) =>
                 WindowSince(lines, focus, [window EXCEPT !.start = @ + 1], first)
           /\ ~DropFirst(window.start, window.end, focus) =>
                 WindowSince(lines, focus, [window EXCEPT !.end = @ - 1], first)
<1>1. PICK s \in Int, e \in Int : /\ window = [start |-> s, end |-> e]
                                  /\ Widest(lines, focus, first, s, e)
  BY DEF WindowSince
<1>2. /\ lines \in Seq(Nat) /\ Len(lines) \in Nat /\ focus \in 1..Len(lines)
      /\ e > s /\ ~Fits(lines, s, e) /\ s \in 1..focus /\ e \in focus..Len(lines)
      /\ s >= first.start /\ e <= first.end
      /\ first \in [start : Int, end : Int]
      /\ Centred(focus, first, s, e)
  BY <1>1 DEF WindowSince, Widest
<1>3. ~Fits(lines, 1, Len(lines))
  BY <1>1, <1>2 DEF Widest
<1>4. PICK top \in Int, bottom \in Int : top = first.start /\ bottom = first.end
  BY <1>2
<1>5. /\ s > top => focus - s >= e - focus
      /\ e < bottom => focus - s <= e - focus + 1
  BY <1>2, <1>4 DEF Centred
<1>6. ASSUME NEW a \in first.start..focus, NEW b \in focus..first.end,
             Centred(focus, first, a, b), b - a > e - s - 1
      PROVE  ~Fits(lines, a, b)
  <2>1. CASE b - a > e - s
    BY <1>1, <1>6, <2>1 DEF Widest
  <2>2. CASE ~(b - a > e - s)
    <3>1. b - a = e - s
      BY <1>2, <1>4, <1>6, <2>2
    <3>2. s \in first.start..focus /\ e \in focus..first.end
      BY <1>2, <1>4
    <3>3. focus \in Int
      BY <1>2
    <3>4. s = a /\ e = b
      BY <1>2, <1>6, <3>1, <3>2, <3>3, OneCentred
    <3> QED  BY <1>2, <3>4
  <2> QED  BY <2>1, <2>2
<1>7. ASSUME NEW a \in 1..focus, NEW b \in focus..Len(lines), b - a = e - s - 1,
             a >= s, b <= e,
             a > top => focus - a >= b - focus,
             b < bottom => focus - a <= b - focus + 1
      PROVE  WindowSince(lines, focus, [start |-> a, end |-> b], first)
  <2>1. Centred(focus, first, a, b)
    BY <1>4, <1>7 DEF Centred
  <2>2. a \in Int /\ b \in Int /\ a >= first.start /\ b <= first.end
    BY <1>2, <1>4, <1>7
  <2>3. ASSUME NEW c \in first.start..focus, NEW d \in focus..first.end,
               Centred(focus, first, c, d), d - c > b - a
        PROVE  ~Fits(lines, c, d)
    BY <1>6, <1>7, <2>3
  <2>4. Widest(lines, focus, first, a, b)
    BY <1>3, <2>1, <2>2, <2>3 DEF Widest
  <2> QED  BY <1>2, <2>2, <2>4 DEF WindowSince
<1>8. ASSUME focus - s > e - focus
      PROVE  WindowSince(lines, focus, [window EXCEPT !.start = @ + 1], first)
  <2>1. [window EXCEPT !.start = @ + 1] = [start |-> s + 1, end |-> e]
    BY <1>1
  <2>2. s + 1 \in 1..focus
    BY <1>2, <1>8
  <2>3. PICK a \in 1..focus : a = s + 1
    BY <2>2
  <2>4. e - a = e - s - 1 /\ a >= s /\ focus - a >= e - focus /\ e <= e
    BY <1>2, <1>8, <2>3
  <2>5. e < bottom => focus - a <= e - focus + 1
    BY <1>2, <1>5, <2>3
  <2>6. WindowSince(lines, focus, [start |-> a, end |-> e], first)
    BY <1>2, <1>7, <2>4, <2>5
  <2> QED  BY <2>1, <2>3, <2>6
<1>9. ASSUME ~(focus - s > e - focus)
      PROVE  WindowSince(lines, focus, [window EXCEPT !.end = @ - 1], first)
  <2>1. [window EXCEPT !.end = @ - 1] = [start |-> s, end |-> e - 1]
    BY <1>1
  <2>2. e - 1 \in focus..Len(lines)
    BY <1>2, <1>9
  <2>3. PICK b \in focus..Len(lines) : b = e - 1
    BY <2>2
  <2>4. b - s = e - s - 1 /\ b <= e /\ focus - s <= b - focus + 1 /\ s >= s
    BY <1>2, <1>9, <2>3
  <2>5. s > top => focus - s >= b - focus
    BY <1>2, <1>5, <2>3
  <2>6. WindowSince(lines, focus, [start |-> s, end |-> b], first)
    BY <1>2, <1>7, <2>4, <2>5
  <2> QED  BY <2>1, <2>3, <2>6
<1> QED  BY <1>1, <1>8, <1>9 DEF DropFirst

\* A window is what WindowSince says from the first to the answer.
LEMMA WindowInvariance == SourceSpec => []WindowInv
<1>1. SourceInit => WindowInv
  BY NumbersAssumption DEF SourceInit, WindowInv
<1>2. WindowInv /\ [SourceNext]_sourceVars => WindowInv'
  <2> SUFFICES ASSUME WindowInv, [SourceNext]_sourceVars PROVE WindowInv'
    OBVIOUS
  <2>1. CASE Edit \/ UNCHANGED sourceVars
    <3>1. file' \in Files \cup {Missing} /\ read' = read
      BY <2>1 DEF Edit, sourceVars, WindowInv
    <3> QED  BY <3>1 DEF WindowInv, ContentFits
  <2>2. CASE Stat
    BY <2>2 DEF Stat, Refuse, WindowInv
  <2>3. CASE ReadFile
    <3>1. CASE read'.pc = "refused"
      BY <2>3, <3>1 DEF ReadFile, WindowInv
    <3>2. CASE read'.pc # "refused"
      <4> DEFINE focus == Lower(Len(file), Higher(1, read.focus))
                 context == IF read.context < 1 THEN DefaultContext
                            ELSE Lower(read.context, MaxContext)
                 w == Window(file, focus, context)
      <4>1. /\ file \in Files /\ file' = file
            /\ read' = [pc |-> "shrink", lines |-> file, focus |-> focus,
                        window |-> w, first |-> w]
            /\ read.focus \in Int /\ read.context \in Int
        BY <2>3, <3>2 DEF ReadFile, Refuse, WindowInv
      <4>2. context \in Nat
        BY <4>1, NumbersAssumption DEF Lower
      <4>3. WindowSince(file, focus, w, w)
        BY <4>1, <4>2, FirstWindow, FilesAssumption
      <4> QED  BY <4>1, <4>3 DEF WindowInv
    <3> QED  BY <3>1, <3>2
  <2>4. CASE Shrink
    <3>1. /\ read.pc = "shrink"
          /\ WindowSince(read.lines, read.focus, read.window, read.first)
          /\ ~Fits(read.lines, read.window.start, read.window.end)
          /\ read.window.end > read.window.start
          /\ file' = file /\ file \in Files \cup {Missing}
      BY <2>4 DEF Shrink, Shrinks, ContentFits, WindowInv
    <3> HIDE DEF Shrink
    <3>2. PICK w : /\ w = IF DropFirst(read.window.start, read.window.end, read.focus)
                            THEN [read.window EXCEPT !.start = @ + 1]
                            ELSE [read.window EXCEPT !.end = @ - 1]
      OBVIOUS
    <3>3. read' = [read EXCEPT !.window = w]
      BY <2>4, <3>2 DEF Shrink
    <3>4. WindowSince(read.lines, read.focus, w, read.first)
      BY <3>1, <3>2, ShrinkWindow
    <3> QED  BY <3>1, <3>3, <3>4 DEF WindowInv
  <2>5. CASE Reply
    <3>1. /\ read.pc = "shrink" /\ file' = file /\ file \in Files \cup {Missing}
          /\ DOMAIN read = {"pc", "lines", "focus", "window", "first"}
          /\ read = [x \in DOMAIN read |-> read[x]]
          /\ WindowSince(read.lines, read.focus, read.window, read.first)
      BY <2>5 DEF Reply, WindowInv
    <3>2. PICK pc \in {"answered", "line_too_large"} :
              /\ read' = [read EXCEPT !.pc = pc]
              /\ pc = "answered" => ContentFits
              /\ pc = "line_too_large" =>
                    ~ContentFits /\ read.window.start = read.window.end
      <4>1. CASE ContentFits
        BY <2>5, <4>1 DEF Reply
      <4>2. CASE ~ContentFits
        <5>1. read.window.start = read.window.end
          BY <2>5, <3>1, <4>2 DEF Reply, Shrinks, WindowSince, Widest
        <5> QED  BY <2>5, <4>2, <5>1 DEF Reply
      <4> QED  BY <4>1, <4>2
    <3>3. /\ read'.pc = pc /\ read'.lines = read.lines /\ read'.focus = read.focus
          /\ read'.window = read.window /\ read'.first = read.first
          /\ DOMAIN read' = DOMAIN read /\ read' = [x \in DOMAIN read' |-> read'[x]]
      BY <3>1, <3>2
    <3> QED  BY <3>1, <3>2, <3>3 DEF WindowInv, ContentFits
  <2> QED  BY <2>1, <2>2, <2>3, <2>4, <2>5 DEF SourceNext
<1> QED  BY <1>1, <1>2, PTL DEF SourceSpec

\* The lines of an answer fit, hold the line in focus, and are the whole file or the
\* widest centred window within the lines asked for that fits; only a line that is too
\* large by itself is refused (WindowHoldsFocus), for any file, limit and request.
THEOREM WindowsHoldFocus == SourceSpec => []WindowHoldsFocus
<1>1. WindowInv => WindowHoldsFocus
  <2> SUFFICES ASSUME WindowInv, read.pc \in {"answered", "line_too_large"}
               PROVE WindowHoldsFocus
    BY DEF WindowHoldsFocus
  <2>1. WindowSince(read.lines, read.focus, read.window, read.first)
    BY DEF WindowInv
  <2>2. PICK s \in Int, e \in Int :
              /\ read.window = [start |-> s, end |-> e]
              /\ Widest(read.lines, read.focus, read.first, s, e)
    BY <2>1 DEF WindowSince
  <2>3. ASSUME read.pc = "line_too_large"
        PROVE  s = e /\ ~Fits(read.lines, read.focus, read.focus)
    <3>1. s = e /\ s = read.focus
      BY <2>1, <2>2, <2>3 DEF WindowInv, WindowSince, Widest
    <3> QED  BY <2>2, <2>3, <3>1 DEF WindowInv, ContentFits
  <2>4. /\ read.first \in [start : Int, end : Int] /\ read.focus \in 1..Len(read.lines)
        /\ s \in 1..read.focus /\ e \in read.focus..Len(read.lines)
    BY <2>1, <2>2 DEF WindowSince, Widest
  <2>5. \A a \in read.first.start..read.focus, b \in read.focus..read.first.end :
           Centred(read.focus, read.first, a, b) /\ Fits(read.lines, a, b)
              => b - a <= e - s
    <3> TAKE a \in read.first.start..read.focus, b \in read.focus..read.first.end
    <3>1. a \in Int /\ b \in Int /\ s \in Int /\ e \in Int
      BY <2>2, <2>4
    <3>2. Centred(read.focus, read.first, a, b) /\ b - a > e - s => ~Fits(read.lines, a, b)
      BY <2>2 DEF Widest
    <3> QED  BY <3>1, <3>2
  <2>6. CASE read.pc = "answered"
    <3>1. /\ ContentFits /\ Centred(read.focus, read.first, s, e)
          /\ Fits(read.lines, 1, Len(read.lines)) => <<s, e>> = <<1, Len(read.lines)>>
      BY <2>1, <2>2, <2>6 DEF WindowInv, WindowSince, Widest
    <3> QED  BY <2>2, <2>4, <2>5, <2>6, <3>1 DEF WindowHoldsFocus
  <2>7. CASE read.pc = "line_too_large"
    BY <2>2, <2>3, <2>4, <2>7 DEF WindowHoldsFocus
  <2> QED  BY <2>6, <2>7
<1> QED  BY <1>1, WindowInvariance, PTL

-----------------------------------------------------------------------------
(* Fitting a session: the newest of it is left *)

Item == [text : Nat, changes : Seq(Nat)]

\* The end of a sequence, and what its oldest element leaves.
LEMMA FromIsEnd ==
    ASSUME NEW S, NEW s \in Seq(S), NEW k \in 1..Len(s)
    PROVE  /\ From(s, k) \in Seq(S) /\ Len(From(s, k)) = Len(s) - k + 1
           /\ From(s, k)[1] = s[k]
           /\ Tail(From(s, k)) = From(s, k + 1)
           /\ \A j \in 1..Len(s) - k + 1 : From(s, k)[j] = s[k + j - 1]
<1>1. /\ From(s, k) \in Seq(S) /\ Len(From(s, k)) = Len(s) - k + 1
      /\ \A j \in 1..Len(s) - k + 1 : From(s, k)[j] = s[k + j - 1]
  BY DEF From
<1>2. /\ From(s, k + 1) \in Seq(S) /\ Len(From(s, k + 1)) = Len(s) - k
      /\ \A j \in 1..Len(s) - k : From(s, k + 1)[j] = s[k + j]
  BY DEF From
<1>3. /\ Tail(From(s, k)) \in Seq(S) /\ Len(Tail(From(s, k))) = Len(s) - k
      /\ \A j \in 1..Len(s) - k : Tail(From(s, k))[j] = From(s, k)[j + 1]
  BY <1>1
<1>4. ASSUME NEW j \in 1..Len(s) - k
      PROVE  Tail(From(s, k))[j] = From(s, k + 1)[j]
  <2>1. j + 1 \in 1..Len(s) - k + 1 /\ k + (j + 1) - 1 = k + j
    OBVIOUS
  <2> QED  BY <1>1, <1>2, <1>3, <2>1
<1>5. Tail(From(s, k)) = From(s, k + 1)
  BY <1>2, <1>3, <1>4, SeqEqual
<1>6. From(s, k)[1] = s[k]
  BY <1>1
<1> QED  BY <1>1, <1>5, <1>6

\* A sequence with the elements another begins with is a prefix of it.
LEMMA PrefixIs ==
    ASSUME NEW S, NEW a \in Seq(S), NEW b \in Seq(S), Len(a) <= Len(b),
           \A i \in 1..Len(a) : a[i] = b[i]
    PROVE  SubSeq(a, 1, Len(a)) = SubSeq(b, 1, Len(a))
<1>1. PICK n \in Nat : n = Len(a)
  OBVIOUS
<1>2. /\ SubSeq(a, 1, n) \in Seq(S) /\ Len(SubSeq(a, 1, n)) = n
      /\ \A i \in 1..n : SubSeq(a, 1, n)[i] = a[i]
  BY <1>1
<1>3. /\ SubSeq(b, 1, n) \in Seq(S) /\ Len(SubSeq(b, 1, n)) = n
      /\ \A i \in 1..n : SubSeq(b, 1, n)[i] = b[i]
  BY <1>1
<1>4. \A i \in 1..n : SubSeq(a, 1, n)[i] = SubSeq(b, 1, n)[i]
  BY <1>1, <1>2, <1>3
<1> QED  BY <1>1, <1>2, <1>3, <1>4, SeqEqual

\* An end, as the community modules say it.
LEMMA FromIsSuffix ==
    ASSUME NEW S, NEW s \in Seq(S), NEW k \in 1..Len(s) + 1
    PROVE  IsSuffix(From(s, k), s) /\ From(s, 1) = s
<1>1. /\ From(s, k) \in Seq(S) /\ Len(From(s, k)) = Len(s) - k + 1
      /\ \A j \in 1..Len(s) - k + 1 : From(s, k)[j] = s[k + j - 1]
  BY DEF From
<1>2. PICK r : r = Reverse(From(s, k))
  OBVIOUS
<1>3. PICK q : q = Reverse(s)
  OBVIOUS
<1>4. r \in Seq(S) /\ Len(r) = Len(s) - k + 1
      /\ \A i \in 1..Len(s) - k + 1 : r[i] = s[Len(s) - i + 1]
  <2>1. r = [i \in 1..Len(s) - k + 1 |-> From(s, k)[Len(s) - k + 1 - i + 1]]
    BY <1>1, <1>2 DEF Reverse
  <2>2. \A i \in 1..Len(s) - k + 1 : r[i] = s[Len(s) - i + 1] /\ r[i] \in S
    <3> TAKE i \in 1..Len(s) - k + 1
    <3>1. /\ Len(s) - k + 1 - i + 1 \in 1..Len(s) - k + 1
          /\ k + (Len(s) - k + 1 - i + 1) - 1 = Len(s) - i + 1
          /\ Len(s) - i + 1 \in 1..Len(s)
      OBVIOUS
    <3>2. r[i] = From(s, k)[Len(s) - k + 1 - i + 1]
      BY <2>1
    <3> QED  BY <1>1, <3>1, <3>2
  <2>3. Len(s) - k + 1 \in Nat
    OBVIOUS
  <2> QED  BY <2>1, <2>2, <2>3
<1>5. q \in Seq(S) /\ Len(q) = Len(s) /\ \A i \in 1..Len(s) : q[i] = s[Len(s) - i + 1]
  BY <1>3 DEF Reverse
<1>6. SubSeq(r, 1, Len(r)) = SubSeq(q, 1, Len(r))
  <2>1. Len(r) <= Len(q) /\ \A i \in 1..Len(r) : r[i] = q[i]
    BY <1>4, <1>5
  <2> QED  BY <1>4, <1>5, <2>1, PrefixIs
<1>7. IsPrefix(r, q)
  BY <1>4, <1>5, <1>6 DEF IsPrefix
<1>8. From(s, 1) = s
  BY DEF From
<1> QED  BY <1>2, <1>3, <1>7, <1>8 DEF IsSuffix

-----------------------------------------------------------------------------
\* What is left of a history that has lost something, with the marks of the turn and of
\* the item: the newest turns, the newest items of the newest turn, or the newest item
\* with the newest of its changes.
TurnsLeft(turns, within, h) ==
    /\ within = {}
    /\ \E k \in 2..Len(h) : turns = From(h, k) /\ TooMuch(From(h, k - 1))
ItemsLeft(turns, within, h) == within = {"turn"} /\ NewestItems(turns, h)
ChangesLeft(turns, within, h) == within = {"turn", "item"} /\ NewestChanges(turns, h)

Dropped(turns, within, h) ==
    TurnsLeft(turns, within, h) \/ ItemsLeft(turns, within, h) \/ ChangesLeft(turns, within, h)

Fitted(turns, within, h) == (within = {} /\ turns = h) \/ Dropped(turns, within, h)

DetailInv ==
    /\ history \in Seq(Seq(Item))
    /\ \/ detail = [pc |-> "read"]
       \/ /\ detail = [pc |-> "fit", turns |-> detail.turns, marks |-> detail.marks,
                       clipped |-> detail.clipped]
          /\ "thread" \in detail.marks <=> detail.clipped \/ detail.turns # history
          /\ Fitted(detail.turns, detail.marks \ {"thread"}, history)
       \/ detail.pc = "done" /\ DetailKeepsNewest

\* The last element, and a sequence of one.
LEMMA LastIs ==
    ASSUME NEW S, NEW s \in Seq(S), s # << >>
    PROVE  Last(s) \in S /\ Len(s) \in Nat /\ Len(s) >= 1
  BY DEF Last

\* What the first element leaves.
LEMMA TailIsFrom ==
    ASSUME NEW S, NEW s \in Seq(S), Len(s) >= 1
    PROVE  Tail(s) = From(s, 2)
<1>1. 1 \in 1..Len(s) /\ 1 \in 1..Len(s) + 1 /\ 1 + 1 = 2
  OBVIOUS
<1>2. From(s, 1) = s /\ Tail(From(s, 1)) = From(s, 1 + 1)
  BY <1>1, FromIsEnd, FromIsSuffix
<1> QED  BY <1>1, <1>2

LEMMA Single ==
    ASSUME NEW S, NEW s \in Seq(S), Len(s) = 1
    PROVE  s = <<s[1]>> /\ s[1] \in S /\ Last(s) = s[1] /\ s # << >>
<1>1. s[1] \in S /\ Last(s) = s[1] /\ s # << >>
  BY DEF Last
<1>2. PICK q : q = <<s[1]>>
  OBVIOUS
<1>3. q \in Seq(S) /\ Len(q) = 1 /\ q[1] = s[1]
  BY <1>1, <1>2
<1>4. s = q
  BY <1>3, SeqEqual
<1> QED  BY <1>1, <1>2, <1>4

\* Only the last element is an end of length one.
LEMMA EndOfOne ==
    ASSUME NEW S, NEW s \in Seq(S), NEW k \in 1..Len(s), Len(From(s, k)) = 1
    PROVE  k = Len(s) /\ From(s, k)[1] = Last(s)
<1>1. Len(From(s, k)) = Len(s) - k + 1 /\ From(s, k)[1] = s[k]
  BY FromIsEnd
<1>2. k = Len(s)
  <2>1. PICK n \in Nat : n = Len(s)
    OBVIOUS
  <2>2. k \in 1..n /\ n - k + 1 = 1
    BY <1>1, <2>1
  <2>3. k = n
    BY <2>2
  <2> QED  BY <2>1, <2>3
<1> QED  BY <1>1, <1>2 DEF Last

\* When one turn is left it is the newest, or the end of it, and when one item is left
\* it is the newest with the newest of its changes.
LEMMA OneTurnLeft ==
    ASSUME NEW h \in Seq(Seq(Item)), NEW turns, NEW within, Fitted(turns, within, h),
           Len(turns) = 1
    PROVE  /\ h # << >>
           /\ turns = <<turns[1]>> /\ turns[1] \in Seq(Item)
           /\ within = {} => turns[1] = Last(h)
<1>1. CASE within = {} /\ turns = h
  BY <1>1, Single
<1>2. CASE TurnsLeft(turns, within, h)
  <2>1. PICK k \in 2..Len(h) : turns = From(h, k)
    BY <1>2 DEF TurnsLeft
  <2>2. k \in 1..Len(h) /\ h # << >>
    BY <2>1
  <2>3. turns \in Seq(Seq(Item)) /\ turns[1] = Last(h)
    BY <2>1, <2>2, FromIsEnd, EndOfOne
  <2> QED  BY <2>2, <2>3, Single
<1>3. CASE ItemsLeft(turns, within, h)
  <2>1. PICK k \in 2..Len(Last(h)) : turns = <<From(Last(h), k)>>
    BY <1>3 DEF ItemsLeft, NewestItems
  <2>2. Last(h) \in Seq(Item) /\ h # << >>
    BY <1>3, LastIs DEF ItemsLeft, NewestItems
  <2>3. From(Last(h), k) \in Seq(Item)
    BY <2>2, FromIsEnd
  <2>4. within # {}
    BY <1>3 DEF ItemsLeft
  <2> QED  BY <2>1, <2>2, <2>3, <2>4
<1>4. CASE ChangesLeft(turns, within, h)
  <2>1. PICK k \in 2..Len(Last(Last(h)).changes) :
            turns = <<<<[Last(Last(h)) EXCEPT !.changes = From(@, k)]>>>>
    BY <1>4 DEF ChangesLeft, NewestChanges, WithChanges
  <2>2. Last(h) \in Seq(Item) /\ h # << >>
    BY <1>4, LastIs DEF ChangesLeft, NewestChanges
  <2>3. Last(Last(h)) \in Item
    BY <1>4, <2>2, LastIs DEF ChangesLeft, NewestChanges
  <2>4. From(Last(Last(h)).changes, k) \in Seq(Nat)
    BY <2>3, FromIsEnd DEF Item
  <2>5. PICK item \in Item : item = [Last(Last(h)) EXCEPT !.changes = From(@, k)]
    <3>1. [Last(Last(h)) EXCEPT !.changes = From(@, k)] \in Item
      BY <2>3, <2>4 DEF Item
    <3> QED  BY <3>1
  <2>6. within # {}
    BY <1>4 DEF ChangesLeft
  <2>7. turns = <<<<item>>>> /\ <<item>> \in Seq(Item)
    BY <2>1, <2>5
  <2> QED  BY <2>2, <2>6, <2>7
<1> QED  BY <1>1, <1>2, <1>3, <1>4 DEF Fitted, Dropped

\* The item: OneTurnLeft one level down.
LEMMA OneItemLeft ==
    ASSUME NEW h \in Seq(Seq(Item)), NEW turns, NEW within, Fitted(turns, within, h),
           Len(turns) = 1, Len(turns[1]) = 1
    PROVE  /\ Last(h) # << >> /\ Last(Last(h)) \in Item
           /\ turns = <<<<turns[1][1]>>>> /\ turns[1][1] \in Item
           /\ \/ turns[1][1] = Last(Last(h))
              \/ \E k \in 2..Len(Last(Last(h)).changes) :
                    turns[1][1] = [Last(Last(h)) EXCEPT !.changes = From(@, k)]
<1>1. /\ h # << >> /\ Last(h) \in Seq(Item)
      /\ turns = <<turns[1]>> /\ turns[1] \in Seq(Item)
      /\ within = {} => turns[1] = Last(h)
  BY OneTurnLeft, LastIs
<1>2. turns[1] = <<turns[1][1]>> /\ turns[1][1] \in Item
  BY <1>1
<1>3. CASE within = {}
  BY <1>1, <1>2, <1>3 DEF Last
<1>4. CASE ItemsLeft(turns, within, h)
  <2>1. PICK k \in 2..Len(Last(h)) : turns = <<From(Last(h), k)>>
    BY <1>4 DEF ItemsLeft, NewestItems
  <2>2. k \in 1..Len(Last(h)) /\ turns[1] = From(Last(h), k)
    BY <2>1
  <2>3. turns[1][1] = Last(Last(h)) /\ Last(h) # << >>
    BY <1>1, <2>2, EndOfOne
  <2> QED  BY <1>1, <1>2, <2>3, LastIs
<1>5. CASE ChangesLeft(turns, within, h)
  <2>1. PICK k \in 2..Len(Last(Last(h)).changes) :
            turns = <<<<[Last(Last(h)) EXCEPT !.changes = From(@, k)]>>>>
    BY <1>5 DEF ChangesLeft, NewestChanges, WithChanges
  <2>2. Last(h) # << >> /\ Last(Last(h)) \in Item
    BY <1>1, <1>5, LastIs DEF ChangesLeft, NewestChanges
  <2> QED  BY <1>1, <1>2, <2>1, <2>2
<1> QED  BY <1>3, <1>4, <1>5 DEF Fitted, Dropped, TurnsLeft

\* The marks say how far the dropping has come.
LEMMA MarksAre ==
    ASSUME NEW h, NEW turns, NEW within, Fitted(turns, within, h)
    PROVE  within \in {{}, {"turn"}, {"turn", "item"}}
  BY DEF Fitted, Dropped, TurnsLeft, ItemsLeft, ChangesLeft

\* A turn dropped: the turns before it and it together were too large.
LEMMA DropTurnFits ==
    ASSUME NEW h \in Seq(Seq(Item)), NEW turns, NEW within, Fitted(turns, within, h),
           Len(turns) > 1, TooMuch(turns)
    PROVE  Dropped(Tail(turns), within, h)
<1>1. CASE within = {} /\ turns = h
  <2>1. 1 \in 1..Len(h) /\ 2 \in 2..Len(h) /\ 1 + 1 = 2 /\ 2 - 1 = 1
    BY <1>1
  <2>2. turns = From(h, 1)
    BY <1>1, <2>1, FromIsSuffix
  <2>3. Tail(turns) = From(h, 2)
    BY <2>1, <2>2, FromIsEnd
  <2> QED  BY <1>1, <2>1, <2>2, <2>3 DEF Dropped, TurnsLeft
<1>2. CASE TurnsLeft(turns, within, h)
  <2>1. PICK k \in 2..Len(h) : turns = From(h, k)
    BY <1>2 DEF TurnsLeft
  <2>2. k \in 1..Len(h) /\ Len(h) \in Nat /\ (k + 1) - 1 = k
    BY <2>1
  <2>3. Len(turns) = Len(h) - k + 1 /\ Tail(turns) = From(h, k + 1)
    BY <2>1, <2>2, FromIsEnd
  <2>4. k + 1 \in 2..Len(h)
    BY <2>2, <2>3
  <2>5. Tail(turns) = From(h, k + 1) /\ TooMuch(From(h, (k + 1) - 1))
    BY <2>1, <2>2, <2>3
  <2> QED  BY <1>2, <2>4, <2>5 DEF Dropped, TurnsLeft
<1>3. CASE ItemsLeft(turns, within, h)
  <2>1. \E items : turns = <<items>>
    BY <1>3 DEF ItemsLeft, NewestItems
  <2> QED  BY <2>1
<1>4. CASE ChangesLeft(turns, within, h)
  <2>1. \E items : turns = <<items>>
    BY <1>4 DEF ChangesLeft, NewestChanges, WithChanges
  <2> QED  BY <2>1
<1> QED  BY <1>1, <1>2, <1>3, <1>4 DEF Fitted, Dropped

\* An item dropped: it and those that are left were too large.  The first one makes the
\* turn a cut one.
LEMMA DropItemFits ==
    ASSUME NEW h \in Seq(Seq(Item)), NEW turns, NEW within, Fitted(turns, within, h),
           Len(turns) = 1, Len(turns[1]) > 1, TooMuch(turns)
    PROVE  Dropped(<<Tail(turns[1])>>, within \cup {"turn"}, h)
<1>1. /\ h # << >> /\ Last(h) \in Seq(Item) /\ (within = {} => turns[1] = Last(h))
      /\ turns = <<turns[1]>>
  BY OneTurnLeft, LastIs
<1>2. CASE within = {}
  <2>1. 1 \in 1..Len(Last(h)) + 1 /\ 2 \in 2..Len(Last(h)) /\ 2 - 1 = 1
    BY <1>1, <1>2
  <2>2. Tail(turns[1]) = From(Last(h), 2)
    BY <1>1, <1>2, <2>1, TailIsFrom
  <2>3. turns[1] = From(Last(h), 1)
    BY <1>1, <1>2, <2>1, FromIsSuffix
  <2>4. within \cup {"turn"} = {"turn"}
    BY <1>2
  <2>5. TooMuch(<<From(Last(h), 2 - 1)>>)
    BY <1>1, <2>1, <2>3
  <2> QED  BY <1>1, <2>1, <2>2, <2>4, <2>5 DEF Dropped, ItemsLeft, NewestItems
<1>3. CASE ItemsLeft(turns, within, h)
  <2>1. PICK k \in 2..Len(Last(h)) : turns = <<From(Last(h), k)>>
    BY <1>3 DEF ItemsLeft, NewestItems
  <2>2. k \in 1..Len(Last(h)) /\ Len(Last(h)) \in Nat /\ (k + 1) - 1 = k
    BY <1>1, <2>1
  <2>3. Len(turns[1]) = Len(Last(h)) - k + 1 /\ Tail(turns[1]) = From(Last(h), k + 1)
    BY <1>1, <2>1, <2>2, FromIsEnd
  <2>4. k + 1 \in 2..Len(Last(h))
    BY <2>2, <2>3
  <2>5. within \cup {"turn"} = {"turn"}
    BY <1>3 DEF ItemsLeft
  <2>6. TooMuch(<<From(Last(h), (k + 1) - 1)>>)
    BY <2>1, <2>2
  <2> QED  BY <1>1, <2>3, <2>4, <2>5, <2>6 DEF Dropped, ItemsLeft, NewestItems
<1>4. CASE ChangesLeft(turns, within, h)
  <2>1. Len(turns[1]) = 1
    BY <1>4 DEF ChangesLeft, NewestChanges, WithChanges
  <2> QED  BY <2>1
<1> QED  BY <1>2, <1>3, <1>4 DEF Fitted, Dropped, TurnsLeft

\* An item with other changes.
LEMMA OtherChanges ==
    ASSUME NEW item \in Item, NEW changes
    PROVE  [item EXCEPT !.changes = changes] = [text |-> item.text, changes |-> changes]
  BY DEF Item

\* A change dropped: what is left is the newest item with the newest of its changes, and
\* with the one that went it was too large.
LEMMA DropChangeFits ==
    ASSUME NEW h \in Seq(Seq(Item)), NEW turns, NEW within, Fitted(turns, within, h),
           Len(turns) = 1, Len(turns[1]) = 1, Len(turns[1][1].changes) > 1,
           TooMuch(turns)
    PROVE  Dropped(<<<<[turns[1][1] EXCEPT !.changes = Tail(@)]>>>>,
                   within \cup {"turn", "item"}, h)
<1>1. PICK item : item = turns[1][1]
  OBVIOUS
<1>2. PICK newest : newest = Last(Last(h))
  OBVIOUS
<1>3. /\ h # << >> /\ Last(h) # << >> /\ newest \in Item /\ item \in Item
      /\ turns = <<<<item>>>>
      /\ \/ item = newest
         \/ \E k \in 2..Len(newest.changes) :
               item = [newest EXCEPT !.changes = From(@, k)]
  <2>1. h # << >>
    BY OneTurnLeft
  <2>2. Last(h) # << >> /\ newest \in Item /\ item \in Item /\ turns = <<<<item>>>>
    BY <1>1, <1>2, OneItemLeft
  <2>3. \/ turns[1][1] = Last(Last(h))
        \/ \E k \in 2..Len(Last(Last(h)).changes) :
              turns[1][1] = [Last(Last(h)) EXCEPT !.changes = From(@, k)]
    BY OneItemLeft
  <2> QED  BY <1>1, <1>2, <2>1, <2>2, <2>3
<1>4. within \cup {"turn", "item"} = {"turn", "item"}
  BY MarksAre
<1>5. /\ newest.changes \in Seq(Nat)
      /\ newest = [text |-> newest.text, changes |-> newest.changes]
  BY <1>3 DEF Item
<1>6. \E k \in 2..Len(newest.changes) :
         /\ [item EXCEPT !.changes = Tail(@)] = [newest EXCEPT !.changes = From(@, k)]
         /\ item = [newest EXCEPT !.changes = From(@, k - 1)]
  <2>1. CASE item = newest
    <3>1. 1 \in 1..Len(newest.changes) + 1 /\ 2 \in 2..Len(newest.changes) /\ 2 - 1 = 1
      BY <1>1, <1>5, <2>1
    <3>2. Tail(newest.changes) = From(newest.changes, 2)
      BY <1>5, <3>1, TailIsFrom
    <3>3. From(newest.changes, 2 - 1) = newest.changes
      BY <1>5, <3>1, FromIsSuffix
    <3> QED  BY <1>5, <2>1, <3>1, <3>2, <3>3
  <2>2. ASSUME NEW k \in 2..Len(newest.changes),
               item = [newest EXCEPT !.changes = From(@, k)]
        PROVE  \E j \in 2..Len(newest.changes) :
                  /\ [item EXCEPT !.changes = Tail(@)]
                       = [newest EXCEPT !.changes = From(@, j)]
                  /\ item = [newest EXCEPT !.changes = From(@, j - 1)]
    <3>1. k \in 1..Len(newest.changes) /\ Len(newest.changes) \in Nat /\ (k + 1) - 1 = k
      BY <1>5
    <3>2. item = [text |-> newest.text, changes |-> From(newest.changes, k)]
      BY <1>5, <2>2
    <3>3. /\ Len(item.changes) = Len(newest.changes) - k + 1
          /\ Tail(item.changes) = From(newest.changes, k + 1)
      BY <1>5, <3>1, <3>2, FromIsEnd
    <3>4. k + 1 \in 2..Len(newest.changes)
      BY <1>1, <3>1, <3>3
    <3>5. /\ [item EXCEPT !.changes = Tail(@)]
                = [text |-> item.text, changes |-> Tail(item.changes)]
          /\ [newest EXCEPT !.changes = From(@, k + 1)]
                = [text |-> newest.text, changes |-> From(newest.changes, k + 1)]
      BY <1>3, OtherChanges
    <3>6. item.text = newest.text
      BY <3>2
    <3>7. [item EXCEPT !.changes = Tail(@)] = [newest EXCEPT !.changes = From(@, k + 1)]
      BY <3>3, <3>5, <3>6
    <3> QED  BY <2>2, <3>1, <3>4, <3>7
  <2> QED  BY <1>3, <2>1, <2>2
<1>7. PICK k \in 2..Len(newest.changes) :
          /\ [item EXCEPT !.changes = Tail(@)] = [newest EXCEPT !.changes = From(@, k)]
          /\ item = [newest EXCEPT !.changes = From(@, k - 1)]
  BY <1>6
<1>8. NewestChanges(<<<<[item EXCEPT !.changes = Tail(@)]>>>>, h)
  <2>1. <<<<[item EXCEPT !.changes = Tail(@)]>>>> = WithChanges(newest, k)
    BY <1>7 DEF WithChanges
  <2>2. TooMuch(WithChanges(newest, k - 1))
    BY <1>3, <1>7 DEF WithChanges
  <2> QED  BY <1>2, <1>3, <2>1, <2>2 DEF NewestChanges
<1> QED  BY <1>1, <1>4, <1>8 DEF Dropped, ChangesLeft

\* What has lost something is not the history.
LEMMA DroppedIsShorter ==
    ASSUME NEW h \in Seq(Seq(Item)), NEW turns, NEW within, Dropped(turns, within, h)
    PROVE  turns # h
<1>1. CASE TurnsLeft(turns, within, h)
  <2>1. PICK k \in 2..Len(h) : turns = From(h, k)
    BY <1>1 DEF TurnsLeft
  <2>2. k \in 1..Len(h) /\ Len(h) \in Nat /\ k > 1
    BY <2>1
  <2>3. Len(turns) = Len(h) - k + 1
    BY <2>1, <2>2, FromIsEnd
  <2>4. Len(turns) # Len(h)
    BY <2>2, <2>3
  <2> QED  BY <2>4
<1>2. CASE ItemsLeft(turns, within, h)
  <2>1. PICK k \in 2..Len(Last(h)) : turns = <<From(Last(h), k)>>
    BY <1>2 DEF ItemsLeft, NewestItems
  <2>2. h # << >> /\ Last(h) \in Seq(Item)
    BY <1>2, LastIs DEF ItemsLeft, NewestItems
  <2>3. k \in 1..Len(Last(h)) /\ Len(Last(h)) \in Nat /\ k > 1
    BY <2>1, <2>2
  <2>4. Len(From(Last(h), k)) = Len(Last(h)) - k + 1
    BY <2>2, <2>3, FromIsEnd
  <2>5. From(Last(h), k) # Last(h)
    BY <2>3, <2>4
  <2>6. turns = h => Last(h) = From(Last(h), k)
    BY <2>1 DEF Last
  <2> QED  BY <2>5, <2>6
<1>3. CASE ChangesLeft(turns, within, h)
  <2>1. PICK k \in 2..Len(Last(Last(h)).changes) :
            turns = <<<<[Last(Last(h)) EXCEPT !.changes = From(@, k)]>>>>
    BY <1>3 DEF ChangesLeft, NewestChanges, WithChanges
  <2>2. PICK newest : newest = Last(Last(h))
    OBVIOUS
  <2>3. newest \in Item
    BY <1>3, <2>2, LastIs DEF ChangesLeft, NewestChanges, WithChanges
  <2>4. newest.changes \in Seq(Nat) /\ k \in 1..Len(newest.changes) /\ k > 1
    BY <2>1, <2>2, <2>3 DEF Item
  <2>5. Len(From(newest.changes, k)) = Len(newest.changes) - k + 1
    BY <2>4, FromIsEnd
  <2>6. From(newest.changes, k) # newest.changes
    BY <2>4, <2>5
  <2>7. PICK shorter : shorter = [newest EXCEPT !.changes = From(@, k)]
    OBVIOUS
  <2>8. shorter.changes = From(newest.changes, k)
    BY <2>3, <2>7 DEF Item
  <2>9. turns = <<<<shorter>>>>
    BY <2>1, <2>2, <2>7
  <2>10. turns = h => newest = shorter
    <3>1. Last(<<<<shorter>>>>) = <<shorter>> /\ Last(<<shorter>>) = shorter
      BY DEF Last
    <3> QED  BY <2>2, <2>9, <3>1
  <2> QED  BY <2>6, <2>8, <2>10
<1> QED  BY <1>1, <1>2, <1>3 DEF Dropped

-----------------------------------------------------------------------------
\* What is returned: DetailKeepsNewest but for the mark of the whole.
Kept(turns, within, h) ==
    \/ within = {} /\ NewestTurns(turns, h) /\ (TooMuch(turns) => turns = << >>)
    \/ within = {"turn"} /\ NewestItems(turns, h) /\ ~TooMuch(turns)
    \/ within = {"turn"} /\ NewestTurns(turns, h) /\ turns = <<<< >>>> /\ TooMuch(turns)
    \/ within = {"turn", "item"} /\ NewestChanges(turns, h) /\ ~TooMuch(turns)
    \/ within = {"turn", "item"} /\ NewestTexts(turns, h)

\* When it fits; when nothing is left to drop; and when the texts of the last item are cut.
LEMMA FitsKept ==
    ASSUME NEW h, NEW turns, NEW within, Fitted(turns, within, h), ~TooMuch(turns)
    PROVE  Kept(turns, within, h)
  BY DEF Fitted, Dropped, TurnsLeft, ItemsLeft, ChangesLeft, NewestTurns, Kept

\* A turn without items is the whole newest one.
LEMMA GiveUpKept ==
    ASSUME NEW h \in Seq(Seq(Item)), NEW turns, NEW within, Fitted(turns, within, h),
           TooMuch(turns),
           turns = << >> \/ (Len(turns) = 1 /\ turns[1] = << >>)
    PROVE  Kept(turns, within \cup (IF turns = << >> THEN {} ELSE {"turn"}), h)
<1>1. CASE within = {} /\ NewestTurns(turns, h)
  <2>1. CASE turns = << >>
    BY <1>1, <2>1 DEF Kept
  <2>2. CASE turns # << >>
    <3>1. turns = <<<< >>>>
      BY <2>2, OneTurnLeft
    <3>2. within \cup (IF turns = << >> THEN {} ELSE {"turn"}) = {"turn"}
      BY <1>1, <2>2
    <3> QED  BY <1>1, <3>1, <3>2 DEF Kept
  <2> QED  BY <2>1, <2>2
<1>2. CASE ItemsLeft(turns, within, h)
  <2>1. PICK k \in 2..Len(Last(h)) : turns = <<From(Last(h), k)>>
    BY <1>2 DEF ItemsLeft, NewestItems
  <2>2. Last(h) \in Seq(Item) /\ k \in 1..Len(Last(h)) /\ Len(Last(h)) \in Nat
    BY <1>2, <2>1, LastIs DEF ItemsLeft, NewestItems
  <2>3. Len(turns[1]) = Len(Last(h)) - k + 1
    BY <2>1, <2>2, FromIsEnd
  <2>4. Len(turns[1]) > 0 /\ turns # << >>
    BY <2>1, <2>2, <2>3
  <2> QED  BY <2>4
<1>3. CASE ChangesLeft(turns, within, h)
  <2>1. turns # << >> /\ Len(turns[1]) = 1
    BY <1>3 DEF ChangesLeft, NewestChanges, WithChanges
  <2> QED  BY <2>1
<1> QED  BY <1>1, <1>2, <1>3 DEF Fitted, Dropped, TurnsLeft, NewestTurns

\* One change of the newest item is left, or it never had any.
LEMMA OneChangeLeft ==
    ASSUME NEW newest \in Item, NEW item \in Item, Len(item.changes) <= 1,
           \/ item = newest
           \/ \E k \in 2..Len(newest.changes) :
                 item = [newest EXCEPT !.changes = From(@, k)]
    PROVE  item = [newest EXCEPT !.changes = IF @ = << >> THEN @ ELSE <<Last(@)>>]
<1>1. /\ newest.changes \in Seq(Nat) /\ Len(newest.changes) \in Nat
      /\ newest = [text |-> newest.text, changes |-> newest.changes]
  BY DEF Item
<1>2. CASE item = newest
  <2>1. CASE newest.changes = << >>
    BY <1>1, <1>2, <2>1
  <2>2. CASE newest.changes # << >>
    <3>1. Len(newest.changes) = 1
      <4>1. PICK changes \in Seq(Nat) : changes = newest.changes
        BY <1>1
      <4>2. Len(changes) <= 1 /\ changes # << >>
        BY <1>2, <2>2, <4>1
      <4>3. PICK l \in Nat : l = Len(changes) /\ l # 0 /\ l <= 1
        BY <4>1, <4>2
      <4>4. Len(changes) = 1
        <5>1. l = 1
          BY <4>3
        <5> QED  BY <4>3, <5>1
      <4> QED  BY <4>1, <4>4
    <3>2. newest.changes = <<Last(newest.changes)>>
      BY <1>1, <3>1, Single
    <3> QED  BY <1>1, <1>2, <2>2, <3>2
  <2> QED  BY <2>1, <2>2
<1>3. ASSUME NEW k \in 2..Len(newest.changes),
             item = [newest EXCEPT !.changes = From(@, k)]
      PROVE  item = [newest EXCEPT !.changes = IF @ = << >> THEN @ ELSE <<Last(@)>>]
  <2>1. item = [text |-> newest.text, changes |-> From(newest.changes, k)]
    BY <1>1, <1>3
  <2>2. k \in 1..Len(newest.changes) /\ newest.changes # << >>
    BY <1>1
  <2>3. /\ From(newest.changes, k) \in Seq(Nat)
        /\ Len(From(newest.changes, k)) = Len(newest.changes) - k + 1
    BY <1>1, <2>2, FromIsEnd
  <2>4. Len(From(newest.changes, k)) = 1
    BY <1>1, <2>1, <2>2, <2>3
  <2>5. From(newest.changes, k)[1] = Last(newest.changes)
    BY <1>1, <2>2, <2>4, EndOfOne
  <2>6. From(newest.changes, k) = <<Last(newest.changes)>>
    BY <2>3, <2>4, <2>5, Single
  <2> QED  BY <1>1, <2>1, <2>2, <2>6
<1> QED  BY <1>2, <1>3

\* Texts cut: had none been too long, nothing has changed and it is still too large.
LEMMA CutKept ==
    ASSUME NEW h \in Seq(Seq(Item)), NEW turns, NEW within, Fitted(turns, within, h),
           TooMuch(turns), Len(turns) = 1, Len(turns[1]) = 1,
           Len(turns[1][1].changes) <= 1
    PROVE  /\ Kept(<<<<CutItem(turns[1][1])>>>>, {"turn", "item"}, h)
           /\ <<<<CutItem(turns[1][1])>>>> = h => TooMuch(<<<<CutItem(turns[1][1])>>>>)
<1>1. PICK item : item = turns[1][1]
  OBVIOUS
<1>2. PICK newest : newest = Last(Last(h))
  OBVIOUS
<1>3. /\ h # << >> /\ Last(h) # << >>
      /\ turns = <<<<item>>>> /\ item \in Item /\ newest \in Item
      /\ \/ item = newest
         \/ \E k \in 2..Len(newest.changes) :
               item = [newest EXCEPT !.changes = From(@, k)]
  <2>1. h # << >>
    BY OneTurnLeft
  <2>2. /\ turns = <<<<item>>>> /\ item \in Item /\ newest \in Item /\ Last(h) # << >>
    BY <1>1, <1>2, OneItemLeft
  <2>3. \/ turns[1][1] = Last(Last(h))
        \/ \E k \in 2..Len(Last(Last(h)).changes) :
              turns[1][1] = [Last(Last(h)) EXCEPT !.changes = From(@, k)]
    BY OneItemLeft
  <2> QED  BY <1>1, <1>2, <2>1, <2>2, <2>3
<1>4. Len(item.changes) <= 1
  BY <1>1
<1>5. PICK left : left = [newest EXCEPT !.changes = IF @ = << >> THEN @ ELSE <<Last(@)>>]
  OBVIOUS
<1>6. item = left
  <2>1. item = [newest EXCEPT !.changes = IF @ = << >> THEN @ ELSE <<Last(@)>>]
    BY <1>3, <1>4, OneChangeLeft
  <2> QED  BY <1>5, <2>1
<1>7. NewestTexts(<<<<CutItem(item)>>>>, h)
  <2>1. <<<<CutItem(item)>>>> = <<<<CutItem(left)>>>> /\ TooMuch(<<<<left>>>>)
    BY <1>3, <1>6
  <2> QED  BY <1>2, <1>3, <1>5, <2>1 DEF NewestTexts
<1>8. <<<<CutItem(item)>>>> = h => TooMuch(<<<<CutItem(item)>>>>)
  <2> SUFFICES ASSUME <<<<CutItem(item)>>>> = h PROVE turns = h
    OBVIOUS
  <2>1. PICK cut : cut = CutItem(item)
    OBVIOUS
  <2>2. newest = cut
    <3>1. Last(<<<<cut>>>>) = <<cut>> /\ Last(<<cut>>) = cut
      BY DEF Last
    <3> QED  BY <1>2, <2>1, <3>1
  <2>3. DOMAIN newest.changes = DOMAIN item.changes
    BY <2>1, <2>2 DEF CutItem
  <2>4. item.changes \in Seq(Nat) /\ newest.changes \in Seq(Nat)
    BY <1>3 DEF Item
  <2>5. Len(newest.changes) = Len(item.changes)
    BY <2>3, <2>4
  <2>6. ASSUME NEW k \in 2..Len(newest.changes)
        PROVE  FALSE
    BY <1>4, <2>4, <2>5, <2>6
  <2>7. item = newest
    BY <1>3, <2>6
  <2> QED  BY <1>3, <2>1, <2>2, <2>7
<1> QED  BY <1>1, <1>7, <1>8 DEF Kept

-----------------------------------------------------------------------------
\* While it is being fitted it is the newest of the history, and then DetailKeepsNewest.
LEMMA DetailInvariance == DetailSpec => []DetailInv
<1>1. DetailInit => DetailInv
  BY HistoriesAssumption DEF DetailInit, DetailInv, Item
<1>2. DetailInv /\ [DetailNext]_detailVars => DetailInv'
  <2> SUFFICES ASSUME DetailInv, [DetailNext]_detailVars PROVE DetailInv'
    OBVIOUS
  <2>1. CASE UNCHANGED detailVars
    BY <2>1 DEF detailVars, DetailInv, DetailKeepsNewest, TooLarge
  <2>2. CASE ReadThread
    <3>1. PICK cut \in BOOLEAN :
              detail' = [pc |-> "fit", turns |-> history,
                         marks |-> IF cut THEN {"thread"} ELSE {}, clipped |-> cut]
      BY <2>2 DEF ReadThread
    <3>2. detail'.marks \ {"thread"} = {} /\ ("thread" \in detail'.marks <=> cut)
      BY <3>1
    <3>3. /\ detail'.turns = history /\ detail'.clipped = cut
          /\ detail' = [pc |-> "fit", turns |-> detail'.turns, marks |-> detail'.marks,
                        clipped |-> detail'.clipped]
      BY <3>1
    <3> QED  BY <2>2, <3>2, <3>3 DEF ReadThread, DetailInv, Fitted
  <2> DEFINE turns == detail.turns
             marks == detail.marks
             within == marks \ {"thread"}
             clipped == detail.clipped
  <2>3. ASSUME detail.pc = "fit"
        PROVE  /\ history \in Seq(Seq(Item)) /\ Fitted(turns, within, history)
               /\ "thread" \in marks <=> clipped \/ turns # history
               /\ detail = [pc |-> "fit", turns |-> turns, marks |-> marks,
                            clipped |-> clipped]
    BY <2>3 DEF DetailInv
  <2>4. ASSUME NEW left, NEW marked, Dropped(left, marked \ {"thread"}, history),
               "thread" \in marked, detail.pc = "fit", history' = history,
               detail' = [detail EXCEPT !.turns = left, !.marks = marked]
        PROVE  DetailInv'
    <3>1. left # history
      BY <2>3, <2>4, DroppedIsShorter
    <3>2. /\ detail' = [pc |-> "fit", turns |-> left, marks |-> marked, clipped |-> clipped]
          /\ detail'.turns = left /\ detail'.marks = marked /\ detail'.clipped = clipped
      BY <2>3, <2>4
    <3> QED  BY <2>3, <2>4, <3>1, <3>2 DEF DetailInv, Fitted
  <2>5. ASSUME NEW left, NEW marked, Kept(left, marked \ {"thread"}, history),
               "thread" \in marked <=> clipped \/ left # history \/ TooMuch(left),
               history' = history, history \in Seq(Seq(Item)),
               detail' = [pc |-> "done", turns |-> left, marks |-> marked,
                          clipped |-> clipped]
        PROVE  DetailInv'
    <3>1. /\ detail'.pc = "done" /\ detail'.turns = left /\ detail'.marks = marked
          /\ detail'.clipped = clipped
      BY <2>5
    <3>2. TooLarge' <=> TooMuch(left)
      BY <3>1 DEF TooLarge, TooMuch
    <3>3. DetailKeepsNewest'
      BY <2>5, <3>1, <3>2 DEF DetailKeepsNewest, Kept
    <3> QED  BY <2>5, <3>1, <3>3 DEF DetailInv
  <2>6. CASE DropTurn
    <3>1. /\ detail.pc = "fit" /\ Len(turns) > 1 /\ TooMuch(turns) /\ history' = history
          /\ detail' = [detail EXCEPT !.turns = Tail(turns),
                                      !.marks = marks \cup {"thread", "thread"}]
      BY <2>6 DEF DropTurn, Fitting, TooLarge, TooMuch, Keep
    <3>2. Dropped(Tail(turns), within, history)
      BY <2>3, <3>1, DropTurnFits
    <3>3. (marks \cup {"thread", "thread"}) \ {"thread"} = within
      OBVIOUS
    <3> HIDE DEF within
    <3> QED  BY <2>4, <3>1, <3>2, <3>3
  <2>7. CASE DropItem
    <3>1. /\ detail.pc = "fit" /\ Len(turns) = 1 /\ Len(turns[1]) > 1
          /\ TooMuch(turns) /\ history' = history
          /\ detail' = [detail EXCEPT !.turns = <<Tail(turns[1])>>,
                                      !.marks = marks \cup {"thread", "turn"}]
      BY <2>7 DEF DropItem, Fitting, TooLarge, TooMuch, Keep, Items
    <3>2. Dropped(<<Tail(turns[1])>>, within \cup {"turn"}, history)
      BY <2>3, <3>1, DropItemFits
    <3>3. (marks \cup {"thread", "turn"}) \ {"thread"} = within \cup {"turn"}
      OBVIOUS
    <3> HIDE DEF within
    <3> QED  BY <2>4, <3>1, <3>2, <3>3
  <2>8. CASE DropChange
    <3>1. /\ detail.pc = "fit" /\ Len(turns) = 1 /\ Len(turns[1]) = 1
          /\ Len(turns[1][1].changes) > 1 /\ TooMuch(turns) /\ history' = history
          /\ detail' = [detail EXCEPT
                           !.turns = <<<<[turns[1][1] EXCEPT !.changes = Tail(@)]>>>>,
                           !.marks = marks \cup {"thread", "turn", "item"}]
      BY <2>8 DEF DropChange, Fitting, TooLarge, TooMuch, Items, LastItem
    <3>2. Dropped(<<<<[turns[1][1] EXCEPT !.changes = Tail(@)]>>>>,
                  within \cup {"turn", "item"}, history)
      BY <2>3, <3>1, DropChangeFits
    <3>3. (marks \cup {"thread", "turn", "item"}) \ {"thread"} = within \cup {"turn", "item"}
      OBVIOUS
    <3> HIDE DEF within
    <3> QED  BY <2>4, <3>1, <3>2, <3>3
  <2>9. CASE CutTexts
    <3>1. /\ detail.pc = "fit" /\ Len(turns) = 1 /\ Len(turns[1]) = 1
          /\ Len(turns[1][1].changes) <= 1 /\ TooMuch(turns) /\ history' = history
          /\ detail' = [detail EXCEPT !.pc = "done",
                                      !.turns = <<<<CutItem(turns[1][1])>>>>,
                                      !.marks = {"thread", "turn", "item"}]
      BY <2>9 DEF CutTexts, Fitting, TooLarge, TooMuch, Items, LastItem
    <3>2. PICK left : left = <<<<CutItem(turns[1][1])>>>>
      OBVIOUS
    <3>3. Kept(left, {"turn", "item"}, history) /\ (left = history => TooMuch(left))
      BY <2>3, <3>1, <3>2, CutKept
    <3>4. PICK marked : marked = {"thread", "turn", "item"}
      OBVIOUS
    <3>5. marked \ {"thread"} = {"turn", "item"} /\ "thread" \in marked
      BY <3>4
    <3>6. detail' = [pc |-> "done", turns |-> left, marks |-> marked, clipped |-> clipped]
      BY <2>3, <3>1, <3>2, <3>4
    <3>7. "thread" \in marked <=> clipped \/ left # history \/ TooMuch(left)
      BY <3>3, <3>5
    <3>8. Kept(left, marked \ {"thread"}, history)
      BY <3>3, <3>5
    <3>9. history \in Seq(Seq(Item)) /\ history' = history
      BY <2>3, <3>1
    <3> QED  BY <2>5, <3>6, <3>7, <3>8, <3>9
  <2>10. CASE GiveUp
    <3>1. /\ detail.pc = "fit" /\ TooMuch(turns) /\ history' = history
          /\ turns = << >> \/ (Len(turns) = 1 /\ turns[1] = << >>)
          /\ detail' = [detail EXCEPT !.pc = "done", !.marks =
                 marks \cup {"thread"} \cup (IF turns = << >> THEN {} ELSE {"turn"})]
      BY <2>10 DEF GiveUp, Fitting, TooLarge, TooMuch, Empty, Items
    <3>2. PICK marked :
              marked = marks \cup {"thread"} \cup (IF turns = << >> THEN {} ELSE {"turn"})
      OBVIOUS
    <3>3. Kept(turns, within \cup (IF turns = << >> THEN {} ELSE {"turn"}), history)
      BY <2>3, <3>1, GiveUpKept
    <3>4. /\ marked \ {"thread"} = within \cup (IF turns = << >> THEN {} ELSE {"turn"})
          /\ "thread" \in marked
      BY <3>2
    <3>5. detail' = [pc |-> "done", turns |-> turns, marks |-> marked, clipped |-> clipped]
      BY <2>3, <3>1, <3>2
    <3>6. "thread" \in marked <=> clipped \/ turns # history \/ TooMuch(turns)
      BY <3>1, <3>4
    <3>7. Kept(turns, marked \ {"thread"}, history)
      <4> HIDE DEF within
      <4> QED  BY <3>3, <3>4
    <3>8. history \in Seq(Seq(Item)) /\ history' = history
      BY <2>3, <3>1
    <3> QED  BY <2>5, <3>5, <3>6, <3>7, <3>8
  <2>11. CASE DetailFits
    <3>1. /\ detail.pc = "fit" /\ ~TooMuch(turns) /\ history' = history
          /\ detail' = [detail EXCEPT !.pc = "done"]
      BY <2>11 DEF DetailFits, TooLarge, TooMuch
    <3>2. Kept(turns, within, history)
      BY <2>3, <3>1, FitsKept
    <3>3. detail' = [pc |-> "done", turns |-> turns, marks |-> marks, clipped |-> clipped]
      BY <2>3, <3>1
    <3> QED  BY <2>3, <2>5, <3>1, <3>2, <3>3
  <2> QED  BY <2>1, <2>2, <2>6, <2>7, <2>8, <2>9, <2>10, <2>11 DEF DetailNext
<1> QED  BY <1>1, <1>2, PTL DEF DetailSpec

\* What is returned of a session is the newest of it, and no more of its turns, items and
\* changes is dropped, or cut, than the limit demands; it is marked exactly where
\* something is missing, is too large, or came with a cut title (DetailKeepsNewest), for
\* any history, any limit and whatever the texts take.
THEOREM DetailsKeepNewest == DetailSpec => []DetailKeepsNewest
<1>1. DetailInv => DetailKeepsNewest
  BY DEF DetailInv, DetailKeepsNewest
<1> QED  BY <1>1, DetailInvariance, PTL

-----------------------------------------------------------------------------
(* The catalog of projects *)

\* A list of roots that are allowed, each leading elsewhere.
AllowedLists ==
    {roots \in Seq(Paths) : \A k \in DOMAIN roots : Allowed(roots[k])}
ListedProjects == {p \in [roots : AllowedLists, assigned : BOOLEAN] : p.roots # << >>}

\* What Codex Desktop has for the nth project.
PathsOf(n) == desktop.roots[desktop.order[n]]

\* Project n is there, if any of its roots is allowed, under one of them.
NotMissing(n) ==
    (\E k \in DOMAIN PathsOf(n) : Allowed(PathsOf(n)[k]))
        => \E j \in DOMAIN Found, k \in DOMAIN PathsOf(n) :
              Allowed(PathsOf(n)[k]) /\ Id(Found[j]) = Canonical[PathsOf(n)[k]]

\* The paths looked at, and the roots they have given.
Walked ==
    Ordered =>
        /\ \A k \in DOMAIN PathsOf(catalog.next) :
              k < catalog.path /\ Allowed(PathsOf(catalog.next)[k])
                  => catalog.roots # << >>
        /\ \A i \in DOMAIN catalog.roots :
              \E k \in DOMAIN PathsOf(catalog.next) :
                  catalog.roots[i] = PathsOf(catalog.next)[k]

CatalogTypes ==
    /\ desktop.order \in Seq(Projects) /\ desktop.roots \in [Projects -> Seq(Paths)]
    /\ catalog \in [next : Nat \ {0}, path : Nat \ {0}, roots : AllowedLists,
                    projects : Seq(ListedProjects)]

Different == \A j, k \in DOMAIN Found : Id(Found[j]) = Id(Found[k]) => j = k

CatalogInv ==
    /\ CatalogTypes /\ Different /\ Walked
    /\ \A n \in 1..catalog.next - 1 : NotMissing(n)

\* Nothing is listed at first, and no path looked at.
LEMMA CatalogInit == WorkspaceInit => CatalogInv
<1> SUFFICES ASSUME WorkspaceInit PROVE CatalogInv
  OBVIOUS
<1>1. PICK roots \in [Projects -> DesktopRoots], owner \in Projects \cup {Unassigned},
           order \in ProjectOrders, cwd \in Paths :
          desktop = [roots |-> roots, order |-> order, owner |-> owner, cwd |-> cwd]
  BY DEF WorkspaceInit
<1>2. desktop.order \in Seq(Projects) /\ desktop.roots \in [Projects -> Seq(Paths)]
  BY <1>1, RootsAssumption
<1>3. catalog = [next |-> 1, path |-> 1, roots |-> << >>, projects |-> << >>]
  BY DEF WorkspaceInit
<1>4. << >> \in AllowedLists /\ << >> \in Seq(ListedProjects) /\ DOMAIN << >> = {}
  BY DEF AllowedLists
<1>5. CatalogTypes
  BY <1>2, <1>3, <1>4 DEF CatalogTypes
<1>6. Different /\ Walked
  <2>1. PICK list : list = desktop.roots[desktop.order[1]]
    OBVIOUS
  <2>2. CASE Ordered
    <3>1. list \in Seq(Paths) /\ DOMAIN list = 1..Len(list)
      <4>1. Len(desktop.order) >= 1
        BY <1>3, <2>2 DEF Ordered
      <4>2. desktop.order[1] \in Projects
        BY <1>2, <4>1
      <4> QED  BY <1>2, <2>1, <4>2
    <3> QED  BY <1>3, <1>4, <2>1, <3>1 DEF Different, Walked, PathsOf, Found, Ordered
  <2> QED  BY <1>3, <1>4, <2>2 DEF Different, Walked, Found
<1>7. 1..catalog.next - 1 = {}
  BY <1>3
<1> QED  BY <1>5, <1>6, <1>7 DEF CatalogInv

\* The project in turn has a list of paths.
LEMMA ListedHasPaths ==
    ASSUME CatalogInv, Ordered
    PROVE  /\ PathsOf(catalog.next) \in Seq(Paths)
           /\ DOMAIN PathsOf(catalog.next) = 1..Len(PathsOf(catalog.next))
           /\ Len(PathsOf(catalog.next)) \in Nat
<1>1. catalog.next \in 1..Len(desktop.order)
  BY DEF CatalogInv, CatalogTypes, Ordered
<1>2. desktop.order[catalog.next] \in Projects
  BY <1>1 DEF CatalogInv, CatalogTypes
<1>3. PathsOf(catalog.next) \in Seq(Paths)
  BY <1>2 DEF CatalogInv, CatalogTypes, PathsOf
<1> QED  BY <1>3

\* The next path of a project is added to its roots, or there is a reason not to.
LEMMA AllowRootKeeps ==
    ASSUME CatalogInv, AllowRoot
    PROVE  CatalogInv'
<1>1. PICK list : list = PathsOf(catalog.next)
  OBVIOUS
<1>2. PICK at : at = catalog.path
  OBVIOUS
<1>3. PICK old : old = catalog.roots
  OBVIOUS
<1>4. PICK roots :
         roots = IF Allowed(list[at]) /\ Canonical[list[at]] \notin Leads(old)
                   THEN Append(old, list[at]) ELSE old
  OBVIOUS
<1>5. /\ desktop' = desktop /\ Ordered /\ at <= Len(list)
      /\ catalog' = [catalog EXCEPT !.path = @ + 1, !.roots = roots]
  BY <1>1, <1>2, <1>3, <1>4 DEF AllowRoot, Listed, PathsOf
<1>6. /\ list \in Seq(Paths) /\ DOMAIN list = 1..Len(list) /\ Len(list) \in Nat
      /\ at \in Nat \ {0} /\ old \in AllowedLists
  BY <1>1, <1>2, <1>3, <1>5, ListedHasPaths DEF CatalogInv, CatalogTypes
<1>7. at \in DOMAIN list
  BY <1>5, <1>6
<1>8. /\ catalog'.next = catalog.next /\ catalog'.path = at + 1
      /\ catalog'.roots = roots /\ catalog'.projects = catalog.projects
      /\ catalog' = [next |-> catalog.next, path |-> at + 1, roots |-> roots,
                     projects |-> catalog.projects]
  BY <1>2, <1>5 DEF CatalogInv, CatalogTypes
<1>9. /\ roots \in AllowedLists
      /\ (old # << >> \/ Allowed(list[at])) => roots # << >>
      /\ \A i \in DOMAIN roots :
            (i \in DOMAIN old /\ roots[i] = old[i]) \/ roots[i] = list[at]
  <2>1. CASE Allowed(list[at]) /\ Canonical[list[at]] \notin Leads(old)
    <3>1. roots = Append(old, list[at])
      BY <1>4, <2>1
    <3>2. list[at] \in Paths /\ old \in Seq(Paths)
      BY <1>6, <1>7, <2>1 DEF AllowedLists
    <3>3. /\ roots \in Seq(Paths) /\ Len(roots) = Len(old) + 1
          /\ DOMAIN roots = 1..Len(old) + 1 /\ DOMAIN old = 1..Len(old)
          /\ Len(old) \in Nat
          /\ roots[Len(old) + 1] = list[at] /\ \A i \in 1..Len(old) : roots[i] = old[i]
      BY <3>1, <3>2
    <3>4. \A i \in DOMAIN roots :
             (i \in DOMAIN old /\ roots[i] = old[i]) \/ roots[i] = list[at]
      BY <3>3
    <3>5. roots \in AllowedLists /\ roots # << >>
      BY <1>6, <2>1, <3>3, <3>4 DEF AllowedLists
    <3> QED  BY <3>4, <3>5
  <2>2. CASE ~Allowed(list[at])
    BY <1>4, <1>6, <2>2
  <2>3. CASE Canonical[list[at]] \in Leads(old)
    <3>1. roots = old
      BY <1>4, <2>3
    <3>2. PICK i \in DOMAIN old : TRUE
      BY <2>3 DEF Leads
    <3>3. old # << >>
      BY <3>2
    <3> QED  BY <1>6, <3>1, <3>3
  <2> QED  BY <2>1, <2>2, <2>3
<1>10. CatalogTypes'
  BY <1>5, <1>6, <1>8, <1>9 DEF CatalogInv, CatalogTypes
<1>11. Different' /\ \A n \in 1..catalog'.next - 1 : NotMissing(n)'
  BY <1>5, <1>8 DEF CatalogInv, Different, NotMissing, PathsOf, Found
<1>12. Walked'
  <2>1. PathsOf(catalog.next)' = list /\ PathsOf(catalog.next) = list
    BY <1>1, <1>5, <1>8 DEF PathsOf
  <2>2. \A k \in DOMAIN list : k < at + 1 /\ Allowed(list[k]) => roots # << >>
    <3> TAKE k \in DOMAIN list
    <3> HAVE k < at + 1 /\ Allowed(list[k])
    <3>1. CASE k = at
      BY <1>9, <3>1
    <3>2. CASE k < at
      <4>1. old # << >>
        BY <1>1, <1>2, <1>3, <1>5, <3>2 DEF CatalogInv, Walked
      <4> QED  BY <1>9, <4>1
    <3> QED  BY <1>6, <3>1, <3>2
  <2>3. \A i \in DOMAIN roots : \E k \in DOMAIN list : roots[i] = list[k]
    <3> TAKE i \in DOMAIN roots
    <3>1. \A h \in DOMAIN old : \E k \in DOMAIN list : old[h] = list[k]
      BY <1>1, <1>3, <1>5 DEF CatalogInv, Walked
    <3> QED  BY <1>7, <1>9, <3>1
  <2> QED  BY <1>8, <2>1, <2>2, <2>3 DEF Walked, PathsOf
<1> QED  BY <1>10, <1>11, <1>12 DEF CatalogInv

\* The next project begins with nothing.
LEMMA WalkBegins ==
    ASSUME CatalogTypes', catalog'.path = 1, catalog'.roots = << >>
    PROVE  Walked'
<1> SUFFICES ASSUME Ordered'
             PROVE  \A k \in DOMAIN PathsOf(catalog.next)' : ~(k < 1)
  BY DEF Walked
<1>1. catalog'.next \in 1..Len(desktop'.order)
  BY DEF CatalogTypes, Ordered
<1>2. desktop'.order[catalog'.next] \in Projects
  BY <1>1 DEF CatalogTypes
<1>3. PICK list \in Seq(Paths) : list = desktop'.roots[desktop'.order[catalog'.next]]
  BY <1>2 DEF CatalogTypes
<1>4. \A k \in DOMAIN list : ~(k < 1)
  BY <1>3
<1> QED  BY <1>3, <1>4 DEF PathsOf

\* A project that has a root is added, unless one with the same first root is there.
LEMMA ListProjectKeeps ==
    ASSUME CatalogInv, ListProject
    PROVE  CatalogInv'
<1>1. PICK list : list = PathsOf(catalog.next)
  OBVIOUS
<1>2. PICK roots : roots = catalog.roots
  OBVIOUS
<1>3. PICK old : old = catalog.projects
  OBVIOUS
<1>4. PICK assigned \in BOOLEAN : assigned = Assigned(Listed, roots)
  BY DEF Assigned
<1>5. PICK project : project = [roots |-> roots, assigned |-> assigned]
  OBVIOUS
<1> DEFINE Known == {Id(old[k]) : k \in DOMAIN old}
           Adds == roots # << >> /\ Canonical[roots[1]] \notin Known
<1>6. PICK new : new = IF Adds THEN Append(old, project) ELSE old
  OBVIOUS
<1>7. /\ desktop' = desktop /\ Ordered /\ catalog.path > Len(list)
      /\ catalog' = [next |-> catalog.next + 1, path |-> 1, roots |-> << >>,
                     projects |-> new]
  BY <1>1, <1>2, <1>3, <1>4, <1>5, <1>6 DEF ListProject, Listed, PathsOf
<1>8. /\ roots \in AllowedLists /\ old \in Seq(ListedProjects)
      /\ catalog.next \in Nat \ {0}
      /\ DOMAIN list = 1..Len(list) /\ Len(list) \in Nat /\ catalog.path \in Nat
  BY <1>1, <1>2, <1>3, <1>7, ListedHasPaths DEF CatalogInv, CatalogTypes
<1>9. roots # << >> => project \in ListedProjects /\ Id(project) = Canonical[roots[1]]
  BY <1>4, <1>5, <1>8 DEF ListedProjects, Id
<1>10. /\ new \in Seq(ListedProjects) /\ DOMAIN old \subseteq DOMAIN new
       /\ \A k \in DOMAIN old : new[k] = old[k]
       /\ \A k \in DOMAIN new \ DOMAIN old : Adds /\ new[k] = project /\ k = Len(old) + 1
       /\ Adds => \E k \in DOMAIN new : new[k] = project
  <2>1. CASE Adds
    <3>1. new = Append(old, project) /\ project \in ListedProjects
      BY <1>6, <1>9, <2>1
    <3>2. /\ new \in Seq(ListedProjects) /\ Len(new) = Len(old) + 1 /\ Len(old) \in Nat
          /\ DOMAIN new = 1..Len(old) + 1 /\ DOMAIN old = 1..Len(old)
          /\ new[Len(old) + 1] = project /\ \A i \in 1..Len(old) : new[i] = old[i]
      BY <1>8, <3>1
    <3> QED  BY <2>1, <3>2
  <2>2. CASE ~Adds
    BY <1>6, <1>8, <2>2
  <2> QED  BY <2>1, <2>2
<1>11. /\ catalog'.next = catalog.next + 1 /\ catalog'.path = 1 /\ catalog'.roots = << >>
       /\ catalog'.projects = new
  BY <1>7
<1>12. CatalogTypes'
  <2>1. << >> \in AllowedLists
    BY DEF AllowedLists
  <2> QED  BY <1>7, <1>8, <1>10, <2>1 DEF CatalogInv, CatalogTypes
<1>13. Different'
  <2> SUFFICES ASSUME NEW j \in DOMAIN new, NEW k \in DOMAIN new, Id(new[j]) = Id(new[k])
               PROVE  j = k
    BY <1>11 DEF Different, Found
  <2>1. CASE j \in DOMAIN old /\ k \in DOMAIN old
    BY <1>3, <1>10, <2>1 DEF CatalogInv, Different, Found
  <2>2. CASE j \notin DOMAIN old /\ k \notin DOMAIN old
    BY <1>10, <2>2
  <2>3. ASSUME NEW a \in DOMAIN old, NEW b \in DOMAIN new \ DOMAIN old,
               Id(new[a]) = Id(new[b])
        PROVE  FALSE
    <3>1. Id(new[a]) \in Known
      BY <1>10
    <3>2. Id(new[b]) \notin Known
      BY <1>9, <1>10
    <3> QED  BY <2>3, <3>1, <3>2
  <2> QED  BY <2>1, <2>2, <2>3
<1>14. ASSUME NEW n \in 1..catalog'.next - 1
       PROVE  NotMissing(n)'
  <2>1. PICK paths : paths = PathsOf(n) /\ paths = PathsOf(n)'
    BY <1>7 DEF PathsOf
  <2> SUFFICES ASSUME NEW k \in DOMAIN paths, Allowed(paths[k])
               PROVE  \E j \in DOMAIN new, i \in DOMAIN paths :
                         Allowed(paths[i]) /\ Id(new[j]) = Canonical[paths[i]]
    BY <1>11, <2>1 DEF NotMissing, Found
  <2>2. CASE n # catalog.next
    <3>1. NotMissing(n)
      BY <1>8, <1>11, <2>2 DEF CatalogInv
    <3>2. PICK j \in DOMAIN old, i \in DOMAIN paths :
             Allowed(paths[i]) /\ Id(old[j]) = Canonical[paths[i]]
      BY <1>3, <2>1, <3>1 DEF NotMissing, Found
    <3> QED  BY <1>10, <3>2
  <2>3. CASE n = catalog.next
    <3>1. paths = list
      BY <1>1, <2>1, <2>3
    <3>2. k < catalog.path
      BY <1>7, <1>8, <3>1
    <3>3. roots # << >>
      BY <1>1, <1>2, <1>7, <3>1, <3>2 DEF CatalogInv, Walked
    <3>4. 1 \in DOMAIN roots
      BY <1>8, <3>3 DEF AllowedLists
    <3>5. PICK i \in DOMAIN list : roots[1] = list[i]
      BY <1>1, <1>2, <1>7, <3>4 DEF CatalogInv, Walked
    <3>6. Allowed(list[i]) /\ Canonical[roots[1]] = Canonical[list[i]]
      BY <1>8, <3>4, <3>5 DEF AllowedLists
    <3>7. \E j \in DOMAIN new : Id(new[j]) = Canonical[roots[1]]
      <4>1. CASE Adds
        BY <1>9, <1>10, <4>1
      <4>2. CASE ~Adds
        <5>1. PICK j \in DOMAIN old : Id(old[j]) = Canonical[roots[1]]
          BY <3>3, <4>2
        <5> QED  BY <1>10, <5>1
      <4> QED  BY <4>1, <4>2
    <3> QED  BY <3>1, <3>6, <3>7
  <2> QED  BY <2>2, <2>3
<1> QED  BY <1>11, <1>12, <1>13, <1>14, WalkBegins DEF CatalogInv

\* The invariant of the catalog.
LEMMA CatalogInvariance == WorkspaceSpec => []CatalogInv
<1>1. CatalogInv /\ UNCHANGED workspaceVars => CatalogInv'
  <2> SUFFICES ASSUME CatalogInv, desktop' = desktop, catalog' = catalog
               PROVE  CatalogInv'
    BY DEF workspaceVars
  <2>1. CatalogTypes' /\ Different'
    BY DEF CatalogInv, CatalogTypes, Different, Found
  <2>2. Walked'
    BY DEF CatalogInv, Walked, PathsOf, Ordered
  <2>3. \A n \in 1..catalog'.next - 1 : NotMissing(n)'
    BY DEF CatalogInv, NotMissing, PathsOf, Found
  <2> QED  BY <2>1, <2>2, <2>3 DEF CatalogInv
<1> QED  BY <1>1, CatalogInit, AllowRootKeeps, ListProjectKeeps, PTL
         DEF WorkspaceSpec, WorkspaceNext

-----------------------------------------------------------------------------
\* Inside a directory inside a root is inside the root.
LEMMA WithinIsTransitive ==
    ASSUME NEW a \in Seq(STRING), NEW b \in Seq(STRING), NEW c \in Seq(STRING),
           PathWithin(a, b), PathWithin(b, c)
    PROVE  PathWithin(a, c)
<1>1. /\ Len(a) \in Nat /\ Len(b) \in Nat /\ Len(c) \in Nat
      /\ Len(a) <= Len(b) /\ Len(b) <= Len(c)
      /\ SubSeq(a, 1, Len(a)) = SubSeq(b, 1, Len(a))
      /\ SubSeq(b, 1, Len(b)) = SubSeq(c, 1, Len(b))
  BY DEF PathWithin, IsPrefix
<1>2. \A i \in 1..Len(a) : a[i] = b[i]
  <2> TAKE i \in 1..Len(a)
  <2>1. SubSeq(a, 1, Len(a))[i] = a[i] /\ SubSeq(b, 1, Len(a))[i] = b[i]
    BY <1>1
  <2> QED  BY <1>1, <2>1
<1>3. \A i \in 1..Len(b) : b[i] = c[i]
  <2> TAKE i \in 1..Len(b)
  <2>1. SubSeq(b, 1, Len(b))[i] = b[i] /\ SubSeq(c, 1, Len(b))[i] = c[i]
    BY <1>1
  <2> QED  BY <1>1, <2>1
<1>4. \A i \in 1..Len(a) : a[i] = c[i]
  BY <1>1, <1>2, <1>3
<1>5. SubSeq(a, 1, Len(a)) = SubSeq(c, 1, Len(a))
  BY <1>1, <1>4, PrefixIs
<1> QED  BY <1>1, <1>5 DEF PathWithin, IsPrefix

\* A file of a project is where one of its roots leads to, and so in an allowed root.
LEMMA FilesAreAllowed ==
    ASSUME NEW p \in ListedProjects, NEW request,
           NEW found \in ResolveProjectFile(p, request)
    PROVE  ContainsAny(AllowedRoots, found)
<1>1. PICK k \in DOMAIN p.roots : \E candidate :
          found \in ResolveWithinRoot(p.roots[k], candidate)
  BY DEF ResolveProjectFile
<1>2. PICK candidate : found \in ResolveWithinRoot(p.roots[k], candidate)
  BY <1>1
<1>3. /\ Exists(candidate) /\ found = Canonical[candidate]
      /\ PathWithin(Canonical[p.roots[k]], found)
  BY <1>2 DEF ResolveWithinRoot
<1>4. p.roots[k] \in DOMAIN Canonical /\ Allowed(p.roots[k])
  BY <1>1 DEF ListedProjects, AllowedLists, Allowed, ExistingDirectory, Exists
<1>5. PICK root \in AllowedRoots : PathWithin(root, Canonical[p.roots[k]])
  BY <1>4 DEF Allowed, ContainsAny
<1>6. /\ root \in Seq(STRING) /\ Canonical[p.roots[k]] \in Seq(STRING)
      /\ found \in Seq(STRING)
  BY <1>3, <1>4, PathsAssumption, RootsAssumption DEF Exists
<1>7. PathWithin(root, found)
  BY <1>3, <1>5, <1>6, WithinIsTransitive
<1> QED  BY <1>7 DEF ContainsAny

\* Only directories and files inside the allowed roots are ever returned, each project
\* once, and none in an allowed root is missing (ProjectsAreAllowed), for any links,
\* any state of Codex Desktop and any request.
THEOREM CatalogIsAllowed == WorkspaceSpec => []ProjectsAreAllowed
<1>1. CatalogInv => ProjectsAreAllowed
  <2> SUFFICES ASSUME CatalogInv PROVE ProjectsAreAllowed
    OBVIOUS
  <2>1. ASSUME NEW k \in DOMAIN Found
        PROVE  /\ Found[k].roots # << >>
               /\ \A root \in Leads(Found[k].roots) : ContainsAny(AllowedRoots, root)
               /\ \A request \in Requests :
                     \A found \in ResolveProjectFile(Found[k], request) :
                        ContainsAny(AllowedRoots, found)
               /\ \A j \in DOMAIN Found : Id(Found[j]) = Id(Found[k]) => j = k
    <3>1. Found \in Seq(ListedProjects)
      BY DEF CatalogInv, CatalogTypes, Found
    <3>2. Found[k] \in ListedProjects
      BY <3>1
    <3>3. \A i \in DOMAIN Found[k].roots : Allowed(Found[k].roots[i])
      BY <3>2 DEF ListedProjects, AllowedLists
    <3>4. \A root \in Leads(Found[k].roots) : ContainsAny(AllowedRoots, root)
      BY <3>3 DEF Leads, Allowed
    <3> QED  BY <3>2, <3>4, FilesAreAllowed DEF ListedProjects, CatalogInv, Different
  <2>2. \A n \in 1..catalog.next - 1 : NotMissing(n)
    BY DEF CatalogInv
  <2> QED  BY <2>1, <2>2 DEF ProjectsAreAllowed, NotMissing, PathsOf
<1> QED  BY <1>1, CatalogInvariance, PTL

-----------------------------------------------------------------------------
(* Induction, and loops *)

\* Induction as a statement about a set.
LEMMA SetInduction ==
    ASSUME NEW S, 0 \in S, \A n \in Nat : n \in S => n + 1 \in S
    PROVE  \A n \in Nat : n \in S
<1> SUFFICES ASSUME Nat \ S # {} PROVE FALSE
  OBVIOUS
<1>1. PICK T : T = Nat \ S
  OBVIOUS
<1>2. T \subseteq Nat /\ T # {}
  BY <1>1
<1>3. PICK n \in T : \A m \in T : ~ (<<m, n>> \in OpToRel(<, Nat))
  BY <1>2, NatLessThanWellFounded, WFMin
<1>4. n \in Nat /\ n # 0
  BY <1>1
<1>5. n - 1 \in Nat /\ n - 1 < n
  BY <1>4
<1>6. n - 1 \notin T
  BY <1>3, <1>4, <1>5 DEF OpToRel
<1> QED  BY <1>1, <1>4, <1>5, <1>6

\* A set of numbers that is bounded has a largest, and one of natural numbers a least.
LEMMA LargestExists ==
    ASSUME NEW S \in SUBSET Int, S # {}, NEW n \in Int, \A x \in S : x <= n
    PROVE  \E x \in S : \A y \in S : y <= x
<1>1. PICK T : T = {m \in Nat : n - m \in S}
  OBVIOUS
<1>2. T \subseteq Nat /\ T # {}
  <2>1. PICK x \in S : x \in Int /\ x <= n
    OBVIOUS
  <2>2. n - x \in Nat /\ n - (n - x) = x
    BY <2>1
  <2> QED  BY <1>1, <2>1, <2>2
<1>3. PICK k \in T : \A m \in T : ~ (<<m, k>> \in OpToRel(<, Nat))
  BY <1>2, NatLessThanWellFounded, WFMin
<1>4. \A m \in T : k <= m
  <2>1. \A m \in T : m \in Nat /\ k \in Nat /\ ~ (m < k)
    BY <1>2, <1>3 DEF OpToRel
  <2> QED  BY <2>1
<1>5. n - k \in S
  BY <1>1
<1>6. ASSUME NEW y \in S PROVE y <= n - k
  <2>1. y \in Int /\ y <= n /\ k \in Int
    BY <1>2
  <2>2. n - y \in Nat /\ n - (n - y) = y
    BY <2>1
  <2>3. k <= n - y
    BY <1>1, <1>4, <2>2
  <2> QED  BY <2>1, <2>3
<1> QED  BY <1>5, <1>6

LEMMA MaxIs ==
    ASSUME NEW S \in SUBSET Int, S # {}, NEW n \in Int, \A x \in S : x <= n
    PROVE  Max(S) \in S /\ \A y \in S : y <= Max(S)
<1>1. \E x \in S : \A y \in S : x >= y
  BY LargestExists
<1> QED  BY <1>1 DEF Max

\* What FoldLeft computes of a list of n elements is the function of one argument, the
\* set of positions that are done with, that its definition chooses.  There is one.
Folds(f, m, base, next) ==
    \A s \in SUBSET (1..m) :
       f[s] = IF s = {} THEN base ELSE next[<<Max(s), f[s \ {Max(s)}]>>]

LEMMA FoldExists ==
    ASSUME NEW V, NEW n \in Nat, NEW base \in V, NEW next \in [(1..n) \X V -> V]
    PROVE  \E f \in [SUBSET (1..n) -> V] : Folds(f, n, base, next)
<1> DEFINE Has(m) == \E f \in [SUBSET (1..m) -> V] : Folds(f, m, base, next)
           S == {m \in Nat : m <= n => Has(m)}
<1>1. 0 \in S
  <2>1. PICK f : f = [s \in SUBSET (1..0) |-> base]
    OBVIOUS
  <2>2. Folds(f, 0, base, next)
    BY <2>1 DEF Folds
  <2> QED  BY <2>1, <2>2
<1>2. ASSUME NEW m \in Nat, m \in S
      PROVE  m + 1 \in S
  <2> SUFFICES ASSUME m + 1 <= n PROVE Has(m + 1)
    <3> HIDE DEF Has
    <3> QED  OBVIOUS
  <2>1. PICK f \in [SUBSET (1..m) -> V] : Folds(f, m, base, next)
    <3>1. Has(m)
      <4> HIDE DEF Has
      <4>1. m <= n
        OBVIOUS
      <4> QED  BY <1>2, <4>1
    <3> QED  BY <3>1
  <2>2. PICK g : g = [s \in SUBSET (1..m + 1) |->
                         IF m + 1 \in s THEN next[<<m + 1, f[s \ {m + 1}]>>] ELSE f[s]]
    OBVIOUS
  <2>3. ASSUME NEW s \in SUBSET (1..m + 1), m + 1 \in s
        PROVE  /\ s \ {m + 1} \in SUBSET (1..m) /\ Max(s) = m + 1
               /\ g[s] = next[<<m + 1, f[s \ {m + 1}]>>] /\ g[s] \in V
               /\ g[s \ {m + 1}] = f[s \ {m + 1}]
    <3>1. s \ {m + 1} \in SUBSET (1..m)
      OBVIOUS
    <3>2. Max(s) \in s /\ \A y \in s : y <= Max(s)
      <4>1. s \in SUBSET Int /\ s # {} /\ \A y \in s : y <= m + 1
        BY <2>3
      <4>2. m + 1 \in Int
        OBVIOUS
      <4> QED  BY <4>1, <4>2, MaxIs
    <3>3. Max(s) = m + 1
      <4>1. Max(s) \in 1..m + 1 /\ m + 1 <= Max(s)
        BY <2>3, <3>2
      <4> QED  BY <4>1
    <3>4. f[s \ {m + 1}] \in V /\ <<m + 1, f[s \ {m + 1}]>> \in (1..n) \X V
      BY <2>1, <3>1
    <3>5. g[s] = next[<<m + 1, f[s \ {m + 1}]>>] /\ g[s] \in V
      BY <2>2, <2>3, <3>4
    <3>6. s \ {m + 1} \in SUBSET (1..m + 1) /\ m + 1 \notin s \ {m + 1}
      OBVIOUS
    <3>7. g[s \ {m + 1}] = f[s \ {m + 1}]
      BY <2>2, <3>6
    <3> QED  BY <3>1, <3>3, <3>5, <3>7
  <2>4. ASSUME NEW s \in SUBSET (1..m + 1), m + 1 \notin s
        PROVE  s \in SUBSET (1..m) /\ g[s] = f[s] /\ g[s] \in V
    <3>1. s \in SUBSET (1..m)
      BY <2>4
    <3> QED  BY <2>1, <2>2, <2>4, <3>1
  <2>5. g \in [SUBSET (1..m + 1) -> V]
    BY <2>2, <2>3, <2>4
  <2>6. ASSUME NEW s \in SUBSET (1..m + 1)
        PROVE  g[s] = IF s = {} THEN base ELSE next[<<Max(s), g[s \ {Max(s)}]>>]
    <3>1. CASE m + 1 \in s
      BY <2>3, <3>1
    <3>2. CASE m + 1 \notin s
      <4>1. g[s] = IF s = {} THEN base ELSE next[<<Max(s), f[s \ {Max(s)}]>>]
        BY <2>1, <2>4, <3>2 DEF Folds
      <4>2. s \ {Max(s)} \in SUBSET (1..m + 1) /\ m + 1 \notin s \ {Max(s)}
        BY <3>2
      <4>3. g[s \ {Max(s)}] = f[s \ {Max(s)}]
        BY <2>4, <4>2
      <4> QED  BY <4>1, <4>3
    <3> QED  BY <3>1, <3>2
  <2> QED  BY <2>5, <2>6 DEF Folds
<1>3. n \in S
  <2> HIDE DEF S
  <2> QED  BY <1>1, <1>2, SetInduction
<1>4. Has(n)
  <2> HIDE DEF Has
  <2> QED  BY <1>3
<1> QED  BY <1>4

\* The positions up to k without the last.
LEMMA LastPosition ==
    ASSUME NEW k \in Nat, k > 0
    PROVE  1..k # {} /\ Max(1..k) = k /\ (1..k) \ {Max(1..k)} = 1..k - 1
<1>1. 1..k \in SUBSET Int /\ k \in 1..k /\ \A x \in 1..k : x <= k
  OBVIOUS
<1>2. Max(1..k) \in 1..k /\ \A y \in 1..k : y <= Max(1..k)
  BY <1>1, MaxIs
<1>3. Max(1..k) = k
  BY <1>1, <1>2
<1> QED  BY <1>1, <1>3

LEMMA MaxInside ==
    ASSUME NEW n \in Nat, NEW s \in SUBSET (1..n), s # {}
    PROVE  Max(s) \in 1..n /\ s \ {Max(s)} \in SUBSET (1..n)
<1>1. s \in SUBSET Int /\ n \in Int /\ \A x \in s : x <= n
  OBVIOUS
<1>2. Max(s) \in s
  BY <1>1, MaxIs
<1> QED  BY <1>2

\* Whichever function it is, it holds what a loop over the positions has computed.
Loops(loop, f, n, base, next) ==
    loop[0] = base /\ loop[n] = f[1..n] /\ \A k \in 1..n : loop[k] = next[<<k, loop[k - 1]>>]

Computes(f, V, n, base, next) ==
    /\ f[{}] = base
    /\ \A s \in SUBSET (1..n) :
          s # {} /\ f[s \ {Max(s)}] \in V => f[s] = next[<<Max(s), f[s \ {Max(s)}]>>]

LEMMA LoopOf ==
    ASSUME NEW V, NEW n \in Nat, NEW base \in V, NEW next \in [(1..n) \X V -> V],
           NEW f, Computes(f, V, n, base, next)
    PROVE  \E loop \in [0..n -> V] : Loops(loop, f, n, base, next)
<1>1. ASSUME NEW k \in 1..n, f[1..k - 1] \in V
      PROVE  f[1..k] = next[<<k, f[1..k - 1]>>] /\ f[1..k] \in V
  <2>1. 1..k \in SUBSET (1..n) /\ k \in Nat /\ k > 0
    OBVIOUS
  <2>2. 1..k # {} /\ Max(1..k) = k /\ (1..k) \ {Max(1..k)} = 1..k - 1
    BY <2>1, LastPosition
  <2>3. f[1..k] = next[<<k, f[1..k - 1]>>]
    BY <1>1, <2>1, <2>2 DEF Computes
  <2> QED  BY <1>1, <2>3
<1>2. PICK S : S = {m \in Nat : m <= n => f[1..m] \in V}
  OBVIOUS
<1>3. f[1..0] = base
  <2>1. 1..0 = {}
    OBVIOUS
  <2> QED  BY <2>1 DEF Computes
<1>4. 0 \in S
  BY <1>2, <1>3
<1>5. ASSUME NEW m \in Nat, m \in S PROVE m + 1 \in S
  <2>1. ASSUME m + 1 <= n PROVE f[1..m + 1] \in V
    <3>1. m + 1 \in 1..n /\ (m + 1) - 1 = m /\ f[1..m] \in V
      BY <1>2, <1>5, <2>1
    <3> QED  BY <1>1, <3>1
  <2> QED  BY <1>2, <2>1
<1>6. \A m \in Nat : m \in S
  BY <1>4, <1>5, SetInduction
<1>7. PICK loop : loop = [k \in 0..n |-> f[1..k]]
  OBVIOUS
<1>8. loop \in [0..n -> V]
  BY <1>2, <1>6, <1>7
<1>9. ASSUME NEW k \in 1..n PROVE loop[k] = next[<<k, loop[k - 1]>>]
  <2>1. k \in 0..n /\ k - 1 \in 0..n
    OBVIOUS
  <2>2. f[1..k - 1] \in V
    BY <1>7, <1>8, <2>1
  <2> QED  BY <1>1, <1>7, <2>1, <2>2
<1>10. 0 \in 0..n /\ n \in 0..n
  OBVIOUS
<1> QED  BY <1>3, <1>7, <1>8, <1>9, <1>10 DEF Loops

-----------------------------------------------------------------------------
(* Whose a path is *)

\* MatchPath goes through the roots: what it has after k of them.
LEMMA MatchPathLoop ==
    ASSUME NEW p, p.roots \in Seq(Seq(STRING)), NEW path
    PROVE  \E longest \in [0..Len(p.roots) -> Int] :
              /\ longest[0] = -1
              /\ \A k \in 1..Len(p.roots) :
                    longest[k] = IF /\ PathWithin(p.roots[k], path)
                                    /\ Len(p.roots[k]) > longest[k - 1]
                                   THEN Len(p.roots[k]) ELSE longest[k - 1]
              /\ MatchPath(p, path) = longest[Len(p.roots)]
<1> DEFINE D == DOMAIN p.roots
           F(f) == f = [s \in SUBSET D |->
                          IF s = {} THEN -1
                          ELSE IF /\ PathWithin(p.roots[Max(s)], path)
                                  /\ Len(p.roots[Max(s)]) > f[s \ {Max(s)}]
                            THEN Len(p.roots[Max(s)]) ELSE f[s \ {Max(s)}]]
<1>1. MatchPath(p, path) = (CHOOSE f : F(f))[D]
  BY DEF MatchPath, FoldLeft, MapThenFoldSet
<1>2. PICK n \in Nat : n = Len(p.roots) /\ D = 1..n /\ \A k \in 1..n : Len(p.roots[k]) \in Nat
  OBVIOUS
<1>3. PICK next : next = [kv \in (1..n) \X Int |->
                     IF PathWithin(p.roots[kv[1]], path) /\ Len(p.roots[kv[1]]) > kv[2]
                       THEN Len(p.roots[kv[1]]) ELSE kv[2]]
  OBVIOUS
<1>4. next \in [(1..n) \X Int -> Int] /\ -1 \in Int
  BY <1>2, <1>3
<1>5. PICK g \in [SUBSET (1..n) -> Int] : Folds(g, n, -1, next)
  BY <1>4, FoldExists
<1>6. ASSUME NEW s \in SUBSET (1..n), s # {}
      PROVE  Max(s) \in 1..n /\ s \ {Max(s)} \in SUBSET (1..n)
  BY <1>6, MaxInside
<1>7. F(g)
  <2>1. ASSUME NEW s \in SUBSET (1..n), s # {}
        PROVE  g[s] = IF /\ PathWithin(p.roots[Max(s)], path)
                         /\ Len(p.roots[Max(s)]) > g[s \ {Max(s)}]
                        THEN Len(p.roots[Max(s)]) ELSE g[s \ {Max(s)}]
    <3>1. <<Max(s), g[s \ {Max(s)}]>> \in (1..n) \X Int
      BY <1>5, <1>6, <2>1
    <3> QED  BY <1>3, <1>5, <2>1, <3>1 DEF Folds
  <2> QED  BY <1>2, <1>5, <2>1 DEF Folds
<1>8. PICK f : F(f) /\ MatchPath(p, path) = f[D]
  <2> HIDE DEF F
  <2> QED  BY <1>1, <1>7
<1>9. f[{}] = -1
  BY <1>8
<1>10. ASSUME NEW s \in SUBSET (1..n), s # {}, f[s \ {Max(s)}] \in Int
       PROVE  f[s] = next[<<Max(s), f[s \ {Max(s)}]>>]
  <2>1. <<Max(s), f[s \ {Max(s)}]>> \in (1..n) \X Int
    BY <1>6, <1>10
  <2> QED  BY <1>2, <1>3, <1>8, <1>10, <2>1
<1>11. PICK longest \in [0..n -> Int] : Loops(longest, f, n, -1, next)
  <2>1. Computes(f, Int, n, -1, next)
    BY <1>9, <1>10 DEF Computes
  <2> HIDE DEF F
  <2> QED  BY <1>4, <2>1, LoopOf
<1>12. ASSUME NEW k \in 1..n
       PROVE  longest[k] = IF PathWithin(p.roots[k], path) /\ Len(p.roots[k]) > longest[k - 1]
                             THEN Len(p.roots[k]) ELSE longest[k - 1]
  <2>1. <<k, longest[k - 1]>> \in (1..n) \X Int
    <3>1. k - 1 \in 0..n
      OBVIOUS
    <3> QED  BY <1>11, <3>1
  <2> QED  BY <1>3, <1>11, <2>1 DEF Loops
<1> QED  BY <1>2, <1>8, <1>11, <1>12 DEF Loops

\* A property of a loop that the first value has and every step keeps.
LEMMA LoopKeeps ==
    ASSUME NEW n \in Nat, NEW S, 0 \in S, \A k \in 1..n : k - 1 \in S => k \in S
    PROVE  \A k \in 0..n : k \in S
<1>1. PICK T : T = {k \in Nat : k <= n => k \in S}
  OBVIOUS
<1>2. 0 \in T
  BY <1>1
<1>3. ASSUME NEW m \in Nat, m \in T PROVE m + 1 \in T
  <2>1. ASSUME m + 1 <= n PROVE m + 1 \in S
    <3>1. m \in S /\ m + 1 \in 1..n /\ (m + 1) - 1 = m
      BY <1>1, <1>3, <2>1
    <3> QED  BY <3>1
  <2> QED  BY <1>1, <2>1
<1>4. \A m \in Nat : m \in T
  BY <1>2, <1>3, SetInduction
<1> QED  BY <1>1, <1>4

\* The longest root around a path.
LEMMA MatchPathIs ==
    ASSUME NEW p, p.roots \in Seq(Seq(STRING)), NEW path
    PROVE  /\ MatchPath(p, path) \in Int /\ MatchPath(p, path) >= -1
           /\ \A k \in 1..Len(p.roots) :
                 PathWithin(p.roots[k], path) => Len(p.roots[k]) <= MatchPath(p, path)
           /\ MatchPath(p, path) # -1 =>
                 \E k \in 1..Len(p.roots) :
                    PathWithin(p.roots[k], path) /\ MatchPath(p, path) = Len(p.roots[k])
<1>1. PICK n \in Nat : n = Len(p.roots) /\ \A k \in 1..n : Len(p.roots[k]) \in Nat
  OBVIOUS
<1>2. PICK longest \in [0..n -> Int] :
         /\ longest[0] = -1
         /\ \A k \in 1..n :
               longest[k] = IF /\ PathWithin(p.roots[k], path)
                               /\ Len(p.roots[k]) > longest[k - 1]
                              THEN Len(p.roots[k]) ELSE longest[k - 1]
         /\ MatchPath(p, path) = longest[n]
  BY <1>1, MatchPathLoop
<1> DEFINE Is(m) ==
             /\ longest[m] \in Int /\ longest[m] >= -1
             /\ \A k \in 1..m : PathWithin(p.roots[k], path) => Len(p.roots[k]) <= longest[m]
             /\ longest[m] # -1 =>
                   \E k \in 1..m : PathWithin(p.roots[k], path) /\ longest[m] = Len(p.roots[k])
           S == {m \in 0..n : Is(m)}
<1>3. 0 \in S
  BY <1>2
<1>4. ASSUME NEW m \in 1..n, m - 1 \in S PROVE m \in S
  <2>1. Is(m - 1) /\ m - 1 \in 0..n /\ m \in 0..n
    BY <1>4
  <2>2. CASE PathWithin(p.roots[m], path) /\ Len(p.roots[m]) > longest[m - 1]
    <3>1. longest[m] = Len(p.roots[m])
      BY <1>2, <2>2
    <3>2. \A k \in 1..m : k = m \/ k \in 1..m - 1
      OBVIOUS
    <3>3. ASSUME NEW k \in 1..m, PathWithin(p.roots[k], path)
          PROVE  Len(p.roots[k]) <= longest[m]
      <4>1. k \in 1..n /\ Len(p.roots[k]) \in Nat /\ Len(p.roots[m]) \in Nat
        BY <1>1
      <4>2. CASE k = m
        BY <3>1, <4>1, <4>2
      <4>3. CASE k \in 1..m - 1
        <5>1. PICK a \in Nat, b \in Int, c \in Nat :
                 a = Len(p.roots[k]) /\ b = longest[m - 1] /\ c = Len(p.roots[m])
          BY <2>1, <4>1
        <5>2. a <= b
          BY <2>1, <3>3, <4>3, <5>1
        <5>3. c > b /\ longest[m] = c
          BY <2>2, <3>1, <5>1
        <5>4. a <= c
          BY <5>2, <5>3
        <5> QED  BY <5>1, <5>3, <5>4
      <4> QED  BY <3>2, <4>2, <4>3
    <3>4. m \in 1..m /\ longest[m] \in Int /\ longest[m] >= -1
      BY <1>1, <3>1
    <3> QED  BY <2>1, <2>2, <3>1, <3>3, <3>4
  <2>3. CASE ~ (PathWithin(p.roots[m], path) /\ Len(p.roots[m]) > longest[m - 1])
    <3>1. longest[m] = longest[m - 1]
      BY <1>2, <2>3
    <3>2. \A k \in 1..m : k = m \/ k \in 1..m - 1
      OBVIOUS
    <3>3. \A k \in 1..m - 1 : k \in 1..m
      OBVIOUS
    <3>4. ASSUME NEW k \in 1..m, PathWithin(p.roots[k], path)
          PROVE  Len(p.roots[k]) <= longest[m]
      <4>1. Len(p.roots[m]) \in Nat /\ longest[m - 1] \in Int
        BY <1>1, <2>1
      <4>2. CASE k = m
        BY <2>3, <3>1, <3>4, <4>1, <4>2
      <4>3. CASE k \in 1..m - 1
        BY <2>1, <3>1, <3>4, <4>3
      <4> QED  BY <3>2, <4>2, <4>3
    <3>5. longest[m] # -1 =>
             \E k \in 1..m : PathWithin(p.roots[k], path) /\ longest[m] = Len(p.roots[k])
      BY <2>1, <3>1, <3>3
    <3> QED  BY <2>1, <3>1, <3>4, <3>5
  <2> QED  BY <2>2, <2>3
<1>5. n \in S
  <2> HIDE DEF S
  <2>1. n \in 0..n
    OBVIOUS
  <2> QED  BY <1>3, <1>4, <2>1, LoopKeeps
<1> QED  BY <1>1, <1>2, <1>5

\* What a list holds at a position is at that position.
LEMMA PositionsAre ==
    ASSUME NEW list, NEW n \in Nat, DOMAIN list = 1..n
    PROVE  DOMAIN Positions(list) = 1..n /\ \A k \in 1..n : Positions(list)[k] = k
  BY DEF Positions

\* The project that a session is assigned to, if there is one.
LEMMA ByAssignmentIs ==
    ASSUME NEW projects, NEW n \in Nat, DOMAIN projects = 1..n
    PROVE  /\ ByAssignment(projects) \in 0..n
           /\ ByAssignment(projects) # NoOwner =>
                 /\ projects[ByAssignment(projects)].assigned
                 /\ \A k \in 1..n : projects[k].assigned => ByAssignment(projects) <= k
           /\ ByAssignment(projects) = NoOwner => \A k \in 1..n : ~ projects[k].assigned
<1> DEFINE P == Positions(projects)
           D == DOMAIN P
           F(f) == f = [s \in SUBSET D |->
                          IF s = {} THEN NoOwner
                          ELSE IF f[s \ {Max(s)}] = NoOwner /\ projects[P[Max(s)]].assigned
                            THEN P[Max(s)] ELSE f[s \ {Max(s)}]]
<1>1. ByAssignment(projects) = (CHOOSE f : F(f))[D]
  BY DEF ByAssignment, FoldLeft, MapThenFoldSet
<1>2. D = 1..n /\ \A k \in 1..n : P[k] = k
  BY PositionsAre
<1> HIDE DEF P
<1>3. PICK next : next = [kv \in (1..n) \X (0..n) |->
                     IF kv[2] = NoOwner /\ projects[kv[1]].assigned THEN kv[1] ELSE kv[2]]
  OBVIOUS
<1>4. next \in [(1..n) \X (0..n) -> 0..n] /\ NoOwner \in 0..n
  BY <1>3 DEF NoOwner
<1>5. PICK g \in [SUBSET (1..n) -> 0..n] : Folds(g, n, NoOwner, next)
  BY <1>4, FoldExists
<1>6. ASSUME NEW s \in SUBSET (1..n), s # {}
      PROVE  Max(s) \in 1..n /\ s \ {Max(s)} \in SUBSET (1..n)
  BY <1>6, MaxInside
<1>7. F(g)
  <2>1. ASSUME NEW s \in SUBSET (1..n), s # {}
        PROVE  g[s] = IF g[s \ {Max(s)}] = NoOwner /\ projects[P[Max(s)]].assigned
                        THEN P[Max(s)] ELSE g[s \ {Max(s)}]
    <3>1. <<Max(s), g[s \ {Max(s)}]>> \in (1..n) \X (0..n) /\ P[Max(s)] = Max(s)
      BY <1>2, <1>5, <1>6, <2>1
    <3> QED  BY <1>3, <1>5, <2>1, <3>1 DEF Folds
  <2> QED  BY <1>2, <1>5, <2>1 DEF Folds
<1>8. PICK f : F(f) /\ ByAssignment(projects) = f[D]
  <2> HIDE DEF F
  <2> QED  BY <1>1, <1>7
<1>9. f[{}] = NoOwner
  BY <1>8
<1>10. ASSUME NEW s \in SUBSET (1..n), s # {}, f[s \ {Max(s)}] \in 0..n
       PROVE  f[s] = next[<<Max(s), f[s \ {Max(s)}]>>]
  <2>1. <<Max(s), f[s \ {Max(s)}]>> \in (1..n) \X (0..n) /\ P[Max(s)] = Max(s)
    BY <1>2, <1>6, <1>10
  <2> QED  BY <1>2, <1>3, <1>8, <1>10, <2>1
<1>11. PICK owner \in [0..n -> 0..n] : Loops(owner, f, n, NoOwner, next)
  <2>1. Computes(f, 0..n, n, NoOwner, next)
    BY <1>9, <1>10 DEF Computes
  <2> HIDE DEF F
  <2> QED  BY <1>4, <2>1, LoopOf
<1>12. ASSUME NEW k \in 1..n
       PROVE  owner[k] = IF owner[k - 1] = NoOwner /\ projects[k].assigned
                           THEN k ELSE owner[k - 1]
  <2>1. <<k, owner[k - 1]>> \in (1..n) \X (0..n)
    <3>1. k - 1 \in 0..n
      OBVIOUS
    <3> QED  BY <1>11, <3>1
  <2> QED  BY <1>3, <1>11, <2>1 DEF Loops
<1> DEFINE Is(m) == /\ owner[m] <= m
                    /\ owner[m] # NoOwner =>
                          /\ projects[owner[m]].assigned
                          /\ \A k \in 1..m : projects[k].assigned => owner[m] <= k
                    /\ owner[m] = NoOwner => \A k \in 1..m : ~ projects[k].assigned
           S == {m \in 0..n : Is(m)}
<1>13. 0 \in S
  <2>1. owner[0] = 0 /\ 0 \in 0..n
    BY <1>11 DEF Loops, NoOwner
  <2> QED  BY <2>1 DEF NoOwner
<1>14. ASSUME NEW m \in 1..n, m - 1 \in S PROVE m \in S
  <2>1. Is(m - 1) /\ m \in 0..n /\ m # 0
    BY <1>14
  <2>2. \A k \in 1..m : k = m \/ k \in 1..m - 1
    OBVIOUS
  <2>3. owner[m] \in 0..n /\ owner[m - 1] \in 0..n
    <3>1. m \in 0..n /\ m - 1 \in 0..n
      OBVIOUS
    <3> QED  BY <1>11, <3>1
  <2>4. CASE owner[m - 1] = NoOwner /\ projects[m].assigned
    <3>1. owner[m] = m
      BY <1>12, <2>4
    <3>2. \A k \in 1..m : projects[k].assigned => k = m
      BY <2>1, <2>2, <2>4
    <3> QED  BY <2>1, <2>4, <3>1, <3>2 DEF NoOwner
  <2>5. CASE ~ (owner[m - 1] = NoOwner /\ projects[m].assigned)
    <3>1. owner[m] = owner[m - 1]
      BY <1>12, <2>5
    <3>2. owner[m] <= m
      BY <2>1, <2>3, <3>1
    <3> QED  BY <2>1, <2>2, <2>5, <3>1, <3>2
  <2> QED  BY <2>4, <2>5
<1>15. n \in S
  <2> HIDE DEF S
  <2>1. n \in 0..n
    OBVIOUS
  <2> QED  BY <1>13, <1>14, <2>1, LoopKeeps
<1>16. ByAssignment(projects) = owner[n]
  BY <1>2, <1>8, <1>11 DEF Loops
<1>17. n \in 0..n
  OBVIOUS
<1> QED  BY <1>11, <1>15, <1>16, <1>17

\* The project with the longest match, if any root is around the path.
LEMMA ByLongestMatchIs ==
    ASSUME NEW path, NEW projects, NEW n \in Nat, DOMAIN projects = 1..n,
           \A k \in 1..n : MatchPath(projects[k], path) \in Int
    PROVE  \E match \in Int :
              /\ ByLongestMatch(projects, path) \in 0..n
              /\ \A k \in 1..n :
                    \/ MatchPath(projects[k], path) < match
                    \/ /\ MatchPath(projects[k], path) = match
                       /\ ByLongestMatch(projects, path) <= k
              /\ IF ByLongestMatch(projects, path) = NoOwner THEN match = -1
                 ELSE match = MatchPath(projects[ByLongestMatch(projects, path)], path)
                      /\ match > -1
<1> DEFINE P == Positions(projects)
           D == DOMAIN P
           M(k) == MatchPath(projects[k], path)
           F(f) == f = [s \in SUBSET D |->
                          IF s = {} THEN [owner |-> NoOwner, match |-> -1]
                          ELSE IF MatchPath(projects[P[Max(s)]], path) > f[s \ {Max(s)}].match
                            THEN [owner |-> P[Max(s)],
                                  match |-> MatchPath(projects[P[Max(s)]], path)]
                            ELSE f[s \ {Max(s)}]]
<1>1. ByLongestMatch(projects, path) = (CHOOSE f : F(f))[D].owner
  BY DEF ByLongestMatch, FoldLeft, MapThenFoldSet
<1>2. D = 1..n /\ \A k \in 1..n : P[k] = k
  BY PositionsAre
<1> HIDE DEF P
<1>3. PICK V, base : V = [owner : 0..n, match : Int] /\ base = [owner |-> NoOwner, match |-> -1]
  OBVIOUS
<1>4. PICK next : next = [kv \in (1..n) \X V |->
                     IF M(kv[1]) > kv[2].match THEN [owner |-> kv[1], match |-> M(kv[1])]
                     ELSE kv[2]]
  OBVIOUS
<1>5. next \in [(1..n) \X V -> V] /\ base \in V
  <2>1. base \in V
    BY <1>3 DEF NoOwner
  <2>2. ASSUME NEW k \in 1..n, NEW v \in V
        PROVE  [owner |-> k, match |-> M(k)] \in V
    <3>1. k \in 0..n /\ M(k) \in Int
      OBVIOUS
    <3> QED  BY <1>3, <3>1
  <2> HIDE DEF M
  <2> QED  BY <1>4, <2>1, <2>2
<1>6. PICK g \in [SUBSET (1..n) -> V] : Folds(g, n, base, next)
  BY <1>5, FoldExists
<1>7. ASSUME NEW s \in SUBSET (1..n), s # {}
      PROVE  Max(s) \in 1..n /\ s \ {Max(s)} \in SUBSET (1..n)
  BY <1>7, MaxInside
<1>8. F(g)
  <2>1. ASSUME NEW s \in SUBSET (1..n), s # {}
        PROVE  g[s] = IF M(P[Max(s)]) > g[s \ {Max(s)}].match
                        THEN [owner |-> P[Max(s)], match |-> M(P[Max(s)])]
                        ELSE g[s \ {Max(s)}]
    <3>1. <<Max(s), g[s \ {Max(s)}]>> \in (1..n) \X V /\ P[Max(s)] = Max(s)
      BY <1>2, <1>6, <1>7, <2>1
    <3> HIDE DEF M
    <3> QED  BY <1>4, <1>6, <2>1, <3>1 DEF Folds
  <2> QED  BY <1>2, <1>3, <1>6, <2>1 DEF Folds
<1>9. PICK f : F(f) /\ ByLongestMatch(projects, path) = f[D].owner
  <2> HIDE DEF F
  <2> QED  BY <1>1, <1>8
<1>10. f[{}] = base
  BY <1>3, <1>9
<1>11. ASSUME NEW s \in SUBSET (1..n), s # {}, f[s \ {Max(s)}] \in V
       PROVE  f[s] = next[<<Max(s), f[s \ {Max(s)}]>>]
  <2>1. <<Max(s), f[s \ {Max(s)}]>> \in (1..n) \X V /\ P[Max(s)] = Max(s)
    BY <1>2, <1>7, <1>11
  <2>2. f[s] = IF M(P[Max(s)]) > f[s \ {Max(s)}].match
                 THEN [owner |-> P[Max(s)], match |-> M(P[Max(s)])] ELSE f[s \ {Max(s)}]
    BY <1>2, <1>9, <1>11
  <2> HIDE DEF M, F
  <2> QED  BY <1>4, <2>1, <2>2
<1>12. PICK best \in [0..n -> V] : Loops(best, f, n, base, next)
  <2>1. Computes(f, V, n, base, next)
    BY <1>10, <1>11 DEF Computes
  <2> HIDE DEF F
  <2> QED  BY <1>5, <2>1, LoopOf
<1>13. ASSUME NEW k \in 1..n
       PROVE  /\ best[k - 1] \in V /\ best[k] \in V
              /\ best[k] = IF M(k) > best[k - 1].match THEN [owner |-> k, match |-> M(k)]
                           ELSE best[k - 1]
  <2>1. k - 1 \in 0..n /\ k \in 0..n
    OBVIOUS
  <2>2. <<k, best[k - 1]>> \in (1..n) \X V
    BY <1>12, <2>1
  <2> HIDE DEF M
  <2> QED  BY <1>4, <1>12, <2>1, <2>2 DEF Loops
<1> DEFINE Is(m) ==
             /\ best[m].owner \in 0..n /\ best[m].owner <= m /\ best[m].match \in Int
             /\ \A k \in 1..m :
                M(k) < best[m].match \/ (M(k) = best[m].match /\ best[m].owner <= k)
             /\ IF best[m].owner = NoOwner THEN best[m].match = -1
                ELSE best[m].match = M(best[m].owner) /\ best[m].match > -1
           S == {m \in 0..n : Is(m)}
<1>14. 0 \in S
  BY <1>3, <1>12 DEF Loops, NoOwner
<1>15. ASSUME NEW m \in 1..n, m - 1 \in S PROVE m \in S
  <2>1. Is(m - 1) /\ m \in 0..n /\ m # 0 /\ M(m) \in Int
    BY <1>15
  <2>2. \A k \in 1..m : k = m \/ k \in 1..m - 1
    OBVIOUS
  <2>3. \A k \in 1..m - 1 : k \in 1..n
    OBVIOUS
  <2>4. \A k \in 1..n : M(k) \in Int
    OBVIOUS
  <2> HIDE DEF M
  <2>5. CASE M(m) > best[m - 1].match
    <3>1. best[m].owner = m /\ best[m].match = M(m)
      <4>1. best[m] = [owner |-> m, match |-> M(m)]
        BY <1>13, <2>5
      <4> QED  BY <4>1
    <3>2. \A k \in 1..m :
                M(k) < best[m].match \/ (M(k) = best[m].match /\ best[m].owner <= k)
      <4>1. PICK old \in Int, new \in Int : old = best[m - 1].match /\ new = M(m)
        BY <2>1
      <4>2. ASSUME NEW k \in 1..m - 1 PROVE M(k) <= old /\ M(k) \in Int
        <5>1. PICK v \in Int : v = M(k)
          BY <2>3, <2>4
        <5>2. v < old \/ v = old
          BY <2>1, <4>1, <5>1
        <5> QED  BY <5>1, <5>2
      <4>3. \A k \in 1..m - 1 : M(k) < new
        BY <2>5, <4>1, <4>2
      <4>4. M(m) = new /\ m <= m
        BY <4>1
      <4> QED  BY <2>2, <3>1, <4>1, <4>3, <4>4
    <3>3. best[m].match > -1
      BY <2>1, <2>5, <3>1
    <3> QED  BY <2>1, <3>1, <3>2, <3>3 DEF NoOwner
  <2>6. CASE ~ (M(m) > best[m - 1].match)
    <3>1. best[m] = best[m - 1]
      BY <1>13, <2>6
    <3>2. PICK old \in Int, new \in Int, first \in 0..n :
             old = best[m - 1].match /\ new = M(m) /\ first = best[m - 1].owner
      BY <2>1
    <3>3. first <= m - 1 /\ first <= m
      BY <2>1, <3>2
    <3>4. new < old \/ (new = old /\ first <= m)
      BY <2>6, <3>2, <3>3
    <3>5. \A k \in 1..m :
                M(k) < best[m].match \/ (M(k) = best[m].match /\ best[m].owner <= k)
      BY <2>1, <2>2, <3>1, <3>2, <3>4
    <3> QED  BY <2>1, <3>1, <3>2, <3>3, <3>5
  <2> QED  BY <2>5, <2>6
<1>16. n \in S
  <2> HIDE DEF S
  <2>1. n \in 0..n
    OBVIOUS
  <2> QED  BY <1>14, <1>15, <2>1, LoopKeeps
<1>17. ByLongestMatch(projects, path) = best[n].owner
  BY <1>2, <1>9, <1>12 DEF Loops
<1> QED  BY <1>16, <1>17

\* A session belongs to the project it is assigned to, or else to the one whose root is
\* closest around its directory, the first of several (OwnerIsClosest), for any number
\* of projects with any roots: the two loops over the projects and the one over the roots of each find it.
THEOREM OwnerStaysClosest == WorkspaceSpec => []OwnerIsClosest
<1>1. CatalogInv => OwnerIsClosest
  <2> SUFFICES ASSUME CatalogInv, NEW path \in Paths
               PROVE  LET owner == ProjectOwner(Found, path)
                          around == {a \in (DOMAIN Found) \X Paths :
                                        /\ PathWithin(a[2], path)
                                        /\ Contains(Found[a[1]].roots, a[2])}
                          assigned == {k \in DOMAIN Found : Found[k].assigned}
                      IN IF assigned # {}
                           THEN owner \in assigned /\ \A k \in assigned : owner <= k
                         ELSE IF around = {} THEN owner = NoOwner
                         ELSE \E a \in around :
                                 /\ a[1] = owner
                                 /\ \A b \in around :
                                       \/ Len(b[2]) < Len(a[2])
                                       \/ Len(b[2]) = Len(a[2]) /\ owner <= b[1]
    BY DEF OwnerIsClosest
  <2>1. PICK projects \in Seq(ListedProjects) : projects = Found
    BY DEF CatalogInv, CatalogTypes, Found
  <2>2. PICK n \in Nat : n = Len(projects) /\ DOMAIN projects = 1..n
    BY <2>1
  <2>3. ASSUME NEW k \in 1..n
        PROVE  projects[k].roots \in Seq(Paths) /\ projects[k].roots \in Seq(Seq(STRING))
    BY <2>1, <2>2, PathsAssumption DEF ListedProjects, AllowedLists
  <2> DEFINE M(k) == MatchPath(projects[k], path)
             Claimed == {k \in 1..n : projects[k].assigned}
             Covering == {a \in (1..n) \X Paths :
                           PathWithin(a[2], path) /\ Contains(projects[a[1]].roots, a[2])}
  <2>4. ASSUME NEW k \in 1..n
        PROVE  /\ M(k) \in Int /\ M(k) >= -1
               /\ \A a \in Covering : a[1] = k => Len(a[2]) <= M(k)
               /\ M(k) # -1 => \E a \in Covering : a[1] = k /\ Len(a[2]) = M(k)
    <3>1. PICK roots \in Seq(Paths) : roots = projects[k].roots /\ DOMAIN roots = 1..Len(roots)
      BY <2>3
    <3>2. /\ M(k) \in Int /\ M(k) >= -1
          /\ \A i \in 1..Len(roots) : PathWithin(roots[i], path) => Len(roots[i]) <= M(k)
          /\ M(k) # -1 => \E i \in 1..Len(roots) :
                             PathWithin(roots[i], path) /\ M(k) = Len(roots[i])
      BY <2>3, <3>1, MatchPathIs
    <3> HIDE DEF M
    <3>3. ASSUME NEW a \in Covering, a[1] = k PROVE Len(a[2]) <= M(k)
      <4>1. PICK i \in 1..Len(roots) : roots[i] = a[2]
        BY <3>1, <3>3 DEF Contains
      <4> QED  BY <3>2, <4>1
    <3>4. ASSUME M(k) # -1 PROVE \E a \in Covering : a[1] = k /\ Len(a[2]) = M(k)
      <4>1. PICK i \in 1..Len(roots) : PathWithin(roots[i], path) /\ M(k) = Len(roots[i])
        BY <3>2, <3>4
      <4>2. roots[i] \in Paths /\ Contains(roots, roots[i])
        BY <3>1 DEF Contains
      <4>3. <<k, roots[i]>> \in Covering
        BY <3>1, <4>1, <4>2
      <4> QED  BY <4>1, <4>3
    <3> QED  BY <3>2, <3>3, <3>4
  <2>5. /\ ByAssignment(projects) \in 0..n
        /\ ByAssignment(projects) # NoOwner =>
              /\ ByAssignment(projects) \in Claimed
              /\ \A k \in Claimed : ByAssignment(projects) <= k
        /\ ByAssignment(projects) = NoOwner => Claimed = {}
    BY <2>2, ByAssignmentIs DEF NoOwner
  <2>6. PICK match \in Int :
              /\ ByLongestMatch(projects, path) \in 0..n
              /\ \A k \in 1..n :
                    M(k) < match \/ (M(k) = match /\ ByLongestMatch(projects, path) <= k)
              /\ IF ByLongestMatch(projects, path) = NoOwner THEN match = -1
                 ELSE match = M(ByLongestMatch(projects, path)) /\ match > -1
    BY <2>2, <2>4, ByLongestMatchIs
  <2> HIDE DEF M
  <2> DEFINE owner == ProjectOwner(projects, path)
  <2>7. CASE Claimed # {}
    <3>1. owner \in Claimed /\ \A k \in Claimed : owner <= k
      BY <2>5, <2>7 DEF ProjectOwner
    <3> QED  BY <2>1, <2>2, <2>7, <3>1
  <2>8. CASE Claimed = {} /\ Covering = {}
    <3>1. owner = ByLongestMatch(projects, path)
      BY <2>5, <2>8 DEF ProjectOwner
    <3>2. \A k \in 1..n : M(k) = -1
      BY <2>4, <2>8
    <3>3. owner = NoOwner
      BY <2>6, <3>1, <3>2 DEF NoOwner
    <3> QED  BY <2>1, <2>2, <2>8, <3>3
  <2>9. CASE Claimed = {} /\ Covering # {}
    <3>1. owner = ByLongestMatch(projects, path)
      BY <2>5, <2>9 DEF ProjectOwner
    <3>2. \A b \in Covering : b[1] \in 1..n /\ Len(b[2]) \in Nat
      BY PathsAssumption
    <3>3. \A b \in Covering : Len(b[2]) < match \/ (Len(b[2]) = match /\ owner <= b[1])
      <4> TAKE b \in Covering
      <4>1. PICK k \in 1..n : k = b[1]
        BY <3>2
      <4>2. PICK l \in Nat, m \in Int : l = Len(b[2]) /\ m = M(k)
        BY <2>4, <3>2
      <4>3. l <= m
        BY <2>4, <4>1, <4>2
      <4>4. m < match \/ (m = match /\ owner <= k)
        BY <2>6, <3>1, <4>2
      <4> HIDE DEF Covering
      <4>5. l < match \/ (l = match /\ owner <= k)
        BY <4>3, <4>4
      <4> QED  BY <4>1, <4>2, <4>5
    <3>4. match > -1
      BY <2>6, <2>9, <3>2, <3>3
    <3>5. owner \in 1..n /\ M(owner) = match
      BY <2>6, <3>1, <3>4 DEF NoOwner
    <3>6. PICK a \in Covering : a[1] = owner /\ Len(a[2]) = match
      BY <2>4, <3>4, <3>5
    <3>7. \A b \in Covering :
             Len(b[2]) < Len(a[2]) \/ (Len(b[2]) = Len(a[2]) /\ owner <= b[1])
      BY <3>3, <3>6
    <3> QED  BY <2>1, <2>2, <2>9, <3>6, <3>7
  <2> QED  BY <2>7, <2>8, <2>9
<1> QED  BY <1>1, CatalogInvariance, PTL

-----------------------------------------------------------------------------
(* The run of all parts *)

\* A behaviour of the run is one of each part, so what is proved of the parts holds of
\* the run: the parts that serve the relay keep to their types (ServingTypeOK).
THEOREM ServingTyping == ServingSpec => []ServingTypeOK
<1>1. ServingInit => SessionInit /\ InventoryInit
  BY DEF ServingInit
<1>2. [ServingNext]_servingVars => [SessionNext]_sessionVars
  BY DEF ServingNext, servingVars
<1>3. [ServingNext]_servingVars => [InventoryNext]_inventoryVars
  BY DEF ServingNext, servingVars
<1>4. ServingSpec => SessionSpec
  BY <1>1, <1>2, PTL DEF ServingSpec, SessionSpec
<1>5. ServingSpec => InventorySpec
  BY <1>1, <1>3, PTL DEF ServingSpec, InventorySpec
<1>6. SessionTypeOK /\ InventoryTypeOK => ServingTypeOK
  BY DEF ServingTypeOK
<1> QED  BY <1>4, <1>5, <1>6, SessionTyping, InventoryTyping, PTL
=============================================================================
