------------------------- MODULE RunDelivery_proofs -------------------------
(***************************************************************************)
(* Proofs about RunDelivery: nothing that was recorded is lost, the server *)
(* sees each sequence with one event only, and no command runs twice, for  *)
(* any number of runs, commands and events, any queue, and any number of   *)
(* crashes, broken sessions, redelivered starts and refused appends.       *)
(*                                                                         *)
(* The inductive invariant has three parts.  Recorded relates the tables,  *)
(* the history of appended events and what the server has.  InTransit says *)
(* that every copy on its way (queue, session, goroutines) is one of a     *)
(* recorded event, or a message without a sequence of the two kinds there  *)
(* are.  StartsOnce follows a command from its row to its turn.            *)
(*                                                                         *)
(* The record of a run reads accepted first and closes with its first      *)
(* terminal event or rejection, although two goroutines append.  What      *)
(* makes it so is who may append to a run at all: the handler while the    *)
(* run is fresh, then the handler or the turn, never both, while it is     *)
(* open, and nobody once it is closed.                                     *)
(*                                                                         *)
(* A message without a sequence may report an end the store refused.  That *)
(* it agrees with the recorded one rests on the turn: it is started once,  *)
(* hands over one terminal event, and every report of an end is of that    *)
(* one (EndInv).  The types of the composition follow from what is known   *)
(* of the copies in transit.                                               *)
(***************************************************************************)
EXTENDS RunDelivery, DurableStore_proofs

-----------------------------------------------------------------------------
(* The invariant *)

Numbered(e) ==
    /\ e.run \in KnownRuns
    /\ e.seq \in 1..(agentRuns[e.run].next - 1)

Recorded ==
    /\ StoreInv
    /\ log \subseteq Event
    /\ \A e \in log : Numbered(e)
    /\ \A e, f \in log : e.run = f.run /\ e.seq = f.seq => e = f
    /\ resultOutbox \subseteq log
    /\ durable \subseteq log
    /\ log \subseteq resultOutbox \cup durable

\* Messages without a sequence: what reject() publishes, and how a turn ended.
Rejections == [run : Runs, seq : {0}, type : {"turn.rejected"}]
Endings == [run : Runs, seq : {0}, type : TerminalTypes]

\* What a goroutine may publish.
Published == log \cup Rejections

\* The states of the two goroutines between their steps.
HandlerStates ==
    {Idle} \cup [pc : {"accept", "start", "reject"}, run : Runs]
      \cup [pc : {"publish"}, rows : SUBSET Published,
            then : {Idle} \cup [pc : {"start"}, run : Runs]]
EndingStates == [pc : {"ending"}, run : Runs, type : TerminalTypes]
ExecStates ==
    {Idle} \cup EndingStates \cup [pc : {"running"}, run : Runs]
      \cup [pc : {"publish"}, row : log,
            then : EndingStates \cup [pc : {"running"}, run : Runs]]

InTransit ==
    /\ outbound \in Seq(Published)
    /\ initial \subseteq log \cup Endings
    /\ lastTerminal \subseteq Endings
    /\ told \subseteq Rejections \cup Endings
    /\ replay \subseteq log
    /\ handler \in HandlerStates
    /\ exec \in ExecStates

\* The handler is on its way to start the turn of r.
WillStart(r) ==
    \/ handler.pc \in {"accept", "start"} /\ handler.run = r
    \/ /\ handler.pc = "publish"
       /\ handler.then.pc = "start" /\ handler.then.run = r

StartsOnce ==
    /\ starts \in [Runs -> {0, 1}]
    /\ \A r \in Runs : starts[r] = 1 => r \in KnownRuns
    /\ \A r \in Runs : WillStart(r) => r \in KnownRuns /\ starts[r] = 0
    /\ \A r, q \in KnownRuns : agentRuns[r].command = agentRuns[q].command
                                  => r = q

DeliveryInv == Recorded /\ InTransit /\ StartsOnce

USE DEF serverVars

\* Nothing is recorded, sent or started in a fresh process on a fresh database.
LEMMA DeliveryInitInv == Init => DeliveryInv
<1> SUFFICES ASSUME Init PROVE DeliveryInv
  OBVIOUS
<1>1. StoreInv
  BY StoreInitInv DEF Init
<1>2. Recorded
  BY <1>1, SMT DEF Init, StoreInit, Recorded
<1>3. InTransit
  BY SMT DEF Init, InTransit, HandlerStates, ExecStates
<1>4. StartsOnce
  BY SMT DEF Init, StoreInit, StartsOnce, WillStart, Idle, KnownRuns
<1> QED
  BY <1>2, <1>3, <1>4 DEF DeliveryInv

-----------------------------------------------------------------------------
(* Recorded, one operation of the store or the session at a time *)

\* A step that leaves the store, the history and the server alone keeps it.
LEMMA SameRecorded ==
  ASSUME Recorded, UNCHANGED <<storeVars, log, durable>>
  PROVE  Recorded'
<1>1. StoreInv'
  BY StoreStepInv DEF Recorded, storeVars
<1> QED
  BY <1>1 DEF Recorded, Numbered, KnownRuns, storeVars

\* Append1 gives the event the next sequence of its run, which no recorded event
\* has, and puts it into the outbox.
LEMMA AppendRecorded ==
  ASSUME Recorded, NEW r, NEW t \in EventTypes, Append1(r, t),
         UNCHANGED durable
  PROVE  /\ Recorded'
         /\ r \in KnownRuns /\ KnownRuns' = KnownRuns
         /\ log \subseteq log' /\ NewEvent(r, t) \in log'
         /\ \A q \in KnownRuns :
               agentRuns'[q].command = agentRuns[q].command
<1> DEFINE e == NewEvent(r, t)
           n == agentRuns[r].next
<1>1. /\ r \in KnownRuns /\ r \in Runs
      /\ InsertEvent(r, n, t)
      /\ log' = log \cup {e}
  BY DEF Append1, AppendEvent, Recorded, StoreInv, StoreTypeOK
<1>2. StoreInv'
  BY <1>1, StoreStepInv DEF Recorded, Append1, StoreNext
<1>3. /\ DOMAIN agentRuns' = DOMAIN agentRuns
      /\ agentRuns'[r].next = n + 1
      /\ \A q \in DOMAIN agentRuns : q # r => agentRuns'[q] = agentRuns[q]
      /\ resultOutbox' = resultOutbox \cup {e}
  BY <1>1, InsertEventEffect DEF Recorded, NewEvent
<1>4. n \in Nat /\ n >= 1
  BY <1>1, SMT DEF Recorded, StoreInv, StoreTypeOK, RunRow,
                   OutboxIsUnackedSuffix, HoldsUnackedSuffix
<1>5. \A q \in DOMAIN agentRuns : agentRuns[q].next \in Nat
  BY SMT DEF Recorded, StoreInv, StoreTypeOK, RunRow, KnownRuns
<1>6. e \in Event /\ e.run = r /\ e.seq = n
  <2>1. n \in 1..MaxEvents
    BY <1>4, MaxEventsAssumption, SMT DEF Append1, AppendEvent
  <2> QED
    BY <1>1, <2>1 DEF NewEvent, Event
<1> HIDE DEF e, n
<1>7. \A f \in log' : Numbered(f)'
  <2>1. ASSUME NEW f \in log', f = e
        PROVE  Numbered(f)'
    <3>1. f.run = r /\ f.seq \in 1..n
      BY <1>4, <1>6, <2>1, SMT
    <3> QED
      BY <1>1, <1>3, <1>4, <3>1, SMT DEF Numbered, KnownRuns
  <2>2. ASSUME NEW f \in log
        PROVE  Numbered(f)'
    <3>1. f.run \in DOMAIN agentRuns /\ f.seq \in 1..(agentRuns[f.run].next - 1)
      BY DEF Recorded, Numbered, KnownRuns
    <3>2. CASE f.run = r
      <4>1. f.seq \in 1..n
        BY <3>1, <3>2, <1>4, SMT DEF n
      <4> QED
        BY <1>1, <1>3, <1>4, <3>2, <4>1, SMT DEF Numbered, KnownRuns
    <3>3. CASE f.run # r
      BY <1>3, <3>1, <3>3 DEF Numbered, KnownRuns
    <3> QED
      BY <3>2, <3>3
  <2> QED
    BY <1>1, <2>1, <2>2
<1>8. \A f \in log : ~ (f.run = r /\ f.seq = n)
  BY <1>4, SMT DEF Recorded, Numbered, n
<1>9. \A f, g \in log' : f.run = g.run /\ f.seq = g.seq => f = g
  BY <1>1, <1>6, <1>8 DEF Recorded
<1>10. \A q \in KnownRuns : agentRuns'[q].command = agentRuns[q].command
  <2>1. agentRuns[r] \in RunRow /\ agentRuns' = [agentRuns EXCEPT ![r] = AdvanceRow(@, n, t)]
    BY <1>1, SMT DEF InsertEvent, Recorded, StoreInv, StoreTypeOK, n
  <2>2. AdvanceRow(agentRuns[r], n, t).command = agentRuns[r].command
    BY <2>1, SMT DEF AdvanceRow, Counted, RunRow
  <2> QED
    BY <1>1, <1>3, <2>1, <2>2 DEF KnownRuns
<1> QED
  BY <1>1, <1>2, <1>3, <1>6, <1>7, <1>9, <1>10
     DEF Recorded, KnownRuns, e

\* PrepareRun adds a row without events, for a command no other row has.
LEMMA PrepareRecorded ==
  ASSUME Recorded, NEW r \in Runs, NEW c \in Commands, NEW p \in Payloads,
         PrepareRun(r, c, p), UNCHANGED <<log, durable>>
  PROVE  /\ Recorded'
         /\ KnownRuns' = KnownRuns \cup {r} /\ r \notin KnownRuns
         /\ agentRuns'[r].command = c
         /\ \A q \in KnownRuns : agentRuns'[q] = agentRuns[q]
<1>1. StoreInv'
  BY StoreStepInv DEF Recorded, StoreNext
<1>2. /\ DOMAIN agentRuns' = DOMAIN agentRuns \cup {r}
      /\ r \notin DOMAIN agentRuns
      /\ agentRuns'[r] = NewRow(c, p)
      /\ \A q \in DOMAIN agentRuns : agentRuns'[q] = agentRuns[q]
      /\ resultOutbox' = resultOutbox
  BY PrepareRunEffect DEF Recorded
<1>3. \A e \in log' : Numbered(e)'
  BY <1>2 DEF Recorded, Numbered, KnownRuns
<1> QED
  BY <1>1, <1>2, <1>3 DEF Recorded, KnownRuns, NewRow

\* An acknowledgement releases rows of a prefix that the server has: each of
\* them is durable, for the server's event of that sequence is the recorded one.
LEMMA AckRecorded ==
  ASSUME Recorded, NEW r \in Runs, NEW s \in 1..MaxEvents,
         ServerHasAll(r, s), DurableAck(r, s), UNCHANGED <<log, durable>>
  PROVE  /\ Recorded'
         /\ KnownRuns' = KnownRuns
         /\ \A q \in KnownRuns :
               agentRuns'[q].command = agentRuns[q].command
<1> USE MaxEventsAssumption
<1>1. r \in KnownRuns /\ s \in Nat /\ s \in AckSequences /\ ReleaseUpTo(r, s)
  BY AckableSequences, SMT DEF DurableAck
<1>2. StoreInv'
  BY <1>1, StoreStepInv DEF Recorded, StoreNext
<1>3. /\ DOMAIN agentRuns' = DOMAIN agentRuns
      /\ agentRuns'[r].next = agentRuns[r].next
      /\ \A q \in DOMAIN agentRuns : q # r => agentRuns'[q] = agentRuns[q]
      /\ resultOutbox' = {e \in resultOutbox : ~ (e.run = r /\ e.seq <= s)}
  BY <1>1, ReleaseUpToEffect DEF Recorded
<1>4. \A e \in log' : Numbered(e)'
  BY <1>3 DEF Recorded, Numbered, KnownRuns
<1>5. ASSUME NEW e \in log, e \notin durable
      PROVE  e \in resultOutbox'
  <2>1. e \in resultOutbox
    BY <1>5 DEF Recorded
  <2>2. SUFFICES ASSUME e.run = r, e.seq <= s PROVE FALSE
    BY <1>3, <2>1
  <2>3. e.seq \in 1..s
    BY <2>2, <1>1, SMT DEF Recorded, Event, Numbered
  <2>4. PICK d \in durable : d.run = r /\ d.seq = e.seq
    BY <2>3 DEF ServerHasAll
  <2>5. d = e
    BY <2>2, <2>4 DEF Recorded
  <2> QED
    BY <1>5, <2>4, <2>5
<1>6. \A q \in KnownRuns : agentRuns'[q].command = agentRuns[q].command
  <2>1. /\ agentRuns[r] \in RunRow
        /\ agentRuns' = [agentRuns EXCEPT ![r] = AdvanceAck(@, s)]
    BY <1>1, SMT DEF ReleaseUpTo, Recorded, StoreInv, StoreTypeOK
  <2>2. AdvanceAck(agentRuns[r], s).command = agentRuns[r].command
    BY <2>1, SMT DEF AdvanceAck, RunRow
  <2> QED
    BY <1>1, <1>3, <2>1, <2>2 DEF KnownRuns
<1> QED
  BY <1>2, <1>3, <1>4, <1>5, <1>6 DEF Recorded, KnownRuns

\* What is written under a sequence is a recorded event, whether or not it gets
\* through; what is written without one leaves the events of the server alone.
LEMMA WriteRecorded ==
  ASSUME Recorded, NEW e \in log \cup Rejections \cup Endings, Write(e),
         UNCHANGED <<storeVars, log>>, told \subseteq Rejections \cup Endings
  PROVE  Recorded' /\ told' \subseteq Rejections \cup Endings
<1>1. StoreInv'
  BY StoreStepInv DEF Recorded, storeVars
<1>2. durable' = durable \/ (e \in log /\ durable' = durable \cup {e})
  BY DEF Write, Rejections, Endings
<1>3. e \in log => e.seq # 0
  BY SMT DEF Recorded, Event
<1>4. told' \subseteq Rejections \cup Endings
  BY <1>3 DEF Write
<1> QED
  BY <1>1, <1>2, <1>4 DEF Recorded, Numbered, KnownRuns, storeVars

-----------------------------------------------------------------------------
(* InTransit and StartsOnce: what the actions have in common *)

\* What may be on its way only grows with the history.
LEMMA TransitGrows ==
  ASSUME log \subseteq log'
  PROVE  /\ Seq(Published) \subseteq Seq(Published')
         /\ HandlerStates \subseteq HandlerStates'
         /\ ExecStates \subseteq ExecStates'
<1>1. Seq(Published) \subseteq Seq(Published')
  BY SMT DEF Published
<1>2. SUBSET Published \subseteq SUBSET Published'
  BY DEF Published
<1>3. HandlerStates \subseteq HandlerStates'
  BY <1>2 DEF HandlerStates, Idle
<1>4. ExecStates \subseteq ExecStates'
  BY DEF ExecStates, Idle
<1> QED
  BY <1>1, <1>3, <1>4

\* Publishing what may be published, dropped or not, queues nothing else.
LEMMA PublishQueues ==
  ASSUME outbound \in Seq(Published), NEW e \in Published, Publish(e)
  PROVE  outbound' \in Seq(Published)
  BY SMT DEF Publish

\* A step that starts nothing, and sets nothing on its way to a start, keeps
\* StartsOnce.
LEMMA StartsKept ==
  ASSUME StartsOnce, starts' = starts, KnownRuns' = KnownRuns,
         \A q \in KnownRuns : agentRuns'[q].command = agentRuns[q].command,
         \A r \in Runs : WillStart(r)' => WillStart(r)
  PROVE  StartsOnce'
  BY DEF StartsOnce

-----------------------------------------------------------------------------
(* The steps that record nothing *)

\* Publishing leads from copies of recorded events to copies of recorded
\* events, and no closer to a start than the handler already was.
LEMMA HandlePublishStep ==
  ASSUME DeliveryInv, HandlePublish
  PROVE  DeliveryInv'
<1> USE DEF DeliveryInv
<1>1. Recorded' /\ log' = log
  BY SameRecorded DEF HandlePublish, historyVars
<1>2. /\ handler \in [pc : {"publish"}, rows : SUBSET Published,
                      then : {Idle} \cup [pc : {"start"}, run : Runs]]
      /\ handler.rows \subseteq Published
  BY DEF HandlePublish, HandlerIs, InTransit, HandlerStates, Idle
<1>3. /\ outbound' \in Seq(Published)
      /\ handler' \in HandlerStates
      /\ \A r \in Runs : WillStart(r)' => WillStart(r)
  <2>1. CASE handler' = handler.then /\ UNCHANGED outbound
    BY <1>2, <2>1 DEF InTransit, HandlerStates, WillStart, Idle
  <2>2. ASSUME NEW e \in handler.rows, Publish(e),
               handler' = [handler EXCEPT !.rows = @ \ {e}]
        PROVE  <1>3!:
    <3>1. outbound' \in Seq(Published)
      BY <1>2, <2>2, PublishQueues DEF InTransit
    <3>2. handler' \in [pc : {"publish"}, rows : SUBSET Published,
                        then : {Idle} \cup [pc : {"start"}, run : Runs]]
      BY <1>2, <2>2
    <3>3. handler'.pc = handler.pc /\ handler'.then = handler.then
      BY <1>2, <2>2
    <3> QED
      BY <1>2, <3>1, <3>2, <3>3 DEF HandlerStates, WillStart
  <2> QED
    BY <2>1, <2>2 DEF HandlePublish
<1>4. InTransit'
  BY <1>1, <1>3 DEF HandlePublish, InTransit, HandlerStates, ExecStates, Published
<1>5. StartsOnce'
  BY <1>3, StartsKept
     DEF HandlePublish, storeVars, historyVars, KnownRuns
<1> QED
  BY <1>1, <1>4, <1>5

\* The turn publishes the row it has appended and goes on, or ends.
LEMMA ExecStep ==
  ASSUME DeliveryInv, ExecPublish \/ ExecEnd
  PROVE  DeliveryInv'
<1> USE DEF DeliveryInv
<1>1. Recorded' /\ log' = log
  BY SameRecorded DEF ExecPublish, ExecEnd, historyVars
<1>2. outbound' \in Seq(Published) /\ exec' \in ExecStates /\ lastTerminal' \subseteq Endings
  <2>1. CASE ExecPublish
    <3>1. exec \in [pc : {"publish"}, row : log,
                    then : EndingStates \cup [pc : {"running"}, run : Runs]]
      BY <2>1 DEF ExecPublish, InTransit, ExecStates, EndingStates, Idle
    <3>2. exec.row \in Published /\ exec.then \in ExecStates
      BY <3>1 DEF ExecStates, Published
    <3> QED
      BY <2>1, <3>2, PublishQueues DEF ExecPublish, InTransit
  <2>2. CASE ExecEnd
    <3>1. exec \in EndingStates
      BY <2>2 DEF ExecEnd, InTransit, ExecStates, Idle
    <3>2. Notice(exec.run, exec.type) \in Endings
      BY <3>1 DEF EndingStates, Endings, Notice
    <3> QED
      BY <2>2, <3>2 DEF ExecEnd, relayVars, InTransit, ExecStates
  <2> QED
    BY <2>1, <2>2
<1>3. InTransit'
  BY <1>1, <1>2
     DEF ExecPublish, ExecEnd, relayVars, InTransit, HandlerStates, ExecStates, Published
<1>4. StartsOnce'
  BY StartsKept
     DEF ExecPublish, ExecEnd, storeVars, historyVars, KnownRuns, WillStart
<1> QED
  BY <1>1, <1>3, <1>4

\* The ticker takes its rows from the outbox, which holds recorded events only.
LEMMA ReplayStep ==
  ASSUME DeliveryInv, ReplayTick \/ ReplayPublish
  PROVE  DeliveryInv'
<1> USE DEF DeliveryInv
<1>1. Recorded' /\ log' = log
  BY SameRecorded DEF ReplayTick, ReplayPublish, historyVars
<1>2. outbound' \in Seq(Published) /\ replay' \subseteq log
  <2>1. CASE ReplayTick
    BY <2>1 DEF ReplayTick, relayVars, InTransit, Recorded, Pending
  <2>2. CASE ReplayPublish
    BY <2>2, PublishQueues DEF ReplayPublish, InTransit, Published
  <2> QED
    BY <2>1, <2>2
<1>3. InTransit'
  BY <1>1, <1>2 DEF ReplayTick, ReplayPublish, relayVars, InTransit,
                    HandlerStates, ExecStates, Published
<1>4. StartsOnce'
  BY StartsKept DEF ReplayTick, ReplayPublish, storeVars, historyVars,
                    KnownRuns, WillStart
<1> QED
  BY <1>1, <1>3, <1>4

\* The session writes what is queued or pending: recorded events.
LEMMA SessionStep ==
  ASSUME DeliveryInv,
         Dial \/ LoadInitial \/ WriteInitial \/ WriteOutbound \/ Disconnect
  PROVE  DeliveryInv'
<1> USE DEF DeliveryInv
<1>1. UNCHANGED <<storeVars, handler, exec, lastTerminal, replay, log, starts>>
  BY DEF Dial, LoadInitial, WriteInitial, WriteOutbound, Disconnect, historyVars
<1>2. /\ Recorded'
      /\ outbound' \in Seq(Published) /\ initial' \subseteq log \cup Endings
      /\ told' \subseteq Rejections \cup Endings
  <2>1. CASE UNCHANGED <<durable, told>>
    <3>1. CASE Dial
      BY <1>1, <2>1, <3>1, SameRecorded DEF Dial, InTransit
    <3>2. CASE LoadInitial
      BY <1>1, <2>1, <3>2, SameRecorded
         DEF LoadInitial, InTransit, Recorded, Pending
    <3>3. CASE WriteInitial
      BY <1>1, <2>1, <3>3, SameRecorded DEF WriteInitial, InTransit
    <3>4. CASE WriteOutbound
      BY <1>1, <2>1, <3>4, SameRecorded DEF WriteOutbound, InTransit
    <3>5. CASE Disconnect
      BY <1>1, <2>1, <3>5, SameRecorded DEF Disconnect, InTransit
    <3> QED
      BY <3>1, <3>2, <3>3, <3>4, <3>5
  <2>2. ASSUME WriteInitial, <<durable, told>>' # <<durable, told>>
        PROVE  <1>2!:
    <3>1. PICK e \in initial : Write(e) /\ initial' = initial \ {e}
      BY <2>2 DEF WriteInitial
    <3>2. e \in log \cup Rejections \cup Endings
      BY <3>1 DEF InTransit
    <3> QED
      BY <1>1, <2>2, <3>1, <3>2, WriteRecorded DEF WriteInitial, InTransit
  <2>3. ASSUME WriteOutbound
        PROVE  <1>2!:
    <3>1. Head(outbound) \in Published /\ Tail(outbound) \in Seq(Published)
      BY <2>3, SMT DEF WriteOutbound, InTransit
    <3>2. PICK e \in log \cup Rejections \cup Endings : e = Head(outbound)
      BY <3>1 DEF Published
    <3> QED
      BY <1>1, <2>3, <3>1, <3>2, WriteRecorded DEF WriteOutbound, InTransit
  <2> QED
    BY <2>1, <2>2, <2>3 DEF Dial, LoadInitial, Disconnect
<1>3. InTransit'
  BY <1>1, <1>2 DEF InTransit, HandlerStates, ExecStates, Published
<1>4. StartsOnce'
  BY <1>1, StartsKept DEF storeVars, KnownRuns, WillStart
<1> QED
  BY <1>2, <1>3, <1>4

\* A crash keeps the store and loses everything that was on its way, a start
\* of a turn included.
LEMMA CrashStep ==
  ASSUME DeliveryInv, Crash
  PROVE  DeliveryInv'
<1> USE DEF DeliveryInv
<1>1. Recorded' /\ log' = log
  BY SameRecorded DEF Crash, historyVars
<1>2. InTransit'
  BY SMT DEF Crash, InTransit, HandlerStates, ExecStates, Published
<1>3. \A r \in Runs : ~ WillStart(r)'
  BY DEF Crash, WillStart, Idle
<1>4. StartsOnce'
  BY <1>3, StartsKept DEF Crash, storeVars, historyVars, KnownRuns
<1> QED
  BY <1>1, <1>2, <1>4

-----------------------------------------------------------------------------
(* The steps of the handler and the turn that write the store *)

\* A refused append changes nothing that the invariant speaks of.
LEMMA RefusedAppend ==
  ASSUME DeliveryInv, AppendFails, UNCHANGED durable
  PROVE  Recorded' /\ log' = log /\ agentRuns' = agentRuns
  BY SameRecorded DEF DeliveryInv, AppendFails, storeVars

\* Refusing a run leads to no start.
LEMMA RefusingStarts ==
  ASSUME NEW r \in Runs
  PROVE  /\ Refusing(r) \in HandlerStates
         /\ handler' = Refusing(r) => \A q \in Runs : ~ WillStart(q)'
<1>1. {Notice(r, "turn.rejected")} \in SUBSET Published
  BY DEF Notice, Published, Rejections
<1>2. Refusing(r) \in HandlerStates
  BY <1>1 DEF Refusing, HandlerStates, Idle
<1>3. handler' = Refusing(r) => \A q \in Runs : ~ WillStart(q)'
  BY DEF Refusing, WillStart, Idle
<1> QED
  BY <1>2, <1>3

\* A new run has not been started before, and its command is that of no other
\* run; a redelivered start only publishes, and a rejected one only says so.
LEMMA HandleStartStep ==
  ASSUME DeliveryInv, NEW r \in Runs, NEW c \in Commands, NEW p \in Payloads,
         HandleStart(r, c, p)
  PROVE  DeliveryInv'
<1> USE DEF DeliveryInv
<1>1. UNCHANGED <<outbound, initial, exec, lastTerminal, replay, durable, told, log, starts>>
  BY DEF HandleStart, relayVars, historyVars
<1>2. \A q \in Runs : ~ WillStart(q)
  BY DEF HandleStart, HandlerIs, WillStart
<1>3. CASE PrepareRun(r, c, p) /\ handler' = [pc |-> "accept", run |-> r]
  <2>1. /\ Recorded'
        /\ KnownRuns' = KnownRuns \cup {r} /\ r \notin KnownRuns
        /\ agentRuns'[r].command = c
        /\ \A q \in KnownRuns : agentRuns'[q] = agentRuns[q]
    BY <1>1, <1>3, PrepareRecorded
  <2>2. InTransit'
    BY <1>1, <1>3 DEF InTransit, HandlerStates, ExecStates, Published
  <2>3. starts[r] = 0
    BY <2>1 DEF StartsOnce
  <2>4. \A q \in Runs : WillStart(q)' => q = r
    BY <1>3 DEF WillStart
  <2>5. \A q \in KnownRuns : agentRuns[q].command # c
    BY <1>3 DEF PrepareRun, InsertsRun
  <2>6. \A q, k \in KnownRuns' :
           agentRuns'[q].command = agentRuns'[k].command => q = k
    BY <2>1, <2>5 DEF StartsOnce
  <2>7. StartsOnce'
    BY <1>1, <2>1, <2>3, <2>4, <2>6 DEF StartsOnce
  <2> QED
    BY <2>1, <2>2, <2>7
<1>4. CASE /\ handler' = [pc |-> "publish", rows |-> Pending, then |-> Idle]
           /\ UNCHANGED storeVars
  <2>1. Recorded'
    BY <1>1, <1>4, SameRecorded
  <2>2. Pending \in SUBSET Published
    BY DEF Recorded, Pending, Published
  <2>3. handler' \in HandlerStates
    BY <1>4, <2>2 DEF HandlerStates
  <2>4. InTransit'
    BY <1>1, <2>3 DEF InTransit, HandlerStates, ExecStates, Published
  <2>5. \A q \in Runs : ~ WillStart(q)'
    BY <1>4 DEF WillStart, Idle
  <2> QED
    BY <1>1, <1>4, <2>1, <2>4, <2>5, StartsKept DEF storeVars, KnownRuns
<1>5. CASE handler' = Refusing(r) /\ UNCHANGED storeVars
  <2>1. Recorded'
    BY <1>1, <1>5, SameRecorded
  <2>2. Refusing(r) \in HandlerStates /\ \A q \in Runs : ~ WillStart(q)'
    BY <1>5, RefusingStarts
  <2>3. InTransit'
    BY <1>1, <1>5, <2>2 DEF InTransit, HandlerStates, ExecStates, Published
  <2> QED
    BY <1>1, <1>5, <2>1, <2>2, <2>3, StartsKept DEF storeVars, KnownRuns
<1> QED
  BY <1>3, <1>4, <1>5 DEF HandleStart

\* An acknowledgement releases what the server has.
LEMMA HandleAckStep ==
  ASSUME DeliveryInv, NEW r \in Runs, NEW s \in 1..MaxEvents, HandleAck(r, s)
  PROVE  DeliveryInv'
<1> USE DEF DeliveryInv
<1>1. UNCHANGED <<outbound, initial, handler, exec, lastTerminal, replay, durable, told, log, starts>>
  BY DEF HandleAck, relayVars, historyVars
<1>2. /\ Recorded' /\ KnownRuns' = KnownRuns
      /\ \A q \in KnownRuns : agentRuns'[q].command = agentRuns[q].command
  BY <1>1, AckRecorded DEF HandleAck
<1>3. InTransit'
  BY <1>1 DEF InTransit, HandlerStates, ExecStates, Published
<1>4. StartsOnce'
  BY <1>1, <1>2, StartsKept DEF WillStart
<1> QED
  BY <1>2, <1>3, <1>4

\* The handler records that the run is accepted, and is then as close to the
\* start of that run as before; or it records a rejection and starts nothing.
LEMMA HandleAppendStep ==
  ASSUME DeliveryInv, HandleAccept \/ HandleReject
  PROVE  DeliveryInv'
<1> USE DEF DeliveryInv
<1>1. UNCHANGED <<outbound, initial, exec, lastTerminal, replay, durable, told, starts>>
  BY DEF HandleAccept, HandleReject, relayVars
<1>2. ASSUME AppendFails, NEW a \in Runs, handler' = Idle \/ handler' = Refusing(a)
      PROVE  DeliveryInv'
  <2>1. Recorded' /\ log' = log /\ agentRuns' = agentRuns
    BY <1>1, <1>2, RefusedAppend
  <2>2. handler' \in HandlerStates
    BY <1>2, RefusingStarts DEF HandlerStates
  <2>3. InTransit'
    BY <1>1, <2>1, <2>2 DEF InTransit, HandlerStates, ExecStates, Published
  <2>4. \A q \in Runs : ~ WillStart(q)'
    BY <1>2, RefusingStarts DEF WillStart, Idle
  <2> QED
    BY <1>1, <2>1, <2>3, <2>4, StartsKept DEF KnownRuns
<1>3. ASSUME NEW u \in EventTypes, NEW a \in Runs, Append1(a, u),
             NEW k \in {Idle} \cup [pc : {"start"}, run : Runs],
             \A q \in Runs : k # Idle /\ k.run = q => WillStart(q),
             handler' = [pc |-> "publish", rows |-> {NewEvent(a, u)}, then |-> k]
      PROVE  DeliveryInv'
  <2>1. /\ Recorded' /\ KnownRuns' = KnownRuns
        /\ log \subseteq log' /\ NewEvent(a, u) \in log'
        /\ \A q \in KnownRuns : agentRuns'[q].command = agentRuns[q].command
    BY <1>1, <1>3, AppendRecorded
  <2>2. {NewEvent(a, u)} \in SUBSET Published'
    BY <2>1 DEF Published
  <2>3. handler' \in HandlerStates'
    BY <1>3, <2>2 DEF HandlerStates
  <2>4. InTransit'
    BY <1>1, <2>1, <2>3, TransitGrows DEF InTransit
  <2>5. ASSUME NEW q \in Runs, WillStart(q)'
        PROVE  WillStart(q)
    <3>1. k # Idle /\ k.run = q
      BY <1>3, <2>5 DEF WillStart, Idle
    <3> QED
      BY <1>3, <3>1
  <2>6. StartsOnce'
    BY <1>1, <2>1, <2>5, StartsKept
  <2> QED
    BY <2>1, <2>4, <2>6
<1>4. HandlerIs("accept") \/ HandlerIs("reject") => handler.run \in Runs
  BY DEF HandlerIs, InTransit, HandlerStates, Idle
<1>5. CASE HandleAccept
  <2>1. CASE /\ Append1(handler.run, "run.accepted")
             /\ handler' = [pc |-> "publish",
                            rows |-> {NewEvent(handler.run, "run.accepted")},
                            then |-> [pc |-> "start", run |-> handler.run]]
    <3>1. [pc |-> "start", run |-> handler.run] \in [pc : {"start"}, run : Runs]
      BY <1>4, <1>5 DEF HandleAccept
    <3>2. \A q \in Runs : handler.run = q => WillStart(q)
      BY <1>5 DEF WillStart, HandleAccept, HandlerIs
    <3>3. handler.run \in Runs /\ "run.accepted" \in EventTypes
      BY <1>4, <1>5 DEF HandleAccept, EventTypes
    <3> QED
      BY <1>3, <2>1, <3>1, <3>2, <3>3
  <2> QED
    BY <1>2, <1>4, <1>5, <2>1 DEF HandleAccept
<1>6. CASE HandleReject
  <2>1. CASE /\ Append1(handler.run, "turn.rejected")
             /\ handler' = [pc |-> "publish",
                            rows |-> {NewEvent(handler.run, "turn.rejected")},
                            then |-> Idle]
    <3>1. handler.run \in Runs /\ "turn.rejected" \in EventTypes
      BY <1>4, <1>6 DEF HandleReject, EventTypes
    <3> QED
      BY <1>3, <2>1, <3>1
  <2> QED
    BY <1>2, <1>4, <1>6, <2>1 DEF HandleReject
<1> QED
  BY <1>5, <1>6

\* Starting the turn uses up the one start that the run has.
LEMMA HandleControllerStartStep ==
  ASSUME DeliveryInv, HandleControllerStart
  PROVE  DeliveryInv'
<1> USE DEF DeliveryInv
<1>1. UNCHANGED <<storeVars, outbound, initial, replay, durable, told, log>>
  BY DEF HandleControllerStart, relayVars
<1>2. Recorded'
  BY <1>1, SameRecorded
<1>3. PICK r \in Runs : handler.run = r /\ WillStart(r)
  BY DEF HandleControllerStart, HandlerIs, InTransit, HandlerStates, Idle,
         WillStart
<1>4. \A q \in Runs : ~ WillStart(q)'
  BY DEF HandleControllerStart, WillStart, Idle
<1>5. CASE /\ exec' = [pc |-> "running", run |-> r]
           /\ lastTerminal' = {}
           /\ starts' = [starts EXCEPT ![r] = @ + 1]
           /\ handler' = Idle
  <2>1. InTransit'
    BY <1>1, <1>5 DEF InTransit, HandlerStates, ExecStates, Published
  <2>2. starts[r] = 0 /\ r \in KnownRuns
    BY <1>3 DEF StartsOnce
  <2>3. starts' \in [Runs -> {0, 1}] /\ \A q \in Runs \ {r} : starts'[q] = starts[q]
    BY <1>5, <2>2, SMT DEF StartsOnce
  <2>4. StartsOnce'
    BY <1>1, <1>4, <2>2, <2>3 DEF StartsOnce, storeVars, KnownRuns
  <2> QED
    BY <1>2, <2>1, <2>4
<1>6. CASE /\ handler' = [pc |-> "reject", run |-> r]
           /\ UNCHANGED <<exec, lastTerminal, starts>>
  <2>1. InTransit'
    BY <1>1, <1>6 DEF InTransit, HandlerStates, ExecStates, Published
  <2> QED
    BY <1>1, <1>2, <1>4, <1>6, <2>1, StartsKept DEF storeVars, KnownRuns
<1> QED
  BY <1>3, <1>5, <1>6 DEF HandleControllerStart

\* An event of the turn is recorded before it is published, or not at all.
LEMMA ExecAppendStep ==
  ASSUME DeliveryInv, NEW t \in EventTypes, ExecAppend(t)
  PROVE  DeliveryInv'
<1> USE DEF DeliveryInv
<1>1. UNCHANGED <<outbound, initial, handler, lastTerminal, replay, durable, told, starts>>
  BY DEF ExecAppend, relayVars
<1>2. PICK r \in Runs : exec.run = r /\ exec = [pc |-> "running", run |-> r]
  BY DEF ExecAppend, InTransit, ExecStates, EndingStates, Idle
<1>3. PICK next \in EndingStates \cup [pc : {"running"}, run : Runs] :
         next = AfterAppend(t)
  <2>1. exec \in [pc : {"running"}, run : Runs]
    BY <1>2
  <2>2. t \in TerminalTypes => Ending(r, t) \in EndingStates
    BY DEF Ending, EndingStates
  <2> QED
    BY <1>2, <2>1, <2>2 DEF AfterAppend
<1>4. CASE AppendFails /\ exec' = next
  <2>1. Recorded' /\ log' = log /\ agentRuns' = agentRuns
    BY <1>1, <1>4, RefusedAppend
  <2>2. InTransit'
    BY <1>1, <1>4, <2>1 DEF InTransit, HandlerStates, ExecStates, Published
  <2> QED
    BY <1>1, <2>1, <2>2, StartsKept DEF KnownRuns, WillStart
<1>5. CASE /\ Append1(r, t)
           /\ exec' = [pc |-> "publish", row |-> NewEvent(r, t), then |-> next]
  <2>1. /\ Recorded' /\ KnownRuns' = KnownRuns
        /\ log \subseteq log' /\ NewEvent(r, t) \in log'
        /\ \A q \in KnownRuns : agentRuns'[q].command = agentRuns[q].command
    BY <1>1, <1>5, AppendRecorded
  <2>2. exec' \in ExecStates'
    BY <1>5, <2>1 DEF ExecStates
  <2>3. InTransit'
    BY <1>1, <2>1, <2>2, TransitGrows DEF InTransit
  <2> QED
    BY <1>1, <2>1, <2>3, StartsKept DEF WillStart
<1> QED
  BY <1>2, <1>3, <1>4, <1>5 DEF ExecAppend

-----------------------------------------------------------------------------
(* The theorems *)

\* Every step of the agent, the connection and the server keeps the invariant.
LEMMA DeliveryStepInv ==
  ASSUME DeliveryInv, [Next]_vars
  PROVE  DeliveryInv'
<1>1. ASSUME NEW t \in {"turn.event"} \cup Outcomes, ExecAppend(t)
      PROVE  DeliveryInv'
  <2>1. t \in EventTypes
    BY OutcomesAssumption DEF EventTypes
  <2> QED
    BY <1>1, <2>1, ExecAppendStep
<1>2. CASE UNCHANGED vars
  <2>1. /\ Recorded'
        /\ UNCHANGED <<outbound, initial, handler, exec, lastTerminal, replay, told,
                       log, starts, storeVars>>
    BY <1>2, SameRecorded DEF vars, storeVars, DeliveryInv
  <2>2. InTransit'
    BY <2>1 DEF DeliveryInv, InTransit, HandlerStates, ExecStates, Published
  <2> QED
    BY <2>1, <2>2, StartsKept DEF DeliveryInv, storeVars, KnownRuns, WillStart
<1> QED
  BY <1>1, <1>2, HandleStartStep, HandleAckStep, HandleAppendStep,
     HandlePublishStep, HandleControllerStartStep, ExecStep, ReplayStep,
     SessionStep, CrashStep DEF Next

LEMMA DeliveryInvariance == Spec => []DeliveryInv
  BY DeliveryInitInv, DeliveryStepInv, PTL DEF Spec

\* Whatever is dropped, broken, refused or crashed, every event AppendEvent ever
\* recorded is in the outbox or at the server: for any number of each.
THEOREM DeliveryLosesNothing == Spec => []NoEventLost
<1>1. DeliveryInv => NoEventLost
  BY DEF DeliveryInv, Recorded, NoEventLost
<1> QED
  BY <1>1, DeliveryInvariance, PTL

\* No run is started twice, and no command starts two runs, however often and
\* under whatever run the server delivers it, crashes of the agent included.
THEOREM DeliveryStartsOnce == Spec => []StartedAtMostOnce
<1>1. DeliveryInv => StartedAtMostOnce
  BY SMT DEF DeliveryInv, StartsOnce, StartedAtMostOnce
<1> QED
  BY <1>1, DeliveryInvariance, PTL

-----------------------------------------------------------------------------
(* The composition implements ReliableLog *)

\* Appending records an event under a key of its own.
LEMMA AppendIsRecord ==
  ASSUME Recorded, NEW r, NEW t \in EventTypes, Append1(r, t),
         UNCHANGED durable
  PROVE  Log!LogNext
<1> DEFINE e == NewEvent(r, t)
<1>1. Recorded' /\ e \in log'
  BY AppendRecorded
<1>2. /\ log' = log \cup {e}
      /\ resultOutbox' = resultOutbox \cup {e}
      /\ e.run = r /\ e.seq = agentRuns[r].next
  BY DEF Append1, AppendEvent, InsertEvent, NewEvent
<1>3. \A f \in log : ~ Log!SameKey(e, f)
  <2>1. SUFFICES ASSUME NEW f \in log, f.run = r, f.seq = agentRuns[r].next
                 PROVE  FALSE
    BY <1>2 DEF Log!SameKey
  <2>2. agentRuns[r].next \in Nat
    BY <2>1, SMT DEF Recorded, Numbered, StoreInv, StoreTypeOK, RunRow, KnownRuns
  <2> QED
    BY <2>1, <2>2, SMT DEF Recorded, Numbered
<1>4. e \in Event
  BY <1>1 DEF Recorded, Event
<1> HIDE DEF e
<1>5. Log!Record(e)
  BY <1>2, <1>3 DEF Log!Record
<1> QED
  BY <1>4, <1>5 DEF Log!LogNext

\* A message that gets through delivers a recorded event, or nothing of the log.
LEMMA WriteIsDeliver ==
  ASSUME Recorded, NEW e \in log \cup Rejections \cup Endings, Write(e),
         UNCHANGED <<log, resultOutbox>>
  PROVE  [Log!LogNext]_(Log!logVars)
<1>1. UNCHANGED durable \/ (e \in log /\ durable' = durable \cup {e})
  BY DEF Write, Rejections, Endings
<1>2. UNCHANGED durable \/ (e \in Event /\ Log!Deliver(e))
  BY <1>1 DEF Recorded, Log!Deliver
<1> QED
  BY <1>1, <1>2 DEF Log!LogNext, Log!logVars

\* An acknowledgement gives up only what the server has.
LEMMA AckIsRelease ==
  ASSUME Recorded, Recorded', NEW r, NEW s, HandleAck(r, s)
  PROVE  Log!LogNext
<1>1. log' = log /\ durable' = durable /\ resultOutbox' \subseteq resultOutbox
  BY DEF HandleAck, DurableAck, ReleaseUpTo, historyVars
<1>2. PICK E \in SUBSET resultOutbox : E = resultOutbox \ resultOutbox'
  OBVIOUS
<1>3. E \subseteq durable /\ resultOutbox' = resultOutbox \ E
  BY <1>1, <1>2 DEF Recorded
<1>4. Log!Release(E)
  BY <1>1, <1>3 DEF Log!Release
<1> QED
  BY <1>4 DEF Log!LogNext

LEMMA DeliveryStepIsLogStep ==
  ASSUME DeliveryInv, DeliveryInv', [Next]_vars
  PROVE  [Log!LogNext]_(Log!logVars)
<1> USE DEF DeliveryInv
<1>1. ASSUME UNCHANGED <<log, resultOutbox, durable>>
      PROVE  [Log!LogNext]_(Log!logVars)
  BY <1>1 DEF Log!logVars
<1>2. ASSUME NEW r \in Runs, NEW c \in Commands, NEW p \in Payloads,
             HandleStart(r, c, p)
      PROVE  UNCHANGED <<log, resultOutbox, durable>>
  BY <1>2 DEF HandleStart, PrepareRun, storeVars, historyVars
<1>3. CASE HandleAccept \/ HandleReject
  BY <1>1, <1>3, AppendIsRecord
     DEF HandleAccept, HandleReject, AppendFails, EventTypes
<1>4. ASSUME NEW t \in {"turn.event"} \cup Outcomes, ExecAppend(t)
      PROVE  [Log!LogNext]_(Log!logVars)
  <2>1. t \in EventTypes
    BY OutcomesAssumption DEF EventTypes
  <2> QED
    BY <1>1, <1>4, <2>1, AppendIsRecord DEF ExecAppend, AppendFails
<1>5. CASE WriteInitial
  BY <1>1, <1>5, WriteIsDeliver DEF WriteInitial, InTransit, storeVars, historyVars
<1>6. CASE WriteOutbound
  <2>1. PICK e \in log \cup Rejections \cup Endings : e = Head(outbound)
    BY <1>6, SMT DEF WriteOutbound, InTransit, Published
  <2> QED
    BY <1>6, <2>1, WriteIsDeliver DEF WriteOutbound, storeVars, historyVars
<1>7. CASE \/ HandlePublish \/ HandleControllerStart \/ ExecPublish \/ ExecEnd
           \/ ReplayTick \/ ReplayPublish \/ Dial \/ LoadInitial
           \/ Disconnect \/ Crash \/ UNCHANGED vars
  <2>1. UNCHANGED <<log, resultOutbox, durable>>
    BY <1>7
       DEF HandlePublish, HandleControllerStart, ExecPublish, ExecEnd,
           ReplayTick, ReplayPublish, Dial, LoadInitial, Disconnect, Crash,
           storeVars, historyVars, vars
  <2> QED
    BY <1>1, <2>1
<1> QED
  BY <1>1, <1>2, <1>3, <1>4, <1>5, <1>6, <1>7, AckIsRelease DEF Next

\* Queue, session, goroutines and crashes taken together keep the promise of
\* ReliableLog: each step records an event under a new key, delivers a recorded
\* one under its sequence, gives up what the server has, or changes nothing that the server can see.
THEOREM DeliveryKeepsReliableLog == Spec => KeepsReliableLog
<1>1. Init => Log!LogInit
  BY DEF Init, StoreInit, Log!LogInit
<1> QED
  BY <1>1, DeliveryInvariance, DeliveryStepIsLogStep, PTL
     DEF Spec, KeepsReliableLog, Log!LogSpec

-----------------------------------------------------------------------------
(* The record of a run *)

\* The handler is about to record that r is accepted; it decides over the start of r;
\* the turn of r is at work and will append again.
Accepting(r) == handler.pc = "accept" /\ handler.run = r
Deciding(r) ==
    \/ handler.pc \in {"start", "reject"} /\ handler.run = r
    \/ handler.pc = "publish" /\ handler.then.pc = "start" /\ handler.then.run = r
Executing(r) ==
    \/ exec.pc = "running" /\ exec.run = r
    \/ exec.pc = "publish" /\ exec.then.pc = "running" /\ exec.then.run = r

Fresh(r) == r \in KnownRuns /\ agentRuns[r].next = 1
Unclosed(r) ==
    /\ r \in KnownRuns /\ agentRuns[r].next > 1
    /\ \A e \in log : e.run = r => e.type \notin Closing

AppendersInOrder ==
    /\ \A r \in Runs : Accepting(r) => Fresh(r)
    /\ \A r \in Runs : Deciding(r) \/ Executing(r) => Unclosed(r)
    /\ \A r \in Runs : ~ (Deciding(r) /\ Executing(r))

RecordInv == RunRecordWellFormed /\ AppendersInOrder

\* Nothing is recorded, and nobody is about to record anything.
LEMMA RecordInit == Init => RecordInv
  BY DEF Init, StoreInit, RecordInv, RunRecordWellFormed, AppendersInOrder, Accepting,
         Deciding, Executing, Idle

\* A step that records nothing and brings nobody closer to an append keeps it.
LEMMA NobodyAppends ==
  ASSUME RecordInv, log' = log,
         \A r \in KnownRuns : r \in KnownRuns' /\ agentRuns'[r].next = agentRuns[r].next,
         \A r \in Runs : Accepting(r)' => Accepting(r),
         \A r \in Runs : Deciding(r)' => Deciding(r),
         \A r \in Runs : Executing(r)' => Executing(r)
  PROVE  RecordInv'
<1>1. RunRecordWellFormed'
  BY DEF RecordInv, RunRecordWellFormed
<1>2. \A r \in Runs : (Fresh(r) => Fresh(r)') /\ (Unclosed(r) => Unclosed(r)')
  BY DEF Fresh, Unclosed
<1>3. AppendersInOrder'
  BY <1>2 DEF RecordInv, AppendersInOrder
<1> QED  BY <1>1, <1>3 DEF RecordInv

\* An append by whoever may make it: the first event of a fresh run is that it was
\* accepted, an event that closes is the last, and only open runs are left to others.
LEMMA SomebodyAppends ==
  ASSUME DeliveryInv, RecordInv, NEW r \in Runs, NEW t \in EventTypes,
         Append1(r, t), UNCHANGED durable,
         IF t = "run.accepted" THEN Fresh(r) ELSE Unclosed(r),
         \A q \in Runs : Accepting(q)' => q # r /\ Accepting(q),
         \A q \in Runs : Deciding(q)' \/ Executing(q)' =>
                            IF q = r THEN t \notin Closing
                                     ELSE Deciding(q) \/ Executing(q),
         \A q \in Runs : ~ (Deciding(q)' /\ Executing(q)')
  PROVE  RecordInv'
<1> DEFINE e == NewEvent(r, t)
           n == agentRuns[r].next
<1>1. /\ r \in KnownRuns /\ InsertEvent(r, n, t) /\ log' = log \cup {e}
      /\ e.run = r /\ e.seq = n /\ e.type = t
  BY DEF Append1, AppendEvent, NewEvent
<1>2. /\ KnownRuns' = KnownRuns /\ agentRuns'[r].next = n + 1
      /\ \A q \in KnownRuns : q # r => agentRuns'[q] = agentRuns[q]
  BY <1>1, InsertEventEffect DEF DeliveryInv, Recorded, KnownRuns
<1>3. n \in Nat /\ n >= 1
  BY <1>1, SMT DEF DeliveryInv, Recorded, StoreInv, StoreTypeOK, RunRow,
                   OutboxIsUnackedSuffix, HoldsUnackedSuffix
<1>4. \A f \in log : f.run = r => f.seq \in 1..(n - 1)
  BY DEF DeliveryInv, Recorded, Numbered
<1>5. t = "run.accepted" <=> n = 1
  BY <1>3 DEF Fresh, Unclosed
<1>6. \A f \in log : f.run = r => f.type \notin Closing
  <2>1. CASE t = "run.accepted"
    BY <1>3, <1>4, <1>5, <2>1
  <2>2. CASE t # "run.accepted"
    BY <2>2 DEF Unclosed
  <2> QED  BY <2>1, <2>2
<1> HIDE DEF e, n
<1>7. RunRecordWellFormed'
  <2> SUFFICES ASSUME NEW f \in log'
               PROVE  /\ f.type = "run.accepted" <=> f.seq = 1
                      /\ f.type \in Closing =>
                            ~ \E g \in log' : g.run = f.run /\ g.seq > f.seq
    BY DEF RunRecordWellFormed, Closing
  <2>1. CASE f = e
    <3>1. \A g \in log' : g.run = r => g.seq \in 1..n
      BY <1>1, <1>3, <1>4
    <3> QED  BY <1>1, <1>3, <1>5, <2>1, <3>1
  <2>2. CASE f \in log
    <3>1. f.type = "run.accepted" <=> f.seq = 1
      BY <2>2 DEF RecordInv, RunRecordWellFormed
    <3>2. ASSUME f.type \in Closing, NEW g \in log', g.run = f.run, g.seq > f.seq
          PROVE  FALSE
      <4>1. CASE g \in log
        BY <2>2, <3>2, <4>1 DEF RecordInv, RunRecordWellFormed, Closing
      <4>2. CASE g = e
        BY <1>1, <1>6, <2>2, <3>2, <4>2
      <4> QED  BY <1>1, <4>1, <4>2
    <3> QED  BY <3>1, <3>2
  <2> QED  BY <1>1, <2>1, <2>2
<1>8. ASSUME NEW q \in Runs, Accepting(q)'
      PROVE  Fresh(q)'
  <2>1. q # r /\ Fresh(q)
    BY <1>8 DEF RecordInv, AppendersInOrder
  <2> QED  BY <1>2, <2>1 DEF Fresh
<1>9. ASSUME NEW q \in Runs, Deciding(q)' \/ Executing(q)'
      PROVE  Unclosed(q)'
  <2>1. CASE q = r
    BY <1>1, <1>2, <1>3, <1>6, <1>9, <2>1 DEF Unclosed
  <2>2. CASE q # r
    <3>1. Unclosed(q)
      BY <1>9, <2>2 DEF RecordInv, AppendersInOrder
    <3> QED  BY <1>1, <1>2, <2>2, <3>1 DEF Unclosed
  <2> QED  BY <2>1, <2>2
<1>10. AppendersInOrder'
  BY <1>8, <1>9 DEF AppendersInOrder
<1> QED  BY <1>7, <1>10 DEF RecordInv

-----------------------------------------------------------------------------
(* One lemma per actor *)

\* A new run is fresh, and no goroutine can know of it.
LEMMA StartKeepsRecord ==
  ASSUME DeliveryInv, RecordInv, NEW r \in Runs, NEW c \in Commands, NEW p \in Payloads,
         HandleStart(r, c, p)
  PROVE  RecordInv'
<1>1. log' = log /\ exec' = exec /\ durable' = durable /\ handler.pc = "idle"
  BY DEF HandleStart, historyVars, HandlerIs
<1>2. CASE PrepareRun(r, c, p) /\ handler' = [pc |-> "accept", run |-> r]
  <2>1. /\ KnownRuns' = KnownRuns \cup {r} /\ r \notin KnownRuns
        /\ \A q \in KnownRuns : agentRuns'[q] = agentRuns[q]
    BY <1>1, <1>2, PrepareRecorded DEF DeliveryInv
  <2>2. agentRuns'[r].next = 1
    BY <1>2, <2>1 DEF PrepareRun, NewRow
  <2>3. \A q \in Runs : Fresh(q)' \/ ~ Accepting(q)'
    BY <1>2, <2>1, <2>2 DEF Accepting, Fresh
  <2>4. \A q \in Runs : ~ Deciding(q)'
    BY <1>2 DEF Deciding
  <2>5. \A q \in Runs : Executing(q)' => Unclosed(q)'
    BY <1>1, <2>1 DEF RecordInv, AppendersInOrder, Executing, Unclosed
  <2>6. RunRecordWellFormed'
    BY <1>1 DEF RecordInv, RunRecordWellFormed
  <2> QED  BY <2>3, <2>4, <2>5, <2>6 DEF RecordInv, AppendersInOrder
<1>3. CASE UNCHANGED storeVars
           /\ handler' \in {Refusing(r), [pc |-> "publish", rows |-> Pending, then |-> Idle]}
  BY <1>1, <1>3, NobodyAppends
     DEF storeVars, KnownRuns, Accepting, Deciding, Executing, Refusing, Idle
<1> QED  BY <1>2, <1>3 DEF HandleStart

\* Handing the run from the handler to the turn, or rejecting it.
LEMMA ControllerStartKeepsRecord ==
  ASSUME DeliveryInv, RecordInv, HandleControllerStart
  PROVE  RecordInv'
<1>1. UNCHANGED <<storeVars, log>> /\ handler.pc = "start"
  BY DEF HandleControllerStart, HandlerIs
<1>2. PICK r \in Runs : r = handler.run /\ Deciding(r)
  BY <1>1 DEF DeliveryInv, InTransit, HandlerStates, Idle, Deciding
<1>3. CASE exec' = [pc |-> "running", run |-> r] /\ handler' = Idle
  <2>1. \A q \in Runs : ~ Accepting(q)' /\ ~ Deciding(q)'
    BY <1>3 DEF Accepting, Deciding, Idle
  <2>2. \A q \in Runs : Executing(q)' => q = r
    BY <1>3 DEF Executing
  <2>3. Unclosed(r)'
    BY <1>1, <1>2 DEF RecordInv, AppendersInOrder, Unclosed, storeVars, KnownRuns
  <2>4. RunRecordWellFormed'
    BY <1>1 DEF RecordInv, RunRecordWellFormed
  <2> QED  BY <2>1, <2>2, <2>3, <2>4 DEF RecordInv, AppendersInOrder
<1>4. CASE handler' = [pc |-> "reject", run |-> r] /\ exec' = exec
  BY <1>1, <1>2, <1>4, NobodyAppends
     DEF storeVars, KnownRuns, Accepting, Deciding, Executing
<1> QED  BY <1>2, <1>3, <1>4 DEF HandleControllerStart

\* The handler appends the acceptance of a fresh run or the rejection of an open one.
LEMMA HandlerAppendKeepsRecord ==
  ASSUME DeliveryInv, RecordInv, HandleAccept \/ HandleReject
  PROVE  RecordInv'
<1>1. exec' = exec /\ durable' = durable
  BY DEF HandleAccept, HandleReject
<1>2. handler.run \in Runs
  BY DEF HandleAccept, HandleReject, HandlerIs, DeliveryInv, InTransit, HandlerStates, Idle
<1>3. \A q \in Runs : Executing(q)' <=> Executing(q)
  BY <1>1 DEF Executing
<1>4. CASE AppendFails /\ handler' \in {Idle, Refusing(handler.run)}
  BY <1>3, <1>4, NobodyAppends
     DEF AppendFails, KnownRuns, Accepting, Deciding, Refusing, Idle
<1>5. CASE /\ HandleAccept /\ Append1(handler.run, "run.accepted")
           /\ handler' = [pc |-> "publish",
                          rows |-> {NewEvent(handler.run, "run.accepted")},
                          then |-> [pc |-> "start", run |-> handler.run]]
  <2>1. Fresh(handler.run)
    BY <1>2, <1>5 DEF HandleAccept, HandlerIs, RecordInv, AppendersInOrder, Accepting
  <2>2. ~ Executing(handler.run)
    BY <1>2, <2>1 DEF RecordInv, AppendersInOrder, Fresh, Unclosed
  <2>3. \A q \in Runs : ~ Accepting(q)' /\ (Deciding(q)' <=> q = handler.run)
    BY <1>5 DEF Accepting, Deciding
  <2>4. "run.accepted" \in EventTypes /\ "run.accepted" \notin Closing
    BY DEF EventTypes, Closing, TerminalTypes
  <2> QED  BY <1>1, <1>2, <1>3, <1>5, <2>1, <2>2, <2>3, <2>4, SomebodyAppends
<1>6. CASE /\ HandleReject /\ Append1(handler.run, "turn.rejected")
           /\ handler' = [pc |-> "publish",
                          rows |-> {NewEvent(handler.run, "turn.rejected")},
                          then |-> Idle]
  <2>1. Deciding(handler.run)
    BY <1>6 DEF HandleReject, HandlerIs, Deciding
  <2>2. Unclosed(handler.run) /\ ~ Executing(handler.run)
    BY <1>2, <2>1 DEF RecordInv, AppendersInOrder
  <2>3. \A q \in Runs : ~ Accepting(q)' /\ ~ Deciding(q)'
    BY <1>6 DEF Accepting, Deciding, Idle
  <2>4. "turn.rejected" \in EventTypes
    BY DEF EventTypes
  <2> QED  BY <1>1, <1>2, <1>3, <1>6, <2>2, <2>3, <2>4, SomebodyAppends
<1> QED  BY <1>4, <1>5, <1>6 DEF HandleAccept, HandleReject

\* The turn appends to its own run, and does not go on behind its terminal event.
LEMMA TurnAppendKeepsRecord ==
  ASSUME DeliveryInv, RecordInv, NEW t \in {"turn.event"} \cup Outcomes, ExecAppend(t)
  PROVE  RecordInv'
<1>1. handler' = handler /\ durable' = durable
  BY DEF ExecAppend
<1>2. PICK r \in Runs : exec = [pc |-> "running", run |-> r]
  BY DEF ExecAppend, DeliveryInv, InTransit, ExecStates, EndingStates, Idle
<1>3. /\ \A q \in Runs : Executing(q) <=> q = r
      /\ Unclosed(r) /\ ~ Deciding(r) /\ ~ Accepting(r)
  <2>1. \A q \in Runs : Executing(q) <=> q = r
    BY <1>2 DEF Executing
  <2> QED  BY <2>1 DEF RecordInv, AppendersInOrder, Fresh, Unclosed
<1>4. \A q \in Runs : (Accepting(q)' <=> Accepting(q)) /\ (Deciding(q)' <=> Deciding(q))
  BY <1>1 DEF Accepting, Deciding
<1>5. t \in EventTypes /\ t # "run.accepted" /\ (t \in Closing => t \in TerminalTypes)
  BY OutcomesAssumption DEF EventTypes, Closing, TerminalTypes
<1>6. CASE AppendFails /\ exec' = AfterAppend(t)
  <2>1. \A q \in Runs : Executing(q)' => Executing(q)
    BY <1>2, <1>6 DEF Executing, AfterAppend, Ending
  <2> QED  BY <1>4, <1>6, <2>1, NobodyAppends DEF AppendFails, KnownRuns
<1>7. CASE /\ Append1(r, t)
           /\ exec' = [pc |-> "publish", row |-> NewEvent(r, t), then |-> AfterAppend(t)]
  <2>1. \A q \in Runs : Executing(q)' => q = r /\ t \notin TerminalTypes
    BY <1>2, <1>7 DEF Executing, AfterAppend, Ending
  <2> QED  BY <1>1, <1>3, <1>4, <1>5, <1>7, <2>1, SomebodyAppends
           DEF RecordInv, AppendersInOrder
<1> QED  BY <1>2, <1>6, <1>7 DEF ExecAppend

\* The other steps append nothing and bring nobody closer to it.
LEMMA OthersKeepRecord ==
  ASSUME DeliveryInv, RecordInv,
         \/ \E r \in Runs, s \in 1..MaxEvents : HandleAck(r, s)
         \/ HandlePublish \/ ExecPublish \/ ExecEnd \/ ReplayTick \/ ReplayPublish
         \/ Dial \/ LoadInitial \/ WriteInitial \/ WriteOutbound
         \/ Disconnect \/ Crash \/ UNCHANGED vars
  PROVE  RecordInv'
<1>1. ASSUME NEW r \in Runs, NEW s \in 1..MaxEvents, HandleAck(r, s)
      PROVE  RecordInv'
  <2>1. UNCHANGED <<handler, exec, log>>
    BY <1>1 DEF HandleAck, historyVars
  <2>2. ReleaseUpTo(r, s) /\ r \in KnownRuns /\ s \in Nat
    BY <1>1, MaxEventsAssumption DEF HandleAck, DurableAck
  <2>3. /\ KnownRuns' = KnownRuns
        /\ \A q \in KnownRuns : agentRuns'[q].next = agentRuns[q].next
    BY <2>2, ReleaseUpToEffect DEF DeliveryInv, Recorded, KnownRuns
  <2> QED  BY <2>1, <2>3, NobodyAppends DEF Accepting, Deciding, Executing
<1>2. CASE HandlePublish
  <2>1. UNCHANGED <<storeVars, exec, log>>
    BY <1>2 DEF HandlePublish, historyVars
  <2>2. handler \in [pc : {"publish"}, rows : SUBSET Published,
                     then : {Idle} \cup [pc : {"start"}, run : Runs]]
    BY <1>2 DEF HandlePublish, HandlerIs, DeliveryInv, InTransit, HandlerStates, Idle
  <2>3. \A q \in Runs : ~ Accepting(q)' /\ (Deciding(q)' => Deciding(q))
    <3>1. CASE handler' = handler.then
      BY <2>2, <3>1 DEF Accepting, Deciding, Idle
    <3>2. ASSUME NEW e, handler' = [handler EXCEPT !.rows = @ \ {e}]
          PROVE  <2>3!:
      BY <2>2, <3>2 DEF Accepting, Deciding
    <3> QED  BY <1>2, <3>1, <3>2 DEF HandlePublish
  <2> QED  BY <2>1, <2>3, NobodyAppends DEF storeVars, KnownRuns, Executing
<1>3. CASE ExecPublish
  <2>1. UNCHANGED <<storeVars, handler, log>> /\ exec' = exec.then
    BY <1>3 DEF ExecPublish, historyVars
  <2>2. exec \in [pc : {"publish"}, row : log,
                  then : EndingStates \cup [pc : {"running"}, run : Runs]]
    BY <1>3 DEF ExecPublish, DeliveryInv, InTransit, ExecStates, EndingStates, Idle
  <2>3. \A q \in Runs : Executing(q)' => Executing(q)
    BY <2>1, <2>2 DEF Executing, EndingStates
  <2> QED  BY <2>1, <2>3, NobodyAppends DEF storeVars, KnownRuns, Accepting, Deciding
<1>4. CASE ExecEnd \/ Crash
  <2>1. /\ UNCHANGED <<storeVars, log>> /\ exec' = Idle
        /\ handler' = handler \/ handler' = Idle
    BY <1>4 DEF ExecEnd, Crash, historyVars
  <2> QED
    BY <2>1, NobodyAppends
       DEF storeVars, KnownRuns, Accepting, Deciding, Executing, Idle
<1>5. CASE \/ ReplayTick \/ ReplayPublish \/ Dial \/ LoadInitial \/ WriteInitial
           \/ WriteOutbound \/ Disconnect \/ UNCHANGED vars
  <2>1. UNCHANGED <<storeVars, handler, exec, log>>
    BY <1>5 DEF ReplayTick, ReplayPublish, Dial, LoadInitial, WriteInitial,
                WriteOutbound, Disconnect, historyVars, vars, storeVars
  <2> QED
    BY <2>1, NobodyAppends DEF storeVars, KnownRuns, Accepting, Deciding, Executing
<1> QED  BY <1>1, <1>2, <1>3, <1>4, <1>5

\* The record of a run begins with run.accepted and ends with the first event that
\* closes it (RunRecordWellFormed), for any runs, events, crashes and refused appends.
THEOREM DeliveryRecordsWellFormed == Spec => []RunRecordWellFormed
<1>1. DeliveryInv /\ RecordInv /\ [Next]_vars => RecordInv'
  <2> SUFFICES ASSUME DeliveryInv, RecordInv, [Next]_vars PROVE RecordInv'
    OBVIOUS
  <2> QED
    BY StartKeepsRecord, ControllerStartKeepsRecord, HandlerAppendKeepsRecord,
       TurnAppendKeepsRecord, OthersKeepRecord DEF Next
<1>2. RecordInv => RunRecordWellFormed
  BY DEF RecordInv
<1> QED
  BY <1>1, <1>2, RecordInit, DeliveryInvariance, PTL DEF Spec

-----------------------------------------------------------------------------
(* How a run ended *)

\* Whatever tells, or is about to tell, how a run ended says what its turn handed
\* to the sink, recorded or not; and a turn hands over one terminal event only.
Reports == log \cup initial \cup lastTerminal \cup told
TrueReports == \A m \in SaysHowItEnded(Reports) : m.type \in emitted[m.run]

EndsOnce ==
    /\ emitted \in [Runs -> SUBSET EventTypes]
    /\ \A r \in Runs : starts[r] = 0 => emitted[r] = {}
    /\ \A r \in Runs : Executing(r) =>
                           starts[r] = 1 /\ emitted[r] \cap TerminalTypes = {}
    /\ \A r \in Runs : \A t, u \in emitted[r] \cap TerminalTypes : t = u
    /\ exec.pc = "ending" => exec.type \in emitted[exec.run]
    /\ exec.pc = "publish" /\ exec.then.pc = "ending" =>
          exec.then.type \in emitted[exec.then.run]

EndInv == TrueReports /\ EndsOnce

LEMMA EndInit == Init => EndInv
  BY DEF Init, StoreInit, EndInv, TrueReports, EndsOnce, Reports, SaysHowItEnded,
         Executing, Idle

\* A report that is no new one, or that a turn has made, is a true one.
LEMMA ReportsStayTrue ==
  ASSUME EndInv, UNCHANGED emitted,
         \A m \in SaysHowItEnded(Reports') :
            m \in Reports \/ m.type \in emitted[m.run]
  PROVE  TrueReports'
  BY DEF EndInv, TrueReports, SaysHowItEnded

\* The turn ends once as long as neither it nor its starts change.
LEMMA TurnUnchanged ==
  ASSUME EndInv, UNCHANGED <<emitted, starts, exec>>
  PROVE  EndsOnce'
  BY DEF EndInv, EndsOnce, Executing

\* The handler, the ticker and the session report what was reported before.
LEMMA OthersKeepEnds ==
  ASSUME DeliveryInv, EndInv,
         \/ \E r \in Runs, c \in Commands, p \in Payloads : HandleStart(r, c, p)
         \/ \E r \in Runs, s \in 1..MaxEvents : HandleAck(r, s)
         \/ HandleAccept \/ HandleReject \/ HandlePublish
         \/ ReplayTick \/ ReplayPublish
         \/ Dial \/ LoadInitial \/ WriteInitial \/ WriteOutbound
         \/ Disconnect \/ UNCHANGED vars
  PROVE  EndInv'
<1>1. UNCHANGED <<emitted, starts, exec, lastTerminal>>
  BY DEF HandleStart, HandleAck, HandleAccept, HandleReject, HandlePublish, ReplayTick,
         ReplayPublish, Dial, LoadInitial, WriteInitial, WriteOutbound, Disconnect,
         historyVars, vars
<1>2. \A m \in SaysHowItEnded(Reports') : m \in Reports
  <2>1. CASE HandleAccept \/ HandleReject
    <3>1. UNCHANGED <<initial, told>>
      BY <2>1 DEF HandleAccept, HandleReject, relayVars
    <3>2. \A m \in SaysHowItEnded(log') : m \in log
      BY <2>1 DEF HandleAccept, HandleReject, Append1, AppendFails, NewEvent,
                  SaysHowItEnded, TerminalTypes
    <3> QED  BY <1>1, <3>1, <3>2 DEF Reports, SaysHowItEnded
  <2>2. CASE LoadInitial
    <3>1. UNCHANGED <<log, told>> /\ initial' \subseteq resultOutbox \cup lastTerminal
      BY <2>2 DEF LoadInitial, historyVars, Pending
    <3> QED  BY <1>1, <3>1 DEF Reports, SaysHowItEnded, DeliveryInv, Recorded
  <2>3. CASE WriteInitial
    <3>1. log' = log /\ initial' \subseteq initial /\ told' \subseteq told \cup initial
      BY <2>3 DEF WriteInitial, Write, historyVars
    <3> QED  BY <1>1, <3>1 DEF Reports, SaysHowItEnded
  <2>4. CASE WriteOutbound
    <3>1. PICK e \in Published : e = Head(outbound)
      BY <2>4, SMT DEF WriteOutbound, DeliveryInv, InTransit
    <3>2. log' = log /\ initial' = initial /\ told' \subseteq told \cup {e}
      BY <2>4, <3>1 DEF WriteOutbound, Write, historyVars
    <3>3. e \in log \/ e.type \notin TerminalTypes
      BY DEF Published, Rejections, TerminalTypes
    <3> QED  BY <1>1, <3>2, <3>3 DEF Reports, SaysHowItEnded
  <2>5. CASE UNCHANGED <<log, initial, told>>
    BY <1>1, <2>5 DEF Reports, SaysHowItEnded
  <2> QED
    BY <2>1, <2>2, <2>3, <2>4, <2>5
       DEF HandleStart, HandleAck, HandlePublish, ReplayTick, ReplayPublish, Dial,
           Disconnect, relayVars, historyVars, vars
<1> QED  BY <1>1, <1>2, ReportsStayTrue, TurnUnchanged DEF EndInv

\* A turn that is started has reported nothing yet.
LEMMA ControllerStartKeepsEnds ==
  ASSUME DeliveryInv, EndInv, HandleControllerStart
  PROVE  EndInv'
<1>1. UNCHANGED <<emitted, log, initial, told>> /\ lastTerminal' \subseteq lastTerminal
  BY DEF HandleControllerStart, relayVars
<1>2. TrueReports'
  BY <1>1, ReportsStayTrue DEF Reports, SaysHowItEnded
<1>3. EndsOnce'
  <2>1. CASE UNCHANGED <<exec, starts>>
    BY <1>1, <2>1, TurnUnchanged
  <2>2. ASSUME exec' = [pc |-> "running", run |-> handler.run],
               starts' = [starts EXCEPT ![handler.run] = @ + 1]
        PROVE  EndsOnce'
    <3>1. PICK r \in Runs : r = handler.run /\ WillStart(r)
      BY DEF HandleControllerStart, HandlerIs, DeliveryInv, InTransit, HandlerStates,
             WillStart, Idle
    <3>2. starts[r] = 0 /\ starts \in [Runs -> {0, 1}]
      BY <3>1 DEF DeliveryInv, StartsOnce
    <3>3. starts'[r] = 1 /\ \A q \in Runs \ {r} : starts'[q] = starts[q]
      BY <2>2, <3>1, <3>2
    <3>4. \A q \in Runs : Executing(q)' => q = r
      BY <2>2, <3>1 DEF Executing
    <3>5. emitted[r] = {}
      BY <3>2 DEF EndInv, EndsOnce
    <3> QED  BY <1>1, <2>2, <3>3, <3>4, <3>5 DEF EndInv, EndsOnce
  <2> QED  BY <2>1, <2>2 DEF HandleControllerStart
<1> QED  BY <1>2, <1>3 DEF EndInv

\* A turn at work hands over an event, and goes on only when it was not the last.
LEMMA TurnAppendKeepsEnds ==
  ASSUME DeliveryInv, EndInv, NEW t \in {"turn.event"} \cup Outcomes, ExecAppend(t)
  PROVE  EndInv'
<1>1. UNCHANGED <<initial, lastTerminal, told, starts>>
  BY DEF ExecAppend, relayVars
<1>2. PICK r \in Runs : exec = [pc |-> "running", run |-> r]
  BY DEF ExecAppend, DeliveryInv, InTransit, ExecStates, EndingStates, Idle
<1>3. t \in EventTypes /\ (t \notin TerminalTypes \/ t \in Outcomes)
  BY OutcomesAssumption DEF EventTypes, TerminalTypes
<1>4. /\ emitted' = [emitted EXCEPT ![r] = @ \cup {t}]
      /\ emitted \in [Runs -> SUBSET EventTypes]
  BY <1>2 DEF ExecAppend, EndInv, EndsOnce
<1>5. /\ emitted' \in [Runs -> SUBSET EventTypes]
      /\ emitted'[r] = emitted[r] \cup {t}
      /\ \A q \in Runs \ {r} : emitted'[q] = emitted[q]
  BY <1>3, <1>4
<1>6. Executing(r) /\ starts[r] = 1 /\ emitted[r] \cap TerminalTypes = {}
  BY <1>2 DEF Executing, EndInv, EndsOnce
<1>7. TrueReports'
  <2>1. \A m \in log' : m \in log \/ (m.run = r /\ m.type = t)
    BY <1>2 DEF ExecAppend, Append1, AppendFails, NewEvent
  <2>2. \A m \in Reports : m.run \in Runs
    BY DEF Reports, DeliveryInv, Recorded, InTransit, Event, Endings, Rejections
  <2> QED  BY <1>1, <1>5, <2>1, <2>2 DEF EndInv, TrueReports, Reports, SaysHowItEnded
<1>8. /\ \A q \in Runs : Executing(q)' => q = r /\ t \notin TerminalTypes
      /\ exec'.pc = "ending" => exec'.type = t /\ exec'.run = r
      /\ exec'.pc = "publish" /\ exec'.then.pc = "ending" =>
            exec'.then.type = t /\ exec'.then.run = r
  BY <1>2 DEF ExecAppend, AfterAppend, Ending, Executing
<1>9. \A q \in Runs : starts[q] = 0 => emitted'[q] = {}
  BY <1>5, <1>6 DEF EndInv, EndsOnce
<1>10. \A q \in Runs : \A u, v \in emitted'[q] \cap TerminalTypes : u = v
  BY <1>5, <1>6 DEF EndInv, EndsOnce
<1>11. EndsOnce'
  BY <1>1, <1>5, <1>6, <1>8, <1>9, <1>10 DEF EndsOnce
<1> QED  BY <1>7, <1>11 DEF EndInv

\* Publishing and ending report nothing but the end the turn has handed over.
LEMMA TurnStepKeepsEnds ==
  ASSUME DeliveryInv, EndInv, ExecPublish \/ ExecEnd \/ Crash
  PROVE  EndInv'
<1>1. UNCHANGED <<emitted, starts, log, told>> /\ initial' \subseteq initial
  BY DEF ExecPublish, ExecEnd, Crash, relayVars, historyVars
<1>2. CASE ExecPublish
  <2>1. exec \in [pc : {"publish"}, row : log,
                  then : EndingStates \cup [pc : {"running"}, run : Runs]]
    BY <1>2 DEF ExecPublish, DeliveryInv, InTransit, ExecStates, EndingStates, Idle
  <2>2. exec' = exec.then /\ lastTerminal' = lastTerminal
    BY <1>2 DEF ExecPublish
  <2>3. \A q \in Runs : Executing(q)' => Executing(q)
    BY <2>1, <2>2 DEF Executing, EndingStates
  <2>4. exec'.pc # "publish" /\ (exec'.pc = "ending" => exec'.type \in emitted[exec'.run])
    BY <2>1, <2>2 DEF EndInv, EndsOnce, EndingStates
  <2>5. TrueReports'
    BY <1>1, <2>2, ReportsStayTrue DEF Reports, SaysHowItEnded
  <2>6. EndsOnce'
    BY <1>1, <2>3, <2>4 DEF EndInv, EndsOnce
  <2> QED  BY <2>5, <2>6 DEF EndInv
<1>3. CASE ExecEnd \/ Crash
  <2>1. exec' = Idle /\ \A q \in Runs : ~ Executing(q)'
    BY <1>3 DEF ExecEnd, Crash, Executing, Idle
  <2>2. \A m \in lastTerminal' : m.type \in emitted[m.run]
    BY <1>3 DEF ExecEnd, Crash, Notice, EndInv, EndsOnce
  <2>3. TrueReports'
    BY <1>1, <2>2, ReportsStayTrue DEF Reports, SaysHowItEnded
  <2>4. EndsOnce'
    BY <1>1, <2>1 DEF EndInv, EndsOnce, Idle
  <2> QED  BY <2>3, <2>4 DEF EndInv
<1> QED  BY <1>2, <1>3

\* The server never sees two events under one run and sequence, nor, under a
\* sequence, one that was not recorded; and however it learns how a run ended, as an
\* event or by a message without a sequence whose event the store may have refused,
\* it learns of the one end that the turn reported (OneEventPerSequence).
THEOREM DeliverySequencesUnique == Spec => []OneEventPerSequence
<1>1. DeliveryInv /\ EndInv /\ [Next]_vars => EndInv'
  <2> SUFFICES ASSUME DeliveryInv, EndInv, [Next]_vars PROVE EndInv'
    OBVIOUS
  <2> QED
    BY OthersKeepEnds, ControllerStartKeepsEnds, TurnAppendKeepsEnds, TurnStepKeepsEnds
       DEF Next
<1>2. DeliveryInv /\ EndInv => OneEventPerSequence
  <2> SUFFICES ASSUME DeliveryInv, EndInv PROVE OneEventPerSequence
    OBVIOUS
  <2>1. durable \subseteq log /\ \A e, f \in log : e.run = f.run /\ e.seq = f.seq => e = f
    BY DEF DeliveryInv, Recorded
  <2>2. \A m \in SaysHowItEnded(durable \cup told) :
           m.run \in Runs /\ m.type \in emitted[m.run] \cap TerminalTypes
    BY <2>1 DEF SaysHowItEnded, EndInv, TrueReports, Reports, DeliveryInv, Recorded,
                InTransit, Event, Endings, Rejections
  <2>3. \A e, f \in SaysHowItEnded(durable \cup told) : e.run = f.run => e.type = f.type
    BY <2>2 DEF EndInv, EndsOnce
  <2>4. \A m \in SaysHowItEnded(told) : m.type \in emitted[m.run]
    BY <2>2 DEF SaysHowItEnded
  <2> QED  BY <2>1, <2>3, <2>4 DEF OneEventPerSequence
<1> QED
  BY <1>1, <1>2, EndInit, DeliveryInvariance, PTL DEF Spec

-----------------------------------------------------------------------------
(* Types *)

\* What DeliveryInv leaves open of TypeOK.
RelayTypes ==
    /\ outbound \in Seq(Message) /\ Len(outbound) <= QueueSize
    /\ conn \in {"down", "dialed", "initial", "up"}
    /\ emitted \in [Runs -> SUBSET EventTypes]

\* Recorded or not, a message has a run, a sequence or 0, and a type.
LEMMA MessageTypes == Event \cup Rejections \cup Endings \subseteq Message
<1>1. 0..MaxEvents = {0} \cup 1..MaxEvents
  BY MaxEventsAssumption, SMT
<1>2. "turn.rejected" \in EventTypes /\ TerminalTypes \subseteq EventTypes
  BY DEF EventTypes
<1> QED  BY <1>1, <1>2 DEF Event, Rejections, Endings, Message

\* A message that finds the queue full does not get into it.
LEMMA PublishFits ==
  ASSUME RelayTypes, NEW e \in Message, Publish(e)
  PROVE  outbound' \in Seq(Message) /\ Len(outbound') <= QueueSize
<1>1. QueueSize \in Nat
  BY QueueSizeAssumption
<1> QED  BY <1>1, SMT DEF RelayTypes, Publish

LEMMA RelayTypesStep ==
  ASSUME DeliveryInv, RelayTypes, [Next]_vars
  PROVE  RelayTypes'
<1> USE QueueSizeAssumption
<1>1. Published \subseteq Message
  <2>1. log \subseteq Event
    BY DEF DeliveryInv, Recorded
  <2> QED  BY <2>1, MessageTypes DEF Published
<1>2. CASE UNCHANGED <<outbound, conn, emitted>>
  BY <1>2 DEF RelayTypes
<1>3. ASSUME NEW e \in Published, Publish(e), UNCHANGED <<conn, emitted>>
      PROVE  RelayTypes'
  BY <1>1, <1>3, PublishFits DEF RelayTypes
<1>4. CASE HandlePublish
  <2>1. handler.rows \subseteq Published
    BY <1>4 DEF HandlePublish, HandlerIs, DeliveryInv, InTransit, HandlerStates, Idle
  <2> QED  BY <1>2, <1>3, <1>4, <2>1 DEF HandlePublish, historyVars
<1>5. CASE ExecPublish
  <2>1. exec.row \in Published
    BY <1>5 DEF ExecPublish, DeliveryInv, InTransit, ExecStates, EndingStates, Idle, Published
  <2> QED  BY <1>3, <1>5, <2>1 DEF ExecPublish, historyVars
<1>6. CASE ReplayPublish
  BY <1>3, <1>6 DEF ReplayPublish, DeliveryInv, InTransit, historyVars, Published
<1>7. ASSUME NEW t \in {"turn.event"} \cup Outcomes, ExecAppend(t)
      PROVE  RelayTypes'
  <2>1. t \in EventTypes /\ UNCHANGED <<outbound, conn>>
    BY <1>7, OutcomesAssumption DEF EventTypes, ExecAppend, relayVars
  <2>2. emitted' = [emitted EXCEPT ![exec.run] = @ \cup {t}]
    BY <1>7 DEF ExecAppend
  <2>3. emitted' \in [Runs -> SUBSET EventTypes]
    BY <2>1, <2>2 DEF RelayTypes
  <2> QED  BY <2>1, <2>3 DEF RelayTypes
<1>8. CASE Dial \/ LoadInitial \/ WriteInitial \/ Disconnect \/ Crash
  <2>1. /\ conn' \in {"down", "dialed", "initial", "up"} /\ emitted' = emitted
        /\ outbound' = outbound \/ outbound' = << >>
    BY <1>8 DEF Dial, LoadInitial, WriteInitial, Write, Disconnect, Crash, historyVars,
                RelayTypes
  <2>2. << >> \in Seq(Message) /\ Len(<< >>) <= QueueSize
    BY SMT
  <2>3. outbound' \in Seq(Message) /\ Len(outbound') <= QueueSize
    BY <2>1, <2>2 DEF RelayTypes
  <2>4. emitted' \in [Runs -> SUBSET EventTypes]
    BY <2>1 DEF RelayTypes
  <2> QED  BY <2>1, <2>3, <2>4 DEF RelayTypes
<1>9. CASE WriteOutbound
  <2>1. conn' \in {"down", "up"} /\ emitted' = emitted
        /\ outbound # << >> /\ outbound' = Tail(outbound)
    BY <1>9 DEF WriteOutbound, Write, historyVars
  <2>2. outbound' \in Seq(Message) /\ Len(outbound') <= QueueSize
    BY <2>1, SMT DEF RelayTypes
  <2> QED  BY <2>1, <2>2 DEF RelayTypes
<1>10. CASE \/ \E r \in Runs, c \in Commands, p \in Payloads : HandleStart(r, c, p)
            \/ \E r \in Runs, s \in 1..MaxEvents : HandleAck(r, s)
            \/ HandleAccept \/ HandleControllerStart \/ HandleReject
            \/ ExecEnd \/ ReplayTick \/ UNCHANGED vars
  <2>1. UNCHANGED <<outbound, conn, emitted>>
    BY <1>10 DEF HandleStart, HandleAck, HandleAccept, HandleControllerStart,
                 HandleReject, ExecEnd, ReplayTick, relayVars, historyVars, vars
  <2> QED  BY <1>2, <2>1
<1> QED
  BY <1>4, <1>5, <1>6, <1>7, <1>8, <1>9, <1>10 DEF Next

\* The variables of the composition keep their types (TypeOK), the queue its capacity
\* included, for any constants.
THEOREM DeliveryTyping == Spec => []TypeOK
<1>1. Init => RelayTypes
  BY QueueSizeAssumption, SMT DEF Init, RelayTypes
<1>2. DeliveryInv /\ RelayTypes => TypeOK
  <2> SUFFICES ASSUME DeliveryInv, RelayTypes PROVE TypeOK
    OBVIOUS
  <2>1. log \subseteq Event /\ durable \subseteq log /\ StoreTypeOK
    BY DEF DeliveryInv, Recorded, StoreInv
  <2>2. /\ initial \subseteq Message /\ replay \subseteq Event
        /\ lastTerminal \subseteq Message /\ told \subseteq Message
    BY <2>1, MessageTypes DEF DeliveryInv, InTransit
  <2>3. handler.pc \in {"idle", "accept", "publish", "start", "reject"}
    BY DEF DeliveryInv, InTransit, HandlerStates, Idle
  <2>4. exec.pc \in {"idle", "running", "publish", "ending"}
    BY DEF DeliveryInv, InTransit, ExecStates, EndingStates, Idle
  <2>5. starts \in [Runs -> Nat]
    BY DEF DeliveryInv, StartsOnce
  <2> QED  BY <2>1, <2>2, <2>3, <2>4, <2>5 DEF RelayTypes, TypeOK
<1>3. DeliveryInv /\ RelayTypes /\ [Next]_vars => RelayTypes'
  BY RelayTypesStep
<1> QED
  BY <1>1, <1>2, <1>3, DeliveryInvariance, PTL DEF Spec
=============================================================================
