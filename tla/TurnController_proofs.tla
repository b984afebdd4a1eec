----------------------- MODULE TurnController_proofs -----------------------
(***************************************************************************)
(* At most one turn owns the controller, the controller keeps its contract *)
(* and frames what it publishes, for any number of turns, items and        *)
(* events: the type invariant, in which the trace id under the lock and    *)
(* the goroutines agree, the refinement of TurnContract, and the frames.   *)
(*                                                                         *)
(* These rest on where the goroutine of a turn is: it owns the             *)
(* controller from its start to its reset, has published something exactly *)
(* when it is behind its running status, and its end exactly when it is    *)
(* behind the terminal message.                                            *)
(*                                                                         *)
(* That clients can catch up rests on what is stored of a turn being what  *)
(* is published and the one event in hand, or cut before it, and on a      *)
(* snapshot leaving out the oldest items with a mark; the output and the   *)
(* outcome of a snapshot on the ring, and on the last end in the stream.   *)
(***************************************************************************)
EXTENDS TurnController, FiniteSetTheorems, TLAPS

Results == {"ok", "error", "interrupted"}
Reportable(t) == {m \in Message : m.trace = t /\ m.type \in ReportTypes \cup {"turn.started"}}

\* What the goroutine of t may be about to do.
ExecStates(t) ==
    [pc : {"none", "starting", "running", "collect", "idle", "done"}]
    \cup [pc : {"emit"}, msg : Reportable(t)]
    \cup [pc : {"returned"}, result : Results]
    \cup [pc : {"terminal", "reset"}, type : TerminalTypes]

Goroutines ==
    /\ DOMAIN exec = Traces
    /\ \A t \in Traces : exec[t] \in ExecStates(t)

\* The turn that the controller names is the one between its start and its reset.
OneOwner == \A t \in Traces : Pc(t) \in Owning <=> traceID = t

Fields ==
    /\ traceID \in Traces \cup {NoTrace} /\ turnID \in {traceID, NoTrace}
    /\ ctx \in [Traces -> {"none", "live", "canceled", "expired"}]
    /\ traceID # NoTrace => ctx[traceID] # "none"
    /\ logs \in Seq(Traces) /\ Len(logs) <= LogLines
    /\ lastTerminal \in TerminalTypes \cup {"none"}

\* Item events are numbered no higher than there are reports, the one that is about
\* to be published included.
Unsent == \E t \in Traces : Pc(t) = "emit" /\ exec[t].msg.type \in ReportTypes
Numbered ==
    /\ liveItems \in [Items -> LiveItem]
    /\ lastSequence \in 0..MaxReports
    /\ lastSequence <= Cardinality(Reports) + IF Unsent THEN 1 ELSE 0

\* A turn has published its end when its goroutine is behind it, and only one.
EndsFit ==
    /\ published \in Seq(Message)
    /\ \A t \in Traces : /\ EndsOf(t) # {} <=> Pc(t) \in {"reset", "idle", "done"}
                         /\ \A n, m \in EndsOf(t) : n = m

TurnInv == Fields /\ Goroutines /\ OneOwner /\ Numbered /\ EndsFit

LEMMA InvTypes == TurnInv => TypeOK
  BY DEF TurnInv, TypeOK, Fields, Goroutines, OneOwner, Numbered, EndsFit, ExecStates, Pc,
         Owning

LEMMA NoItemsType == NoItems \in [Items -> LiveItem]
  BY MaxReportsAssumption DEF NoItems, Unknown, LiveItem

LEMMA InitInv == Init => TurnInv
<1> SUFFICES ASSUME Init PROVE TurnInv
  OBVIOUS
<1> USE MaxReportsAssumption, LogLinesAssumption, NoTraceAssumption DEF Init
<1>1. Fields
  BY DEF Fields
<1>2. Goroutines /\ OneOwner
  BY DEF Goroutines, OneOwner, ExecStates, Pc, Owning
<1>3. Reports = {} /\ \A t \in Traces : EndsOf(t) = {}
  BY DEF Reports, EndsOf
<1>4. Cardinality(Reports) = 0 /\ ~ Unsent
  BY <1>3, FS_EmptySet DEF Unsent, Pc
<1>5. Numbered
  BY <1>4, NoItemsType DEF Numbered
<1>6. EndsFit
  BY <1>3 DEF EndsFit, Pc
<1> QED  BY <1>1, <1>2, <1>5, <1>6 DEF TurnInv

-----------------------------------------------------------------------------
(* What a step of a goroutine, and what a message, changes *)

\* The goroutine of t moves on, and the controller is of the same turn.
LEMMA Moves ==
  ASSUME TurnInv, NEW t \in Traces, NEW state \in ExecStates(t),
         Goto(t, state), traceID' = traceID, Pc(t) \in Owning <=> state.pc \in Owning
  PROVE  /\ Goroutines' /\ OneOwner'
         /\ exec'[t] = state /\ \A s \in Traces \ {t} : exec'[s] = exec[s]
<1>1. /\ DOMAIN exec' = Traces /\ exec'[t] = state
      /\ \A s \in Traces \ {t} : exec'[s] = exec[s]
  BY DEF TurnInv, Goroutines, Goto
<1>2. Goroutines'
  BY <1>1 DEF TurnInv, Goroutines, ExecStates
<1>3. OneOwner'
  BY <1>1 DEF TurnInv, OneOwner, Pc
<1> QED  BY <1>1, <1>2, <1>3

\* A message is the last of the stream and leaves the others where they are.
LEMMA EmitAppends ==
  ASSUME published \in Seq(Message), NEW m \in Message, Emit(m)
  PROVE  /\ published' \in Seq(Message)
         /\ DOMAIN published' = DOMAIN published \cup {Len(published) + 1}
         /\ Len(published) + 1 \notin DOMAIN published
         /\ \A n \in DOMAIN published : published'[n] = published[n]
         /\ published'[Len(published) + 1] = m
  BY DEF Emit

LEMMA EmitEnds ==
  ASSUME published \in Seq(Message), NEW m \in Message, Emit(m), NEW t \in Traces
  PROVE  EndsOf(t)' = EndsOf(t) \cup IF m.trace = t /\ m.type \in TerminalTypes
                                       THEN {Len(published) + 1} ELSE {}
  BY EmitAppends DEF EndsOf

LEMMA EmitReports ==
  ASSUME published \in Seq(Message), NEW m \in Message, Emit(m)
  PROVE  /\ Cardinality(Reports) \in Nat
         /\ Cardinality(Reports') = Cardinality(Reports)
                                      + IF m.type \in ReportTypes THEN 1 ELSE 0
<1>1. IsFiniteSet(Reports) /\ Cardinality(Reports) \in Nat
  <2>1. DOMAIN published = 1..Len(published) /\ Len(published) \in Nat
    OBVIOUS
  <2>2. IsFiniteSet(DOMAIN published)
    BY <2>1, FS_Interval
  <2> QED  BY <2>2, FS_Subset, FS_CardinalityType DEF Reports
<1>2. Reports' = Reports \cup IF m.type \in ReportTypes THEN {Len(published) + 1} ELSE {}
  BY EmitAppends DEF Reports
<1>3. Len(published) + 1 \notin Reports
  BY EmitAppends DEF Reports
<1>4. CASE m.type \in ReportTypes
  <2>1. Reports' = Reports \cup {Len(published) + 1}
    BY <1>2, <1>4
  <2>2. Cardinality(Reports') = Cardinality(Reports) + 1
    BY <1>1, <1>3, <2>1, FS_AddElement
  <2> QED  BY <1>1, <1>4, <2>2
<1>5. CASE m.type \notin ReportTypes
  <2>1. Reports' = Reports
    BY <1>2, <1>5
  <2> QED  BY <1>1, <1>5, <2>1
<1> QED  BY <1>4, <1>5

-----------------------------------------------------------------------------
(* The steps keep the invariant *)

\* Cancellations and deadlines change a context and nothing else.
LEMMA ContextsKeepInv ==
  ASSUME TurnInv,
         \/ \E t \in Traces : Deadline(t)
         \/ \E q \in Traces \cup {NoTrace} : Interrupt(q)
         \/ Close \/ UNCHANGED vars
  PROVE  TurnInv'
<1>1. /\ UNCHANGED <<traceID, turnID, exec, snapshotVars, published>>
      /\ ctx' \in [Traces -> {"none", "live", "canceled", "expired"}]
      /\ \A t \in Traces : ctx[t] # "none" => ctx'[t] # "none"
  BY DEF TurnInv, Fields, Deadline, Interrupt, Close, vars, snapshotVars
<1> QED
  BY <1>1 DEF TurnInv, Fields, Goroutines, OneOwner, Numbered, EndsFit, EndsOf, Reports,
              Unsent, Pc, snapshotVars

\* A goroutine that looks at the context or at the result, and publishes nothing.
LEMMA QuietKeepsInv ==
  ASSUME TurnInv, NEW t \in Traces,
         \/ \E result \in Results : RunReturns(t, result)
         \/ Decide(t) \/ Collect(t)
  PROVE  TurnInv'
<1>1. PICK state \in ExecStates(t) :
          /\ Goto(t, state) /\ state.pc \in {"returned", "collect", "terminal"}
          /\ Pc(t) \in {"running", "returned", "collect"}
          /\ UNCHANGED <<traceID, turnID, ctx, snapshotVars, published>>
  <2>1. CASE \E result \in Results : RunReturns(t, result)
    BY <2>1 DEF RunReturns, ExecStates
  <2>2. CASE Decide(t)
    <3>1. Pc(t) = "returned" /\ exec[t].result \in Results
      BY <2>2 DEF Decide, TurnInv, Goroutines, ExecStates, Pc
    <3>2. ctx[t] \in {"none", "live", "canceled", "expired"}
      BY DEF TurnInv, Fields
    <3> DEFINE verdict == Verdict(ctx[t], exec[t].result)
    <3> DEFINE state == IF verdict = "collect" THEN [pc |-> "collect"]
                        ELSE [pc |-> "terminal", type |-> verdict]
    <3>3. ctx[t] # "none"
      BY <3>1, NoTraceAssumption DEF TurnInv, OneOwner, Fields, Owning
    <3>4. verdict \in TerminalTypes \cup {"collect"}
      <4>1. CASE ctx[t] = "expired"
        BY <4>1, SMT DEF Verdict, TerminalTypes
      <4>2. CASE ctx[t] = "canceled"
        BY <4>2, SMT DEF Verdict, TerminalTypes
      <4>3. CASE ctx[t] = "live"
        BY <4>3, <3>1, SMT DEF Verdict, Results, TerminalTypes
      <4> QED  BY <3>2, <3>3, <4>1, <4>2, <4>3
    <3>5. state \in ExecStates(t) /\ state.pc \in {"collect", "terminal"}
      BY <3>4 DEF ExecStates
    <3> QED  BY <2>2, <3>1, <3>5 DEF Decide
  <2>3. CASE Collect(t)
    BY <2>3 DEF Collect, ExecStates, TerminalTypes
  <2> QED  BY <2>1, <2>2, <2>3
<1>2. /\ Goroutines' /\ OneOwner'
      /\ exec'[t] = state /\ \A s \in Traces \ {t} : exec'[s] = exec[s]
  BY <1>1, Moves DEF Owning
<1>3. Unsent' <=> Unsent
  BY <1>1, <1>2 DEF Unsent, Pc
<1>4. Numbered'
  BY <1>1, <1>3 DEF TurnInv, Numbered, Reports, snapshotVars
<1>5. EndsFit'
  BY <1>1, <1>2 DEF TurnInv, EndsFit, EndsOf, Pc
<1> QED  BY <1>1, <1>2, <1>4, <1>5 DEF TurnInv, Fields, snapshotVars

\* A goroutine that publishes what it has in hand; the message of a turn that still
\* owns the controller is its end just if that is where the goroutine stands.
LEMMA EmitKeepsInv ==
  ASSUME TurnInv, NEW t \in Traces,
         EmitRunning(t) \/ EmitEvent(t) \/ EmitTerminal(t) \/ EmitIdle(t)
  PROVE  TurnInv'
<1>1. PICK m \in Message, state \in ExecStates(t) :
          /\ Emit(m) /\ m.trace = t /\ Goto(t, state)
          /\ UNCHANGED <<traceID, turnID, ctx, snapshotVars>>
          /\ Pc(t) \in Owning <=> state.pc \in Owning
          /\ state.pc # "emit"
          /\ m.type \in ReportTypes => Pc(t) = "emit"
          /\ Pc(t) = "emit" => m = exec[t].msg
          /\ m.type \in TerminalTypes <=> Pc(t) = "terminal"
          /\ state.pc \in {"reset", "idle", "done"} <=> Pc(t) \in {"terminal", "idle"}
          /\ Pc(t) \notin {"reset", "done"}
  <2> USE DEF Owning, ReportTypes, TerminalTypes, ItemTypes
  <2>1. \A type \in MessageTypes : /\ Plain(type, t) \in Message
                                   /\ Plain(type, t).trace = t /\ Plain(type, t).type = type
    BY MaxReportsAssumption DEF Plain, Message
  <2>2. CASE EmitRunning(t)
    <3>1. [pc |-> "running"] \in ExecStates(t) /\ "status.running" \in MessageTypes
      BY DEF ExecStates, MessageTypes, StatusTypes
    <3> QED  BY <2>1, <2>2, <3>1 DEF EmitRunning
  <2>3. CASE EmitEvent(t)
    <3>1. [pc |-> "running"] \in ExecStates(t)
      BY DEF ExecStates
    <3>2. Pc(t) = "emit" /\ exec[t].msg \in Reportable(t)
      BY <2>3 DEF EmitEvent, TurnInv, Goroutines, ExecStates, Pc
    <3> QED  BY <2>3, <3>1, <3>2 DEF EmitEvent, Reportable
  <2>4. CASE EmitTerminal(t)
    <3>1. Pc(t) = "terminal" /\ exec[t].type \in TerminalTypes
      BY <2>4 DEF EmitTerminal, TurnInv, Goroutines, ExecStates, Pc
    <3>2. /\ [pc |-> "reset", type |-> exec[t].type] \in ExecStates(t)
          /\ exec[t].type \in MessageTypes
      BY <3>1 DEF ExecStates, MessageTypes
    <3> QED  BY <2>1, <2>4, <3>1, <3>2 DEF EmitTerminal
  <2>5. CASE EmitIdle(t)
    <3>1. [pc |-> "done"] \in ExecStates(t) /\ "status.idle" \in MessageTypes
      BY DEF ExecStates, MessageTypes, StatusTypes
    <3> QED  BY <2>1, <2>5, <3>1 DEF EmitIdle
  <2> QED  BY <2>2, <2>3, <2>4, <2>5
<1>2. /\ Goroutines' /\ OneOwner'
      /\ exec'[t] = state /\ \A s \in Traces \ {t} : exec'[s] = exec[s]
  BY <1>1, Moves
<1>3. published \in Seq(Message)
  BY DEF TurnInv, EndsFit
<1>4. Numbered'
  <2>1. /\ Cardinality(Reports) \in Nat
        /\ Cardinality(Reports') = Cardinality(Reports)
                                     + IF m.type \in ReportTypes THEN 1 ELSE 0
    BY <1>1, <1>3, EmitReports
  <2>2. Unsent => m.type \in ReportTypes \/ Unsent'
    BY <1>1, <1>2 DEF Unsent, Pc
  <2>3. Cardinality(Reports) + (IF Unsent THEN 1 ELSE 0)
          <= Cardinality(Reports') + IF Unsent' THEN 1 ELSE 0
    BY <2>1, <2>2
  <2>4. /\ liveItems' \in [Items -> LiveItem]
        /\ lastSequence' \in 0..MaxReports /\ lastSequence' = lastSequence
        /\ lastSequence <= Cardinality(Reports) + IF Unsent THEN 1 ELSE 0
    BY <1>1 DEF TurnInv, Numbered, snapshotVars
  <2>5. Cardinality(Reports') \in Nat
    BY <2>1
  <2> HIDE DEF Reports, Unsent
  <2>6. lastSequence' <= Cardinality(Reports') + IF Unsent' THEN 1 ELSE 0
    BY <2>1, <2>3, <2>4, <2>5, MaxReportsAssumption
  <2> QED  BY <2>4, <2>6 DEF Numbered
<1>5. EndsFit'
  <2>1. published' \in Seq(Message)
    BY <1>1, <1>3, EmitAppends
  <2>2. \A s \in Traces : EndsOf(s)' = EndsOf(s) \cup IF s = t /\ Pc(t) = "terminal"
                                                     THEN {Len(published) + 1} ELSE {}
    BY <1>1, <1>3, EmitEnds
  <2>3. ASSUME NEW s \in Traces
        PROVE  /\ EndsOf(s)' # {} <=> Pc(s)' \in {"reset", "idle", "done"}
               /\ \A i, j \in EndsOf(s)' : i = j
    <3>1. CASE s = t
      BY <1>1, <1>2, <2>2, <3>1 DEF TurnInv, EndsFit, Pc
    <3>2. CASE s # t
      BY <1>2, <2>2, <3>2 DEF TurnInv, EndsFit, Pc
    <3> QED  BY <3>1, <3>2
  <2> QED  BY <2>1, <2>3 DEF EndsFit
<1> QED  BY <1>1, <1>2, <1>4, <1>5 DEF TurnInv, Fields, snapshotVars

\* The callback takes a message in hand; it numbers an item event only if another
\* report fits, and nothing waits to be published at that moment.
LEMMA CallbackKeepsInv ==
  ASSUME TurnInv, NEW t \in Traces,
         \/ TurnStarted(t) \/ Output(t)
         \/ \E i \in Items, type \in ItemTypes : ItemEvent(t, i, type)
  PROVE  TurnInv'
<1> USE MaxReportsAssumption
<1>1. Pc(t) = "running" /\ traceID = t /\ published' = published /\ ctx' = ctx
  BY DEF TurnInv, OneOwner, Owning, TurnStarted, Output, ItemEvent
<1>2. Cardinality(Reports) \in Nat /\ Reports' = Reports
  <2>1. DOMAIN published = 1..Len(published) /\ Len(published) \in Nat
    BY DEF TurnInv, EndsFit
  <2>2. IsFiniteSet(DOMAIN published)
    BY <2>1, FS_Interval
  <2> QED  BY <1>1, <2>2, FS_Subset, FS_CardinalityType DEF Reports
<1>3. ~ Unsent
  BY <1>1 DEF TurnInv, OneOwner, Owning, Unsent
<1>4. lastSequence \in Nat /\ lastSequence <= Cardinality(Reports)
  <2> HIDE DEF Reports, Unsent
  <2> QED  BY <1>2, <1>3 DEF TurnInv, Numbered
<1>5. ASSUME NEW m \in Reportable(t), EmitNext(t, m), traceID' = traceID,
             \/ lastSequence' = lastSequence
             \/ MayReport /\ lastSequence' = lastSequence + 1 /\ m.type \in ReportTypes,
             liveItems' \in [Items -> LiveItem]
      PROVE  Goroutines' /\ OneOwner' /\ Numbered' /\ EndsFit'
  <2> DEFINE state == [pc |-> "emit", msg |-> m]
  <2>1. state \in ExecStates(t)
    BY <1>5 DEF ExecStates
  <2>2. /\ Goroutines' /\ OneOwner'
        /\ exec'[t] = state /\ \A s \in Traces \ {t} : exec'[s] = exec[s]
    BY <1>1, <1>5, <2>1, Moves DEF EmitNext, Owning
  <2>3. m.type \in ReportTypes => Unsent'
    BY <2>2 DEF Unsent, Pc
  <2>4. lastSequence' \in 0..MaxReports
    BY <1>2, <1>4, <1>5 DEF TurnInv, Numbered, MayReport
  <2>5. lastSequence' <= Cardinality(Reports') + IF Unsent' THEN 1 ELSE 0
    <3> HIDE DEF Reports, Unsent
    <3> QED  BY <1>2, <1>4, <1>5, <2>3
  <2>6. Numbered'
    BY <1>5, <2>4, <2>5 DEF Numbered
  <2>7. EndsFit'
    BY <1>1, <2>2 DEF TurnInv, EndsFit, EndsOf, Pc
  <2> QED  BY <2>2, <2>6, <2>7
<1>6. CASE TurnStarted(t)
  <2>1. Plain("turn.started", t) \in Reportable(t)
    BY DEF Plain, Reportable, Message, MessageTypes
  <2>2. liveItems' = liveItems /\ liveItems \in [Items -> LiveItem]
    BY <1>6 DEF TurnStarted, snapshotVars, TurnInv, Numbered
  <2>3. Goroutines' /\ OneOwner' /\ Numbered' /\ EndsFit'
    BY <1>5, <1>6, <2>1, <2>2 DEF TurnStarted, snapshotVars
  <2> QED  BY <1>1, <1>6, <2>3 DEF TurnInv, Fields, TurnStarted, snapshotVars
<1>7. CASE Output(t)
  <2>1. Plain("turn.output", t) \in Reportable(t)
    BY DEF Plain, Reportable, Message, MessageTypes, ReportTypes
  <2>2. liveItems' = liveItems /\ liveItems \in [Items -> LiveItem]
    BY <1>7 DEF Output, TurnInv, Numbered
  <2>3. Goroutines' /\ OneOwner' /\ Numbered' /\ EndsFit'
    BY <1>5, <1>7, <2>1, <2>2 DEF Output
  <2>4. logs' \in Seq(Traces) /\ Len(logs') <= LogLines
    <3>1. logs \in Seq(Traces) /\ Len(logs) <= LogLines /\ logs' = RingAdd(logs, t)
      BY <1>7 DEF Output, TurnInv, Fields
    <3> QED  BY <3>1, LogLinesAssumption, SMT DEF RingAdd
  <2> QED  BY <1>7, <2>3, <2>4 DEF TurnInv, Fields, Output
<1>8. ASSUME NEW i \in Items, NEW type \in ItemTypes, ItemEvent(t, i, type)
      PROVE  TurnInv'
  <2> DEFINE m == [type |-> type, trace |-> t, item |-> i, seq |-> lastSequence + 1]
  <2>1. lastSequence + 1 \in 1..MaxReports
    BY <1>2, <1>4, <1>8 DEF ItemEvent, MayReport
  <2>2. m \in Reportable(t) /\ m.type \in ReportTypes
    BY <2>1 DEF Reportable, Message, MessageTypes, ReportTypes
  <2>3. liveItems' \in [Items -> LiveItem]
    <3>1. PICK cut \in BOOLEAN :
              liveItems' = [liveItems EXCEPT
                               ![i] = StoredItem(type, liveItems[i], lastSequence + 1, cut)]
      BY <1>8 DEF ItemEvent
    <3>2. liveItems \in [Items -> LiveItem] /\ liveItems[i] \in LiveItem
      BY DEF TurnInv, Numbered
    <3>3. StoredItem(type, liveItems[i], lastSequence + 1, cut) \in LiveItem
      BY <2>1, <3>2 DEF StoredItem, LiveItem
    <3> QED  BY <3>1, <3>2, <3>3
  <2>4. Goroutines' /\ OneOwner' /\ Numbered' /\ EndsFit'
    BY <1>5, <1>8, <2>2, <2>3 DEF ItemEvent
  <2> QED  BY <1>8, <2>4 DEF TurnInv, Fields, ItemEvent
<1> QED  BY <1>6, <1>7, <1>8

\* A turn may start only when no other owns the controller.
LEMMA StartKeepsInv ==
  ASSUME TurnInv, NEW t \in Traces, Start(t)
  PROVE  TurnInv'
<1> USE MaxReportsAssumption, LogLinesAssumption, NoTraceAssumption
<1>1. /\ Pc(t) = "none" /\ traceID = NoTrace /\ published' = published
      /\ traceID' = t /\ turnID' = NoTrace /\ ctx' = [ctx EXCEPT ![t] = "live"]
      /\ liveItems' = NoItems /\ lastSequence' = 0 /\ logs' = << >>
      /\ lastTerminal' = "none"
  BY DEF Start
<1>2. /\ DOMAIN exec' = Traces /\ exec'[t] = [pc |-> "starting"]
      /\ \A s \in Traces \ {t} : exec'[s] = exec[s]
  BY DEF Start, Goto, TurnInv, Goroutines
<1>3. Goroutines'
  BY <1>2 DEF TurnInv, Goroutines, ExecStates
<1>4. OneOwner'
  <2>1. \A s \in Traces : Pc(s) \notin Owning
    BY <1>1 DEF TurnInv, OneOwner
  <2> QED  BY <1>1, <1>2, <2>1 DEF OneOwner, Pc, Owning
<1>5. Fields'
  BY <1>1 DEF TurnInv, Fields
<1>6. Numbered'
  <2>1. Cardinality(Reports) \in Nat /\ Reports' = Reports
    <3>1. DOMAIN published = 1..Len(published) /\ Len(published) \in Nat
      BY DEF TurnInv, EndsFit
    <3>2. IsFiniteSet(DOMAIN published)
      BY <3>1, FS_Interval
    <3> QED  BY <1>1, <3>2, FS_Subset, FS_CardinalityType DEF Reports
  <2> HIDE DEF Reports, Unsent
  <2> QED  BY <1>1, <2>1, NoItemsType DEF Numbered
<1>7. EndsFit'
  BY <1>1, <1>2 DEF TurnInv, EndsFit, EndsOf, Pc
<1> QED  BY <1>3, <1>4, <1>5, <1>6, <1>7 DEF TurnInv

\* A turn that has published its end finds the controller still its own, and frees it.
LEMMA ResetKeepsInv ==
  ASSUME TurnInv, NEW t \in Traces, Reset(t)
  PROVE  TurnInv' /\ traceID = t /\ traceID' = NoTrace /\ published' = published
<1> USE NoTraceAssumption
<1>1. Pc(t) = "reset" /\ traceID = t /\ exec[t].type \in TerminalTypes
  BY DEF Reset, TurnInv, OneOwner, Owning, Goroutines, ExecStates, Pc
<1>2. /\ traceID' = NoTrace /\ turnID' = NoTrace /\ liveItems' = NoItems
      /\ lastTerminal' = exec[t].type
      /\ UNCHANGED <<ctx, lastSequence, logs, published>>
  BY <1>1 DEF Reset
<1>3. /\ DOMAIN exec' = Traces /\ exec'[t] = [pc |-> "idle"]
      /\ \A s \in Traces \ {t} : exec'[s] = exec[s]
  BY DEF Reset, Goto, TurnInv, Goroutines
<1>4. Goroutines'
  BY <1>3 DEF TurnInv, Goroutines, ExecStates
<1>5. OneOwner'
  BY <1>1, <1>2, <1>3 DEF TurnInv, OneOwner, Pc, Owning
<1>6. Fields'
  BY <1>1, <1>2 DEF TurnInv, Fields
<1>7. Numbered'
  <2>1. Unsent' <=> Unsent
    BY <1>1, <1>3 DEF Unsent, Pc
  <2> QED  BY <1>2, <2>1, NoItemsType DEF TurnInv, Numbered, Reports
<1>8. EndsFit'
  BY <1>1, <1>2, <1>3 DEF TurnInv, EndsFit, EndsOf, Pc
<1> QED  BY <1>1, <1>2, <1>4, <1>5, <1>6, <1>7, <1>8 DEF TurnInv

LEMMA NextKeepsInv ==
  ASSUME TurnInv, [Next]_vars
  PROVE  TurnInv'
<1>1. ASSUME NEW t \in Traces,
             EmitRunning(t) \/ EmitEvent(t) \/ EmitTerminal(t) \/ EmitIdle(t)
      PROVE  TurnInv'
  BY <1>1, EmitKeepsInv
<1>2. ASSUME NEW t \in Traces,
             \/ \E result \in Results : RunReturns(t, result)
             \/ Decide(t) \/ Collect(t)
      PROVE  TurnInv'
  BY <1>2, QuietKeepsInv
<1>3. ASSUME NEW t \in Traces,
             \/ TurnStarted(t) \/ Output(t)
             \/ \E i \in Items, type \in ItemTypes : ItemEvent(t, i, type)
      PROVE  TurnInv'
  BY <1>3, CallbackKeepsInv
<1>4. ASSUME NEW t \in Traces, Start(t) \/ Reset(t)
      PROVE  TurnInv'
  BY <1>4, StartKeepsInv, ResetKeepsInv
<1> QED  BY <1>1, <1>2, <1>3, <1>4, ContextsKeepInv DEF Next, Results

LEMMA TurnInvariance == Spec => []TurnInv
<1>1. TurnInv /\ [Next]_vars => TurnInv'
  BY NextKeepsInv
<1> QED  BY <1>1, InitInv, PTL DEF Spec

\* The fields have their types and the goroutine that is between its start and its
\* reset is the one the controller names, so two turns never run at once (TypeOK).
THEOREM TurnTyping == Spec => []TypeOK
  BY TurnInvariance, InvTypes, PTL

-----------------------------------------------------------------------------
(* The contract *)

\* A turn that neither starts nor publishes an end keeps its outcome.
LEMMA OutcomeStays ==
  ASSUME TurnInv, NEW t \in Traces, EndsOf(t)' = EndsOf(t),
         \A n \in EndsOf(t) : published'[n] = published[n],
         Pc(t)' = "none" <=> Pc(t) = "none"
  PROVE  OutcomeOf(t)' = OutcomeOf(t)
<1>1. CASE EndsOf(t) = {}
  BY <1>1 DEF OutcomeOf
<1>2. CASE EndsOf(t) # {}
  <2>1. PICK n \in EndsOf(t) : EndsOf(t) = {n} /\ n \in Nat
    BY <1>2 DEF TurnInv, EndsFit, EndsOf
  <2>2. LastEnd(t) = n /\ LastEnd(t)' = n
    BY <2>1 DEF LastEnd
  <2> QED  BY <2>1, <2>2 DEF OutcomeOf
<1> QED  BY <1>1, <1>2

Outcome == [t \in Traces |-> OutcomeOf(t)]

\* A step that publishes nothing and starts nothing keeps all outcomes.
LEMMA OutcomesStay ==
  ASSUME TurnInv, UNCHANGED published,
         \A t \in Traces : Pc(t)' = "none" <=> Pc(t) = "none"
  PROVE  Outcome' = Outcome
<1>1. \A t \in Traces : OutcomeOf(t)' = OutcomeOf(t)
  BY OutcomeStays DEF EndsOf
<1> QED  BY <1>1 DEF Outcome

LEMMA StartBegins ==
  ASSUME TurnInv, NEW t \in Traces, Start(t)
  PROVE  Contract!Begin(t)
<1>1. /\ Pc(t) = "none" /\ traceID = NoTrace /\ traceID' = t /\ published' = published
      /\ exec'[t] = [pc |-> "starting"] /\ \A s \in Traces \ {t} : exec'[s] = exec[s]
  BY DEF Start, Goto, TurnInv, Goroutines
<1>2. EndsOf(t) = {} /\ EndsOf(t)' = {}
  BY <1>1 DEF TurnInv, EndsFit, EndsOf
<1>3. OutcomeOf(t) = "none" /\ OutcomeOf(t)' = "running"
  BY <1>1, <1>2 DEF OutcomeOf, Pc
<1>4. \A s \in Traces \ {t} : OutcomeOf(s)' = OutcomeOf(s)
  BY <1>1, OutcomeStays DEF EndsOf, Pc
<1> QED  BY <1>1, <1>3, <1>4 DEF Contract!Begin

LEMMA TerminalReports ==
  ASSUME TurnInv, NEW t \in Traces, EmitTerminal(t)
  PROVE  \E o \in TerminalTypes : Contract!Report(t, o)
<1> DEFINE m == Plain(exec[t].type, t)
<1>1. /\ Pc(t) = "terminal" /\ exec[t].type \in TerminalTypes /\ traceID = t
      /\ Emit(m) /\ traceID' = traceID /\ exec'[t].pc = "reset"
      /\ \A s \in Traces \ {t} : exec'[s] = exec[s]
  BY DEF EmitTerminal, Goto, TurnInv, OneOwner, Owning, Goroutines, ExecStates, Pc
<1>2. m \in Message /\ published \in Seq(Message)
  BY <1>1, MaxReportsAssumption DEF TurnInv, EndsFit, Plain, Message, MessageTypes
<1>3. EndsOf(t) = {} /\ EndsOf(t)' = {Len(published) + 1}
  <2>1. EndsOf(t) = {}
    BY <1>1 DEF TurnInv, EndsFit
  <2> QED  BY <1>1, <1>2, <2>1, EmitEnds DEF Plain
<1>4. OutcomeOf(t) = "running" /\ OutcomeOf(t)' = exec[t].type
  <2>1. published'[Len(published) + 1] = m /\ Len(published) + 1 \in Nat
    BY <1>1, <1>2, EmitAppends
  <2>2. LastEnd(t)' = Len(published) + 1
    BY <1>3, <2>1 DEF LastEnd
  <2> QED  BY <1>1, <1>3, <2>1, <2>2 DEF OutcomeOf, Plain
<1>5. ASSUME NEW s \in Traces \ {t}
      PROVE  OutcomeOf(s)' = OutcomeOf(s)
  <2>1. m.trace # s
    BY <1>5 DEF Plain
  <2> HIDE DEF m
  <2>2. EndsOf(s)' = EndsOf(s)
    BY <1>1, <1>2, <2>1, EmitEnds
  <2>3. \A n \in EndsOf(s) : published'[n] = published[n]
    BY <1>1, <1>2, EmitAppends DEF EndsOf
  <2> QED  BY <1>1, <2>2, <2>3, OutcomeStays DEF Pc
<1> QED  BY <1>1, <1>4, <1>5 DEF Contract!Report

\* What else is published ends no turn.
LEMMA OtherMessagesStutter ==
  ASSUME TurnInv, NEW t \in Traces, EmitRunning(t) \/ EmitEvent(t) \/ EmitIdle(t)
  PROVE  UNCHANGED <<traceID, Outcome>>
<1>1. PICK m \in Message :
          /\ Emit(m) /\ m.type \notin TerminalTypes /\ traceID' = traceID
          /\ Pc(t) # "none" /\ Pc(t)' # "none"
          /\ \A s \in Traces \ {t} : exec'[s] = exec[s]
  <2>1. CASE EmitEvent(t)
    <3>1. exec[t].msg \in Message /\ exec[t].msg.type \notin TerminalTypes
      BY <2>1 DEF EmitEvent, TurnInv, Goroutines, ExecStates, Pc, Reportable, ReportTypes,
                  ItemTypes, TerminalTypes
    <3> QED  BY <2>1, <3>1 DEF EmitEvent, Goto, TurnInv, Goroutines, Pc
  <2>2. CASE EmitRunning(t) \/ EmitIdle(t)
    <3>1. \A type \in StatusTypes :
             /\ Plain(type, t) \in Message
             /\ Plain(type, t).type \notin TerminalTypes
      BY MaxReportsAssumption DEF Plain, Message, MessageTypes, StatusTypes, TerminalTypes
    <3> QED
      BY <2>2, <3>1 DEF EmitRunning, EmitIdle, StatusTypes, Goto, TurnInv, Goroutines, Pc
  <2> QED  BY <2>1, <2>2
<1>2. ASSUME NEW s \in Traces
      PROVE  OutcomeOf(s)' = OutcomeOf(s)
  <2>1. published \in Seq(Message)
    BY DEF TurnInv, EndsFit
  <2>2. EndsOf(s)' = EndsOf(s)
    BY <1>1, <2>1, EmitEnds
  <2>3. \A n \in EndsOf(s) : published'[n] = published[n]
    BY <1>1, <2>1, EmitAppends DEF EndsOf
  <2> QED  BY <1>1, <2>2, <2>3, OutcomeStays DEF Pc
<1> QED  BY <1>1, <1>2 DEF Outcome

LEMMA ResetLeaves ==
  ASSUME TurnInv, NEW t \in Traces, Reset(t)
  PROVE  Contract!Leave(t)
<1>1. traceID = t /\ traceID' = NoTrace /\ published' = published
  BY ResetKeepsInv
<1>2. \A s \in Traces : Pc(s)' = "none" <=> Pc(s) = "none"
  BY DEF Reset, Goto, TurnInv, Goroutines, Pc
<1>3. PICK n \in EndsOf(t) : EndsOf(t) = {n} /\ n \in Nat
  BY DEF Reset, TurnInv, EndsFit, EndsOf
<1>4. OutcomeOf(t) \in TerminalTypes
  BY <1>3 DEF OutcomeOf, LastEnd, EndsOf
<1>5. Outcome' = Outcome
  BY <1>1, <1>2, OutcomesStay
<1> QED  BY <1>1, <1>4, <1>5 DEF Contract!Leave, Outcome

\* Every behaviour of the controller is one of TurnContract: one turn owns it at a
\* time, reports one outcome while it does, and only then may the next begin.
THEOREM TurnKeepsContract == Spec => KeepsTurnContract
<1>1. Init => Contract!ContractInit
  BY DEF Init, Contract!ContractInit, OutcomeOf, EndsOf, Pc
<1>2. TurnInv /\ [Next]_vars => [Contract!ContractNext]_<<traceID, Outcome>>
  <2> SUFFICES ASSUME TurnInv, [Next]_vars
               PROVE  Contract!ContractNext \/ UNCHANGED <<traceID, Outcome>>
    OBVIOUS
  <2>1. ASSUME NEW t \in Traces, Start(t) \/ EmitTerminal(t) \/ Reset(t)
        PROVE  Contract!ContractNext
    BY <2>1, StartBegins, TerminalReports, ResetLeaves DEF Contract!ContractNext
  <2>2. ASSUME NEW t \in Traces, EmitRunning(t) \/ EmitEvent(t) \/ EmitIdle(t)
        PROVE  UNCHANGED <<traceID, Outcome>>
    BY <2>2, OtherMessagesStutter
  <2>3. ASSUME NEW t \in Traces,
               \/ TurnStarted(t) \/ Output(t)
               \/ \E i \in Items, type \in ItemTypes : ItemEvent(t, i, type)
               \/ \E result \in Results : RunReturns(t, result)
               \/ Decide(t) \/ Collect(t)
        PROVE  UNCHANGED <<traceID, Outcome>>
    <3>1. /\ UNCHANGED <<traceID, published>>
          /\ \A s \in Traces : Pc(s)' = "none" <=> Pc(s) = "none"
      BY <2>3 DEF TurnStarted, Output, ItemEvent, RunReturns, Decide, Collect, EmitNext,
                  Goto, TurnInv, Goroutines, Pc
    <3> QED  BY <3>1, OutcomesStay
  <2>4. CASE \/ \E t \in Traces : Deadline(t)
             \/ \E q \in Traces \cup {NoTrace} : Interrupt(q)
             \/ Close \/ UNCHANGED vars
    <3>1. UNCHANGED <<traceID, exec, published>>
      BY <2>4 DEF Deadline, Interrupt, Close, vars
    <3> QED  BY <3>1, OutcomesStay DEF Pc
  <2> QED  BY <2>1, <2>2, <2>3, <2>4 DEF Next, Results
<1>3. [Contract!ContractNext]_<<traceID, Outcome>>
        => [Contract!ContractNext]_(Contract!contractVars)
  BY DEF Contract!contractVars, Outcome
<1> QED
  BY <1>1, <1>2, <1>3, TurnInvariance, PTL DEF Spec, KeepsTurnContract,
     Contract!ContractSpec

-----------------------------------------------------------------------------
(* The frames *)

\* Where the goroutine of a turn is, and what it has published.
Placed ==
    \A t \in Traces :
        /\ MessagesOf(t) = {} <=> Pc(t) \in {"none", "starting"}
        /\ Pc(t) # "done" => \A n \in MessagesOf(t) : published[n].type # "status.idle"

\* Behind a message of the turn that owns the controller, others publish only their
\* idle status.
OwnerSpeaks ==
    \A n, m \in DOMAIN published :
        n < m /\ published[n].trace = traceID /\ published[m].trace # traceID
            => published[m].type = "status.idle"

FrameInv == TurnsAreFramed /\ Placed /\ OwnerSpeaks

\* A step that publishes nothing keeps the frames, if it does not give the controller
\* to a turn that has published something.
LEMMA SilentKeepsFrames ==
  ASSUME TurnInv, FrameInv, UNCHANGED published,
         \A t \in Traces : /\ Pc(t)' \in {"none", "starting"} <=> Pc(t) \in {"none", "starting"}
                           /\ Pc(t)' = "done" <=> Pc(t) = "done",
         traceID' \in {traceID, NoTrace} \/ MessagesOf(traceID') = {}
  PROVE  FrameInv'
<1>1. Placed'
  <2>1. \A t \in Traces : MessagesOf(t)' = MessagesOf(t)
    BY DEF MessagesOf
  <2>2. ASSUME NEW t \in Traces
        PROVE  /\ MessagesOf(t)' = {} <=> Pc(t)' \in {"none", "starting"}
               /\ Pc(t)' # "done" =>
                     \A n \in MessagesOf(t)' : published'[n].type # "status.idle"
    BY <2>1 DEF FrameInv, Placed
  <2> QED  BY <2>2 DEF Placed
<1>2. TurnsAreFramed'
  BY DEF FrameInv, TurnsAreFramed, Framed, MessagesOf
<1>3. \A n \in DOMAIN published : published[n].trace \in Traces
  <2>1. \A n \in DOMAIN published : published[n] \in Message
    BY DEF TurnInv, EndsFit
  <2> QED  BY <2>1 DEF Message
<1>4. OwnerSpeaks'
  BY <1>3, NoTraceAssumption DEF FrameInv, OwnerSpeaks, MessagesOf
<1> QED  BY <1>1, <1>2, <1>4 DEF FrameInv

\* What a goroutine publishes fits behind what it has published.
Fits(t, m) ==
    /\ m \in Message /\ m.trace = t /\ Emit(m) /\ traceID' = traceID
    /\ \A s \in Traces \ {t} : exec'[s] = exec[s]
    /\ \/ Pc(t) = "starting" /\ m.type = "status.running"
       \/ Pc(t) \in {"emit", "terminal", "idle"} /\ m.type # "status.running"
    /\ m.type = "status.idle" <=> Pc(t) = "idle"
    /\ m.type \in TerminalTypes <=> Pc(t) = "terminal"
    /\ Pc(t)' \notin {"none", "starting"} /\ (Pc(t)' = "done" <=> Pc(t) = "idle")

LEMMA EmitFits ==
  ASSUME TurnInv, NEW t \in Traces,
         EmitRunning(t) \/ EmitEvent(t) \/ EmitTerminal(t) \/ EmitIdle(t)
  PROVE  \E m \in Message : Fits(t, m)
<1> USE DEF TerminalTypes, StatusTypes, ItemTypes, MessageTypes
<1>1. \A type \in MessageTypes : /\ Plain(type, t) \in Message
                                 /\ Plain(type, t).trace = t /\ Plain(type, t).type = type
  BY MaxReportsAssumption DEF Plain, Message
<1>2. DOMAIN exec = Traces /\ exec[t] \in ExecStates(t)
  BY DEF TurnInv, Goroutines
<1>3. CASE EmitRunning(t)
  BY <1>1, <1>2, <1>3 DEF EmitRunning, Goto, Fits, Pc
<1>4. CASE EmitEvent(t)
  <2>1. exec[t].msg \in Reportable(t)
    BY <1>2, <1>4 DEF EmitEvent, ExecStates, Pc
  <2> QED  BY <1>2, <1>4, <2>1 DEF EmitEvent, Goto, Fits, Pc, Reportable, ReportTypes
<1>5. CASE EmitTerminal(t)
  <2>1. exec[t].type \in TerminalTypes
    BY <1>2, <1>5 DEF EmitTerminal, ExecStates, Pc
  <2> QED  BY <1>1, <1>2, <1>5, <2>1 DEF EmitTerminal, Goto, Fits, Pc
<1>6. CASE EmitIdle(t)
  BY <1>1, <1>2, <1>6 DEF EmitIdle, Goto, Fits, Pc
<1> QED  BY <1>3, <1>4, <1>5, <1>6

LEMMA FitsKeepsFrames ==
  ASSUME TurnInv, FrameInv, NEW t \in Traces, NEW m \in Message, Fits(t, m)
  PROVE  FrameInv'
<1> DEFINE last == Len(published) + 1
<1>1. /\ DOMAIN published' = DOMAIN published \cup {last}
      /\ \A n \in DOMAIN published : n \in Nat /\ n < last /\ published'[n] = published[n]
      /\ published'[last] = m /\ last \in Nat
      /\ \A n \in DOMAIN published : published[n].trace \in Traces
  <2>1. published \in Seq(Message) /\ Emit(m)
    BY DEF TurnInv, EndsFit, Fits
  <2>2. \A n \in DOMAIN published : n \in Nat /\ n < last /\ published[n] \in Message
    BY <2>1
  <2>3. last \in Nat
    BY <2>1
  <2> QED  BY <2>1, <2>2, <2>3, EmitAppends DEF Message
<1> HIDE DEF last
<1>2. /\ MessagesOf(t)' = MessagesOf(t) \cup {last}
      /\ \A s \in Traces \ {t} : MessagesOf(s)' = MessagesOf(s)
      /\ \A s \in Traces : MessagesOf(s) \subseteq DOMAIN published
  BY <1>1 DEF MessagesOf, Fits
<1>3. Placed'
  BY <1>1, <1>2 DEF FrameInv, Placed, Fits, Pc
<1>4. ASSUME NEW s \in Traces
      PROVE  Framed(s)'
  <2>1. CASE s # t
    BY <1>1, <1>2, <2>1 DEF FrameInv, TurnsAreFramed, Framed
  <2>2. CASE s = t
    <3>1. EndsOf(t) = {n \in MessagesOf(t) : published[n].type \in TerminalTypes}
      BY DEF EndsOf, MessagesOf
    <3>2. CASE Pc(t) = "starting"
      <4>1. MessagesOf(t)' = {last} /\ published'[last].type = "status.running"
        BY <1>1, <1>2, <3>2 DEF FrameInv, Placed, Fits
      <4> QED  BY <1>1, <2>2, <4>1 DEF Framed, TerminalTypes
    <3>3. CASE Pc(t) \in {"emit", "terminal", "idle"}
      <4>1. /\ MessagesOf(t) # {} /\ m.type # "status.running"
            /\ \A n \in MessagesOf(t) : published[n].type # "status.idle"
            /\ Framed(t)
        BY <3>3 DEF FrameInv, Placed, Fits, TurnsAreFramed
      <4>2. /\ m.type # "status.idle" =>
                  \A n \in MessagesOf(t) : published[n].type \notin TerminalTypes
            /\ m.type = "status.idle" =>
                  \E n \in MessagesOf(t) : published[n].type \in TerminalTypes
        BY <3>1, <3>3 DEF TurnInv, EndsFit, Fits
      <4>3. ASSUME NEW n \in MessagesOf(t)
            PROVE  /\ published'[n].type = "status.running"
                          <=> \A k \in MessagesOf(t)' : n <= k
                   /\ published'[n].type \in TerminalTypes =>
                          \A k \in MessagesOf(t)' : n < k => published'[k].type = "status.idle"
                   /\ published'[n].type # "status.idle"
        BY <1>1, <1>2, <4>1, <4>2 DEF Framed
      <4>4. /\ ~ \A k \in MessagesOf(t)' : last <= k
            /\ \A k \in MessagesOf(t)' : k <= last
        BY <1>1, <1>2, <4>1
      <4>5. m.type = "status.idle" =>
                \E k \in MessagesOf(t)' : published'[k].type \in TerminalTypes
        BY <1>1, <1>2, <4>2
      <4>6. \A k \in MessagesOf(t)' : ~ (last < k)
        BY <1>1, <1>2, <4>4
      <4> QED  BY <1>1, <1>2, <2>2, <4>1, <4>3, <4>4, <4>5, <4>6 DEF Framed
    <3> QED  BY <3>2, <3>3 DEF Fits
  <2> QED  BY <2>1, <2>2
<1>5. Pc(t) # "idle" => traceID = t
  BY DEF Fits, TurnInv, OneOwner, Owning
<1>6. OwnerSpeaks'
  BY <1>1, <1>5 DEF FrameInv, OwnerSpeaks, Fits
<1>7. ASSUME NEW n \in DOMAIN published', NEW i \in DOMAIN published',
             NEW k \in DOMAIN published',
             n < i, i < k, published'[n].trace = published'[k].trace,
             published'[n].trace # published'[i].trace
      PROVE  "status.idle" \in {published'[i].type, published'[k].type}
  <2>1. n \in DOMAIN published /\ i \in DOMAIN published
    BY <1>1, <1>7
  <2>2. CASE k = last
    BY <1>1, <1>5, <1>7, <2>1, <2>2 DEF FrameInv, OwnerSpeaks, Fits
  <2>3. CASE k # last
    BY <1>1, <1>7, <2>1, <2>3 DEF FrameInv, TurnsAreFramed
  <2> QED  BY <2>2, <2>3
<1>8. TurnsAreFramed'
  BY <1>4, <1>7 DEF TurnsAreFramed
<1> QED  BY <1>3, <1>6, <1>8 DEF FrameInv

LEMMA FrameInvariance == Spec => []FrameInv
<1>1. Init => FrameInv
  BY DEF Init, FrameInv, TurnsAreFramed, Framed, MessagesOf, Placed, OwnerSpeaks, Pc
<1>2. TurnInv /\ FrameInv /\ [Next]_vars => FrameInv'
  <2> SUFFICES ASSUME TurnInv, FrameInv, [Next]_vars PROVE FrameInv'
    OBVIOUS
  <2>1. ASSUME NEW t \in Traces,
               EmitRunning(t) \/ EmitEvent(t) \/ EmitTerminal(t) \/ EmitIdle(t)
        PROVE  FrameInv'
    BY <2>1, EmitFits, FitsKeepsFrames
  <2>2. ASSUME NEW t \in Traces, Start(t)
        PROVE  FrameInv'
    <3>1. MessagesOf(t) = {} /\ traceID' = t /\ UNCHANGED published
      BY <2>2 DEF Start, FrameInv, Placed
    <3>2. \A s \in Traces :
             /\ Pc(s)' \in {"none", "starting"} <=> Pc(s) \in {"none", "starting"}
             /\ Pc(s)' = "done" <=> Pc(s) = "done"
      BY <2>2 DEF Start, Goto, TurnInv, Goroutines, Pc
    <3> QED  BY <3>1, <3>2, SilentKeepsFrames
  <2>3. ASSUME NEW t \in Traces,
               \/ TurnStarted(t) \/ Output(t)
               \/ \E i \in Items, type \in ItemTypes : ItemEvent(t, i, type)
               \/ \E result \in Results : RunReturns(t, result)
               \/ Decide(t) \/ Collect(t) \/ Reset(t)
        PROVE  FrameInv'
    <3>1. UNCHANGED published /\ traceID' \in {traceID, NoTrace}
      BY <2>3 DEF TurnStarted, Output, ItemEvent, RunReturns, Decide, Collect, Reset
    <3>2. \A s \in Traces :
             /\ Pc(s)' \in {"none", "starting"} <=> Pc(s) \in {"none", "starting"}
             /\ Pc(s)' = "done" <=> Pc(s) = "done"
      BY <2>3 DEF TurnStarted, Output, ItemEvent, RunReturns, Decide, Collect, Reset,
                  EmitNext, Goto, TurnInv, Goroutines, Pc
    <3> QED  BY <3>1, <3>2, SilentKeepsFrames
  <2>4. CASE \/ \E t \in Traces : Deadline(t)
             \/ \E q \in Traces \cup {NoTrace} : Interrupt(q)
             \/ Close \/ UNCHANGED vars
    <3>1. UNCHANGED <<traceID, exec, published>>
      BY <2>4 DEF Deadline, Interrupt, Close, vars
    <3> QED  BY <3>1, SilentKeepsFrames DEF Pc
  <2> QED  BY <2>1, <2>2, <2>3, <2>4 DEF Next, Results
<1> QED  BY <1>1, <1>2, TurnInvariance, PTL DEF Spec

\* The stream of messages falls into frames, one for each turn, whole, with one outcome
\* each and not interleaved, but for an idle status that comes late (TurnsAreFramed).
THEOREM TurnsFramed == Spec => []TurnsAreFramed
<1>1. FrameInv => TurnsAreFramed
  BY DEF FrameInv
<1> QED  BY <1>1, FrameInvariance, PTL

-----------------------------------------------------------------------------
(* Catching up *)

\* The item event that the goroutine of t has stored and not yet published.
InHand(t) == Pc(t) = "emit" /\ exec[t].msg.type \in ItemTypes

Upto(t, n) == {k \in ItemEventsOf(t) : k <= n}

\* What is published of a turn is numbered in its order.
Ordered(t) ==
    \A n \in ItemEventsOf(t) : /\ published[n].item \in Items
                               /\ published[n].seq = Cardinality(Upto(t, n))

\* What is stored of the item of m reflects m, or replaces it, or is cut before it.
Held(m) ==
    LET item == liveItems[m.item] IN
    /\ m.seq <= lastSequence
    /\ item # Unknown
    /\ \/ m.seq \in item.events
       \/ \A k \in item.events : k > m.seq
       \/ item.cut /\ \A k \in item.events : k < m.seq

\* What is stored comes from events that have happened, and so does each known item.
Stored ==
    \A i \in Items :
        /\ liveItems[i].events \subseteq 1..lastSequence
        /\ liveItems[i] # Unknown => liveItems[i].since \in 1..lastSequence

\* What the turn that owns the controller has stored is what it has published and what
\* it has in hand.
UpToDate(t) ==
    /\ Stored
    /\ lastSequence = Cardinality(ItemEventsOf(t)) + IF InHand(t) THEN 1 ELSE 0
    /\ \A n \in ItemEventsOf(t) : Held(published[n])
    /\ InHand(t) => /\ exec[t].msg.item \in Items /\ exec[t].msg.seq = lastSequence
                    /\ Held(exec[t].msg)

CatchUpInv == \A t \in Traces : Ordered(t) /\ (traceID = t => UpToDate(t))

\* What a goroutine publishes is what it has in hand, or no report.
LEMMA EmitsWhatIsInHand ==
  ASSUME TurnInv, NEW t \in Traces,
         EmitRunning(t) \/ EmitEvent(t) \/ EmitTerminal(t) \/ EmitIdle(t)
  PROVE  \E m \in Message :
            /\ Emit(m) /\ m.trace = t
            /\ UNCHANGED <<traceID, snapshotVars>>
            /\ IF Pc(t) = "emit" THEN m = exec[t].msg ELSE m.type \notin ReportTypes
            /\ m.type \in TerminalTypes <=> Pc(t) = "terminal"
            /\ Pc(t)' = "reset" <=> Pc(t) = "terminal"
            /\ Pc(t)' = "reset" => exec'[t].type = m.type
            /\ Pc(t)' # "emit"
            /\ \A s \in Traces \ {t} : exec'[s] = exec[s]
<1> USE DEF TerminalTypes, StatusTypes, ItemTypes, MessageTypes, ReportTypes
<1>1. \A type \in MessageTypes : /\ Plain(type, t) \in Message
                                 /\ Plain(type, t).trace = t /\ Plain(type, t).type = type
  BY MaxReportsAssumption DEF Plain, Message
<1>2. DOMAIN exec = Traces /\ exec[t] \in ExecStates(t)
  BY DEF TurnInv, Goroutines
<1>3. CASE EmitRunning(t)
  BY <1>1, <1>2, <1>3 DEF EmitRunning, Goto, Pc
<1>4. CASE EmitEvent(t)
  <2>1. exec[t].msg \in Reportable(t)
    BY <1>2, <1>4 DEF EmitEvent, ExecStates, Pc
  <2> QED  BY <1>2, <1>4, <2>1 DEF EmitEvent, Goto, Pc, Reportable
<1>5. CASE EmitTerminal(t)
  <2>1. exec[t].type \in TerminalTypes
    BY <1>2, <1>5 DEF EmitTerminal, ExecStates, Pc
  <2> QED  BY <1>1, <1>2, <1>5, <2>1 DEF EmitTerminal, Goto, Pc
<1>6. CASE EmitIdle(t)
  BY <1>1, <1>2, <1>6 DEF EmitIdle, Goto, Pc
<1> QED  BY <1>3, <1>4, <1>5, <1>6

LEMMA ItemEventsAreFinite ==
  ASSUME published \in Seq(Message), NEW t
  PROVE  IsFiniteSet(ItemEventsOf(t)) /\ Cardinality(ItemEventsOf(t)) \in Nat
<1>1. DOMAIN published = 1..Len(published) /\ Len(published) \in Nat
  OBVIOUS
<1>2. IsFiniteSet(DOMAIN published)
  BY <1>1, FS_Interval
<1> QED  BY <1>2, FS_Subset, FS_CardinalityType DEF ItemEventsOf, MessagesOf

\* A message counts as an item event of its turn if it is one.
LEMMA EmitItemEvents ==
  ASSUME published \in Seq(Message), NEW m \in Message, Emit(m), NEW t \in Traces
  PROVE  /\ Cardinality(ItemEventsOf(t)) \in Nat
         /\ IF m.trace = t /\ m.type \in ItemTypes
              THEN /\ ItemEventsOf(t)' = ItemEventsOf(t) \cup {Len(published) + 1}
                   /\ Cardinality(ItemEventsOf(t)') = Cardinality(ItemEventsOf(t)) + 1
              ELSE ItemEventsOf(t)' = ItemEventsOf(t)
<1>1. IsFiniteSet(ItemEventsOf(t)) /\ Cardinality(ItemEventsOf(t)) \in Nat
  BY ItemEventsAreFinite
<1>2. ItemEventsOf(t)' = ItemEventsOf(t) \cup
          IF m.trace = t /\ m.type \in ItemTypes THEN {Len(published) + 1} ELSE {}
  BY EmitAppends DEF ItemEventsOf, MessagesOf
<1>3. Len(published) + 1 \notin ItemEventsOf(t)
  BY EmitAppends DEF ItemEventsOf, MessagesOf
<1>4. CASE m.trace = t /\ m.type \in ItemTypes
  <2>1. ItemEventsOf(t)' = ItemEventsOf(t) \cup {Len(published) + 1}
    BY <1>2, <1>4
  <2>2. Cardinality(ItemEventsOf(t)') = Cardinality(ItemEventsOf(t)) + 1
    BY <1>1, <1>3, <2>1, FS_AddElement
  <2> QED  BY <1>1, <1>4, <2>1, <2>2
<1> QED  BY <1>1, <1>2, <1>4

LEMMA EmitKeepsOrder ==
  ASSUME TurnInv, NEW m \in Message, Emit(m), NEW t \in Traces, Ordered(t),
         m.trace = t /\ m.type \in ItemTypes =>
            m.item \in Items /\ m.seq = Cardinality(ItemEventsOf(t)) + 1
  PROVE  Ordered(t)'
<1> DEFINE last == Len(published) + 1
<1>1. /\ published \in Seq(Message) /\ last \in Nat
      /\ \A n \in DOMAIN published : n \in Nat /\ n < last /\ published'[n] = published[n]
      /\ published'[last] = m
  <2>1. published \in Seq(Message)
    BY DEF TurnInv, EndsFit
  <2> QED  BY <2>1, EmitAppends
<1>2. IF m.trace = t /\ m.type \in ItemTypes
        THEN /\ ItemEventsOf(t)' = ItemEventsOf(t) \cup {last}
             /\ Cardinality(ItemEventsOf(t)') = Cardinality(ItemEventsOf(t)) + 1
        ELSE ItemEventsOf(t)' = ItemEventsOf(t)
  BY <1>1, EmitItemEvents
<1> HIDE DEF last
<1>3. \A n \in ItemEventsOf(t) : n \in DOMAIN published
  BY DEF ItemEventsOf, MessagesOf
<1>4. \A n \in ItemEventsOf(t) :
         {k \in ItemEventsOf(t)' : k <= n} = {k \in ItemEventsOf(t) : k <= n}
  BY <1>1, <1>2, <1>3
<1>5. ASSUME NEW n \in ItemEventsOf(t)'
      PROVE  /\ published'[n].item \in Items
             /\ published'[n].seq = Cardinality({k \in ItemEventsOf(t)' : k <= n})
  <2>1. CASE n \in ItemEventsOf(t)
    BY <1>1, <1>3, <1>4, <2>1 DEF Ordered, Upto
  <2>2. CASE n \notin ItemEventsOf(t)
    <3>1. n = last /\ m.trace = t /\ m.type \in ItemTypes
      BY <1>2, <2>2
    <3>2. {k \in ItemEventsOf(t)' : k <= n} = ItemEventsOf(t)'
      BY <1>1, <1>2, <1>3, <3>1
    <3> QED  BY <1>1, <1>2, <3>1, <3>2
  <2> QED  BY <2>1, <2>2
<1> QED  BY <1>5 DEF Ordered, Upto

LEMMA EmitKeepsCatchUp ==
  ASSUME TurnInv, CatchUpInv, NEW t \in Traces,
         EmitRunning(t) \/ EmitEvent(t) \/ EmitTerminal(t) \/ EmitIdle(t)
  PROVE  CatchUpInv'
<1>1. PICK m \in Message :
          /\ Emit(m) /\ m.trace = t
          /\ UNCHANGED <<traceID, snapshotVars>>
          /\ IF Pc(t) = "emit" THEN m = exec[t].msg ELSE m.type \notin ReportTypes
          /\ Pc(t)' # "emit"
          /\ \A s \in Traces \ {t} : exec'[s] = exec[s]
  BY EmitsWhatIsInHand
<1>2. /\ published \in Seq(Message)
      /\ \A n \in DOMAIN published : published'[n] = published[n]
      /\ published'[Len(published) + 1] = m
  <2>1. published \in Seq(Message)
    BY DEF TurnInv, EndsFit
  <2> QED  BY <1>1, <2>1, EmitAppends
<1>3. m.type \in ItemTypes <=> InHand(t)
  BY <1>1 DEF InHand, ReportTypes
<1>4. InHand(t) => m = exec[t].msg /\ traceID = t
  BY <1>1 DEF InHand, TurnInv, OneOwner, Owning
<1>5. InHand(t) => /\ m.item \in Items /\ m.seq = Cardinality(ItemEventsOf(t)) + 1
                   /\ m.seq = lastSequence /\ Held(m)
  BY <1>4 DEF CatchUpInv, UpToDate
<1>6. \A c : Held(c)' <=> Held(c)
  BY <1>1 DEF Held, snapshotVars
<1>7. Stored' <=> Stored
  BY <1>1 DEF Stored, snapshotVars
<1>8. ASSUME NEW s \in Traces
      PROVE  Ordered(s)'
  BY <1>1, <1>3, <1>5, EmitKeepsOrder DEF CatchUpInv
<1>9. ASSUME NEW s \in Traces, traceID' = s
      PROVE  UpToDate(s)'
  <2>1. UpToDate(s) /\ lastSequence' = lastSequence
    BY <1>1, <1>9 DEF CatchUpInv, snapshotVars
  <2>2. CASE s = t
    <3>1. ~ InHand(t)'
      BY <1>1 DEF InHand
    <3>2. IF InHand(t)
            THEN /\ ItemEventsOf(t)' = ItemEventsOf(t) \cup {Len(published) + 1}
                 /\ Cardinality(ItemEventsOf(t)') = Cardinality(ItemEventsOf(t)) + 1
            ELSE ItemEventsOf(t)' = ItemEventsOf(t)
      BY <1>1, <1>2, <1>3, EmitItemEvents
    <3>3. Cardinality(ItemEventsOf(t)) \in Nat
      BY <1>1, <1>2, EmitItemEvents
    <3>4. lastSequence' = Cardinality(ItemEventsOf(t)')
      BY <2>1, <2>2, <3>2, <3>3 DEF UpToDate
    <3>5. ASSUME NEW n \in ItemEventsOf(t)'
          PROVE  Held(published'[n])
      <4>1. CASE n \in ItemEventsOf(t)
        BY <1>2, <2>1, <2>2, <4>1 DEF UpToDate, ItemEventsOf, MessagesOf
      <4>2. CASE n \notin ItemEventsOf(t)
        BY <1>2, <1>5, <3>2, <4>2
      <4> QED  BY <4>1, <4>2
    <3>6. \A n \in ItemEventsOf(t)' : Held(published[n])'
      BY <1>6, <3>5 DEF Held
    <3>7. lastSequence' = Cardinality(ItemEventsOf(t)') + IF InHand(t)' THEN 1 ELSE 0
      BY <1>1, <1>2, <3>1, <3>2, <3>3, <3>4
    <3> QED  BY <1>7, <2>1, <2>2, <3>1, <3>6, <3>7 DEF UpToDate
  <2>3. CASE s # t
    <3>1. ItemEventsOf(s)' = ItemEventsOf(s)
      BY <1>1, <1>2, <2>3, EmitItemEvents
    <3>2. /\ exec'[s] = exec[s]
          /\ \A n \in ItemEventsOf(s) : published'[n] = published[n]
      BY <1>1, <1>2, <2>3 DEF ItemEventsOf, MessagesOf
    <3>3. InHand(s)' <=> InHand(s)
      BY <3>2 DEF InHand, Pc
    <3>4. lastSequence' = Cardinality(ItemEventsOf(s)') + IF InHand(s)' THEN 1 ELSE 0
      BY <2>1, <3>1, <3>3 DEF UpToDate
    <3>5. \A n \in ItemEventsOf(s)' : Held(published[n])'
      BY <1>1, <2>1, <3>1, <3>2 DEF UpToDate, Stored, Held, snapshotVars
    <3>6. InHand(s)' => /\ exec'[s].msg.item \in Items /\ exec'[s].msg.seq = lastSequence'
                        /\ Held(exec[s].msg)'
      BY <1>1, <2>1, <3>2, <3>3 DEF UpToDate, Stored, Held, snapshotVars
    <3> QED  BY <1>7, <2>1, <3>4, <3>5, <3>6 DEF UpToDate
  <2> QED  BY <2>2, <2>3
<1> QED  BY <1>8, <1>9 DEF CatchUpInv

\* A step that publishes nothing and leaves what is stored as it is.
LEMMA SilentKeepsCatchUp ==
  ASSUME CatchUpInv, UNCHANGED <<published, liveItems, lastSequence>>,
         traceID' \in {traceID, NoTrace},
         \A t \in Traces : traceID = t =>
            (InHand(t)' <=> InHand(t)) /\ (InHand(t) => exec'[t].msg = exec[t].msg)
  PROVE  CatchUpInv'
<1>1. \A c : Held(c)' <=> Held(c)
  BY DEF Held
<1>2. ASSUME NEW t \in Traces
      PROVE  ItemEventsOf(t)' = ItemEventsOf(t) /\ Ordered(t)'
  BY DEF CatchUpInv, Ordered, Upto, ItemEventsOf, MessagesOf
<1>3. ASSUME NEW t \in Traces, traceID' = t
      PROVE  UpToDate(t)'
  <2>1. UpToDate(t) /\ traceID = t
    BY <1>3, NoTraceAssumption DEF CatchUpInv
  <2>2. lastSequence' = Cardinality(ItemEventsOf(t)') + IF InHand(t)' THEN 1 ELSE 0
    BY <1>2, <2>1 DEF UpToDate
  <2>3. \A n \in ItemEventsOf(t)' : Held(published[n])'
    BY <1>2, <2>1 DEF UpToDate, Stored, Held
  <2>4. InHand(t)' => /\ exec'[t].msg.item \in Items /\ exec'[t].msg.seq = lastSequence'
                      /\ Held(exec[t].msg)'
    BY <2>1 DEF UpToDate, Stored, Held
  <2>5. Stored'
    BY <2>1 DEF UpToDate, Stored
  <2> QED  BY <2>2, <2>3, <2>4, <2>5 DEF UpToDate
<1> QED  BY <1>2, <1>3 DEF CatchUpInv

\* A new turn has published nothing.
LEMMA StartKeepsCatchUp ==
  ASSUME TurnInv, FrameInv, CatchUpInv, NEW t \in Traces, Start(t)
  PROVE  CatchUpInv'
<1>1. /\ Pc(t) = "none" /\ traceID' = t /\ published' = published /\ lastSequence' = 0
      /\ exec'[t] = [pc |-> "starting"]
  BY DEF Start, Goto, TurnInv, Goroutines
<1>2. ASSUME NEW s \in Traces
      PROVE  ItemEventsOf(s)' = ItemEventsOf(s) /\ Ordered(s)'
  BY <1>1 DEF CatchUpInv, Ordered, Upto, ItemEventsOf, MessagesOf
<1>3. ItemEventsOf(t)' = {} /\ ~ InHand(t)'
  BY <1>1, <1>2 DEF FrameInv, Placed, ItemEventsOf, InHand, Pc
<1>4. UpToDate(t)'
  <2>1. lastSequence' = Cardinality(ItemEventsOf(t)') + IF InHand(t)' THEN 1 ELSE 0
    BY <1>1, <1>3, FS_EmptySet
  <2>2. Stored'
    BY DEF Start, NoItems, Unknown, Stored
  <2> QED  BY <1>3, <2>1, <2>2 DEF UpToDate
<1> QED  BY <1>1, <1>2, <1>4 DEF CatchUpInv

\* What is stored of an item holds the event that is stored, and of the earlier ones each
\* that it does not replace, or is cut before them.
LEMMA StoredHoldsEarlier ==
  ASSUME NEW type, NEW item \in [since : Nat, events : SUBSET Nat, cut : BOOLEAN],
         NEW seq \in Nat, NEW cut \in BOOLEAN, NEW n \in Nat, n < seq, item # Unknown,
         \/ n \in item.events
         \/ \A k \in item.events : k > n
         \/ item.cut /\ \A k \in item.events : k < n
  PROVE  LET new == StoredItem(type, item, seq, cut) IN
         /\ new.since = item.since
         /\ \/ n \in new.events
            \/ \A k \in new.events : k > n
            \/ new.cut /\ \A k \in new.events : k < n
BY DEF StoredItem

LEMMA StoredHoldsItself ==
  ASSUME NEW type, NEW item \in [since : Nat, events : SUBSET Nat, cut : BOOLEAN],
         NEW seq \in Nat, NEW cut \in BOOLEAN, seq > 0,
         \A k \in item.events : 0 < k /\ k < seq,
         item # Unknown => item.since \in 1..seq
  PROVE  LET new == StoredItem(type, item, seq, cut) IN
         /\ new.since \in 1..seq
         /\ \A k \in new.events : 0 < k /\ k <= seq
         /\ \/ seq \in new.events
            \/ new.cut /\ \A k \in new.events : k < seq
BY DEF StoredItem

LEMMA ItemEventKeepsCatchUp ==
  ASSUME TurnInv, CatchUpInv, NEW t \in Traces, NEW i \in Items, NEW type \in ItemTypes,
         ItemEvent(t, i, type)
  PROVE  CatchUpInv'
<1> DEFINE m == [type |-> type, trace |-> t, item |-> i, seq |-> lastSequence + 1]
           Item == [since : Nat, events : SUBSET Nat, cut : BOOLEAN]
<1>1. /\ Pc(t) = "running" /\ traceID = t /\ traceID' = t /\ published' = published
      /\ lastSequence \in Nat /\ lastSequence' = lastSequence + 1
      /\ DOMAIN liveItems = Items
      /\ exec'[t] = [pc |-> "emit", msg |-> m]
  BY MaxReportsAssumption DEF ItemEvent, EmitNext, Goto, TurnInv, Goroutines, Numbered
<1>2. PICK cut \in BOOLEAN :
          liveItems' = [liveItems EXCEPT
                           ![i] = StoredItem(type, liveItems[i], lastSequence + 1, cut)]
  BY DEF ItemEvent
<1>3. \A k \in Items : liveItems[k] \in Item
  BY MaxReportsAssumption DEF TurnInv, Numbered, LiveItem
<1>4. ASSUME NEW s \in Traces
      PROVE  ItemEventsOf(s)' = ItemEventsOf(s) /\ Ordered(s)'
  BY <1>1 DEF CatchUpInv, Ordered, Upto, ItemEventsOf, MessagesOf
<1>5. UpToDate(t) /\ ~ InHand(t) /\ InHand(t)' /\ exec'[t].msg = m
  BY <1>1 DEF CatchUpInv, InHand, Pc
<1>6. lastSequence' = Cardinality(ItemEventsOf(t)') + IF InHand(t)' THEN 1 ELSE 0
  <2>1. lastSequence = Cardinality(ItemEventsOf(t))
    <3>1. Cardinality(ItemEventsOf(t)) \in Nat
      BY ItemEventsAreFinite DEF TurnInv, EndsFit
    <3> QED  BY <1>5, <3>1 DEF UpToDate
  <2> HIDE DEF m
  <2> QED  BY <1>1, <1>4, <1>5, <2>1
<1> DEFINE new == StoredItem(type, liveItems[i], lastSequence + 1, cut)
<1>7. liveItems'[i] = new /\ \A k \in Items \ {i} : liveItems'[k] = liveItems[k]
  BY <1>1, <1>2
<1>8. Stored
  BY <1>5 DEF UpToDate
<1>9. /\ new.since \in 1..(lastSequence + 1)
      /\ \A k \in new.events : 0 < k /\ k <= lastSequence + 1
      /\ \/ lastSequence + 1 \in new.events
         \/ new.cut /\ \A k \in new.events : k < lastSequence + 1
  <2>1. \A k \in liveItems[i].events : 0 < k /\ k < lastSequence + 1
    BY <1>1, <1>8 DEF Stored
  <2>2. liveItems[i] # Unknown => liveItems[i].since \in 1..(lastSequence + 1)
    BY <1>1, <1>8 DEF Stored
  <2> HIDE DEF new, Item
  <2>3. liveItems[i] \in Item /\ lastSequence + 1 \in Nat /\ lastSequence + 1 > 0
    BY <1>1, <1>3
  <2> QED  BY <2>1, <2>2, <2>3, StoredHoldsItself DEF new, Item
<1>10. \A k \in new.events : k \in Nat
  BY <1>1, <1>3 DEF StoredItem
<1> HIDE DEF new
<1>11. Stored'
  <2>1. ASSUME NEW k \in Items \ {i}
        PROVE  /\ liveItems'[k].events \subseteq 1..lastSequence'
               /\ liveItems'[k] # Unknown => liveItems'[k].since \in 1..lastSequence'
    BY <1>1, <1>7, <1>8 DEF Stored
  <2>2. /\ liveItems'[i].events \subseteq 1..lastSequence'
        /\ liveItems'[i].since \in 1..lastSequence'
    BY <1>1, <1>7, <1>9, <1>10
  <2> QED  BY <2>1, <2>2 DEF Stored
<1>12. new # Unknown
  BY <1>9 DEF Unknown
<1>13. ASSUME NEW n \in ItemEventsOf(t)
      PROVE  Held(published[n])'
  <2>1. /\ published[n].item \in Items /\ published[n].seq \in Nat
        /\ Held(published[n])
    <3>1. published[n] \in Message
      BY DEF ItemEventsOf, MessagesOf, TurnInv, EndsFit
    <3>2. published[n].seq \in Nat
      BY <3>1, MaxReportsAssumption DEF Message
    <3> QED  BY <1>1, <1>5, <3>2 DEF CatchUpInv, Ordered, UpToDate
  <2>2. PICK c : c = published[n]
    OBVIOUS
  <2>3. /\ c.seq \in Nat /\ c.item \in Items /\ c.seq <= lastSequence
        /\ liveItems[c.item] # Unknown
        /\ \/ c.seq \in liveItems[c.item].events
           \/ \A k \in liveItems[c.item].events : k > c.seq
           \/ liveItems[c.item].cut /\ \A k \in liveItems[c.item].events : k < c.seq
    BY <2>1, <2>2 DEF Held
  <2>4. c.seq <= lastSequence' /\ c.seq < lastSequence + 1 /\ lastSequence + 1 \in Nat
    BY <1>1, <2>3
  <2>5. /\ liveItems'[c.item] # Unknown
        /\ \/ c.seq \in liveItems'[c.item].events
           \/ \A k \in liveItems'[c.item].events : k > c.seq
           \/ liveItems'[c.item].cut /\ \A k \in liveItems'[c.item].events : k < c.seq
    <3>1. CASE c.item = i
      <4> HIDE DEF Item
      <4>1. liveItems[i] \in Item
        BY <1>3
      <4>2. \/ c.seq \in new.events
            \/ \A k \in new.events : k > c.seq
            \/ new.cut /\ \A k \in new.events : k < c.seq
        BY <2>3, <2>4, <3>1, <4>1, StoredHoldsEarlier DEF new, Item
      <4> QED  BY <1>7, <1>12, <3>1, <4>2
    <3>2. CASE c.item # i
      BY <1>7, <2>3, <3>2
    <3> QED  BY <3>1, <3>2
  <2> QED  BY <1>1, <2>2, <2>4, <2>5 DEF Held
<1>14. /\ exec'[t].msg.item \in Items /\ exec'[t].msg.seq = lastSequence'
       /\ Held(exec[t].msg)'
  <2>1. m.item = i /\ m.seq = lastSequence + 1
    OBVIOUS
  <2> HIDE DEF m
  <2> QED  BY <1>1, <1>5, <1>7, <1>9, <1>12, <2>1 DEF Held
<1>15. UpToDate(t)'
  BY <1>1, <1>4, <1>6, <1>11, <1>13, <1>14 DEF UpToDate
<1> QED  BY <1>1, <1>4, <1>15 DEF CatchUpInv

\* A snapshot leaves out the oldest items only, and then it is marked.
LEMMA HeldIsCovered ==
  ASSUME Stored, NEW m, m.item \in Items, Held(m), NEW snapshot \in Snapshots
  PROVE  Covered(m, snapshot)
<1>1. PICK n \in 0..lastSequence :
          /\ snapshot.liveItems = Fit(n).items
          /\ snapshot.liveItemsTruncated = Fit(n).truncated
          /\ snapshot.lastSequence = lastSequence
  BY DEF Snapshots
<1>2. liveItems[m.item] # Unknown /\ liveItems[m.item].since \in 1..lastSequence
  BY DEF Held, Stored
<1>3. CASE liveItems[m.item].since <= n
  <2>1. Fit(n).items[m.item] = Unknown
    BY <1>3 DEF Fit
  <2>2. liveItems[m.item].since \in 1..n
    BY <1>1, <1>2, <1>3
  <2>3. Fit(n).truncated
    BY <2>2 DEF Fit
  <2> QED  BY <1>1, <2>1, <2>3 DEF Covered, Held
<1>4. CASE ~ liveItems[m.item].since <= n
  <2>1. Fit(n).items[m.item] = liveItems[m.item]
    BY <1>4 DEF Fit
  <2> QED  BY <1>1, <1>2, <2>1 DEF Covered, Held
<1> QED  BY <1>3, <1>4

\* A client that takes a snapshot at any moment and applies what is published behind it
\* misses nothing that the snapshot does not mark as missing, and one that follows the
\* stream can tell (ClientsCanCatchUp), for any number of turns, items and events, and
\* whatever texts are cut and items left out.
THEOREM TurnClientsCatchUp == Spec => []ClientsCanCatchUp
<1>1. Init => CatchUpInv
  BY NoTraceAssumption DEF Init, CatchUpInv, Ordered, ItemEventsOf, MessagesOf
<1>2. TurnInv /\ FrameInv /\ CatchUpInv /\ [Next]_vars => CatchUpInv'
  <2> SUFFICES ASSUME TurnInv, FrameInv, CatchUpInv, [Next]_vars PROVE CatchUpInv'
    OBVIOUS
  <2>1. ASSUME NEW t \in Traces,
               EmitRunning(t) \/ EmitEvent(t) \/ EmitTerminal(t) \/ EmitIdle(t)
        PROVE  CatchUpInv'
    BY <2>1, EmitKeepsCatchUp
  <2>2. ASSUME NEW t \in Traces,
               Start(t) \/ \E i \in Items, type \in ItemTypes : ItemEvent(t, i, type)
        PROVE  CatchUpInv'
    BY <2>2, StartKeepsCatchUp, ItemEventKeepsCatchUp
  <2>3. ASSUME NEW t \in Traces,
               \/ TurnStarted(t) \/ Output(t)
               \/ \E result \in Results : RunReturns(t, result)
               \/ Decide(t) \/ Collect(t)
        PROVE  CatchUpInv'
    <3>1. /\ UNCHANGED <<published, liveItems, lastSequence, traceID>>
          /\ \A s \in Traces \ {t} : exec'[s] = exec[s]
          /\ Pc(t) # "emit"
          /\ Pc(t)' = "emit" => exec'[t].msg.type \in {"turn.started", "turn.output"}
      BY <2>3 DEF TurnStarted, Output, RunReturns, Decide, Collect, EmitNext, Goto, Plain,
                  snapshotVars, TurnInv, Goroutines, Pc
    <3>2. ASSUME NEW s \in Traces
          PROVE  (InHand(s)' <=> InHand(s)) /\ (InHand(s) => exec'[s].msg = exec[s].msg)
      BY <3>1 DEF InHand, ItemTypes, Pc
    <3> QED  BY <3>1, <3>2, SilentKeepsCatchUp
  <2>4. ASSUME NEW t \in Traces, Reset(t)
        PROVE  CatchUpInv'
    <3>1. traceID' = NoTrace /\ published' = published
      BY <2>4, ResetKeepsInv
    <3>2. \A s \in Traces : Ordered(s)'
      BY <3>1 DEF CatchUpInv, Ordered, Upto, ItemEventsOf, MessagesOf
    <3> QED  BY <3>1, <3>2, NoTraceAssumption DEF CatchUpInv
  <2>5. CASE \/ \E t \in Traces : Deadline(t)
             \/ \E q \in Traces \cup {NoTrace} : Interrupt(q)
             \/ Close \/ UNCHANGED vars
    <3>1. UNCHANGED <<traceID, exec, published, liveItems, lastSequence>>
      BY <2>5 DEF Deadline, Interrupt, Close, vars, snapshotVars
    <3> QED  BY <3>1, SilentKeepsCatchUp DEF InHand, Pc
  <2> QED  BY <2>1, <2>2, <2>3, <2>4, <2>5 DEF Next, Results
<1>3. CatchUpInv => ClientsCanCatchUp
  <2> SUFFICES ASSUME CatchUpInv, NEW t \in Traces, NEW n \in ItemEventsOf(t)
               PROVE  /\ published[n].seq = Cardinality({k \in ItemEventsOf(t) : k <= n})
                      /\ t = traceID => \A snapshot \in Snapshots :
                                            Covered(published[n], snapshot)
    BY DEF ClientsCanCatchUp
  <2>1. published[n].item \in Items
    BY DEF CatchUpInv, Ordered
  <2>2. published[n].seq = Cardinality({k \in ItemEventsOf(t) : k <= n})
    BY DEF CatchUpInv, Ordered, Upto
  <2>3. ASSUME t = traceID
        PROVE  \A snapshot \in Snapshots : Covered(published[n], snapshot)
    <3>1. Stored /\ Held(published[n])
      BY <2>3 DEF CatchUpInv, UpToDate
    <3> QED  BY <2>1, <3>1, HeldIsCovered
  <2> QED  BY <2>2, <2>3
<1> QED  BY <1>1, <1>2, <1>3, TurnInvariance, FrameInvariance, PTL DEF Spec

-----------------------------------------------------------------------------
(* The output and the outcome in the snapshot *)

\* The ring holds the last lines of the turn that owns the controller, those of the
\* message in its hand included.
LinesOf(t) ==
    /\ \A n \in DOMAIN logs : logs[n] = t
    /\ Len(logs) = IF Added(t) > LogLines THEN LogLines ELSE Added(t)

HoldsOutput(t) == Pc(t) = "emit" /\ exec[t].msg.type = "turn.output"

OutputInv ==
    \A t \in Traces :
        traceID = t => /\ LinesOf(t)
                       /\ HoldsOutput(t) => exec[t].msg = Plain("turn.output", t)

\* The last end in the stream is that of the turn that is about to leave, and then the
\* one the idle controller remembers.
OutcomeInv ==
    /\ traceID = NoTrace => IsLastOutcome(lastTerminal)
    /\ \A t \in Traces : Pc(t) = "reset" => IsLastOutcome(exec[t].type)

SnapshotInv == OutputInv /\ OutcomeInv

\* A line of output counts for its turn.
LEMMA EmitOutputs ==
  ASSUME published \in Seq(Message), NEW m \in Message, Emit(m), NEW t \in Traces
  PROVE  /\ OutputsOf(t) \in Nat
         /\ OutputsOf(t)' = OutputsOf(t) + IF m = Plain("turn.output", t) THEN 1 ELSE 0
<1> DEFINE line == Plain("turn.output", t)
           Lines == {n \in DOMAIN published : published[n] = line}
<1>1. IsFiniteSet(Lines) /\ Cardinality(Lines) \in Nat
  <2>1. DOMAIN published = 1..Len(published) /\ Len(published) \in Nat
    OBVIOUS
  <2>2. IsFiniteSet(DOMAIN published)
    BY <2>1, FS_Interval
  <2> QED  BY <2>2, FS_Subset, FS_CardinalityType
<1>2. line' = line
  BY DEF Plain
<1> HIDE DEF line
<1>3. {n \in DOMAIN published' : published'[n] = line}
         = Lines \cup IF m = line THEN {Len(published) + 1} ELSE {}
  BY EmitAppends
<1>4. Len(published) + 1 \notin Lines
  BY EmitAppends
<1>5. Cardinality(Lines \cup {Len(published) + 1}) = Cardinality(Lines) + 1
  BY <1>1, <1>4, FS_AddElement
<1>6. OutputsOf(t) = Cardinality(Lines)
      /\ OutputsOf(t)' = Cardinality({n \in DOMAIN published' : published'[n] = line})
  BY <1>2 DEF OutputsOf, line
<1>7. CASE m = line
  <2>1. OutputsOf(t)' = Cardinality(Lines) + 1
    BY <1>3, <1>5, <1>6, <1>7
  <2> QED  BY <1>1, <1>6, <1>7, <2>1 DEF line
<1>8. CASE m # line
  <2>1. OutputsOf(t)' = Cardinality(Lines)
    BY <1>3, <1>6, <1>8
  <2> QED  BY <1>1, <1>6, <1>8, <2>1 DEF line
<1> QED  BY <1>7, <1>8

\* A terminal message is the last one, and others leave the last one in its place.
LEMMA EmitOutcome ==
  ASSUME published \in Seq(Message), NEW m \in Message, Emit(m), NEW type
  PROVE  IF m.type \in TerminalTypes THEN IsLastOutcome(m.type)'
         ELSE IsLastOutcome(type) => IsLastOutcome(type)'
<1> DEFINE last == Len(published) + 1
<1>1. /\ last \in Nat
      /\ \A n \in DOMAIN published : n \in Nat /\ n < last /\ published'[n] = published[n]
      /\ published'[last] = m
      /\ DOMAIN published' = DOMAIN published \cup {last}
  <2>1. last \in Nat /\ \A n \in DOMAIN published : n \in Nat /\ n < last
    OBVIOUS
  <2> QED  BY <2>1, EmitAppends
<1> HIDE DEF last
<1>2. Ends' = Ends \cup IF m.type \in TerminalTypes THEN {last} ELSE {}
  BY <1>1 DEF Ends
<1>3. \A n \in Ends : n \in DOMAIN published
  BY DEF Ends
<1>4. CASE m.type \in TerminalTypes
  <2>1. last \in Ends' /\ \A n \in Ends' : n <= last
    BY <1>1, <1>2, <1>3, <1>4
  <2> QED  BY <1>1, <1>4, <2>1 DEF IsLastOutcome
<1>5. CASE m.type \notin TerminalTypes
  BY <1>1, <1>2, <1>3, <1>5 DEF IsLastOutcome
<1> QED  BY <1>4, <1>5

LEMMA EmitKeepsSnapshot ==
  ASSUME TurnInv, SnapshotInv, NEW t \in Traces,
         EmitRunning(t) \/ EmitEvent(t) \/ EmitTerminal(t) \/ EmitIdle(t)
  PROVE  SnapshotInv'
<1>1. PICK m \in Message :
          /\ Emit(m) /\ m.trace = t
          /\ UNCHANGED <<traceID, snapshotVars>>
          /\ IF Pc(t) = "emit" THEN m = exec[t].msg ELSE m.type \notin ReportTypes
          /\ m.type \in TerminalTypes <=> Pc(t) = "terminal"
          /\ Pc(t)' = "reset" <=> Pc(t) = "terminal"
          /\ Pc(t)' = "reset" => exec'[t].type = m.type
          /\ Pc(t)' # "emit"
          /\ \A s \in Traces \ {t} : exec'[s] = exec[s]
  BY EmitsWhatIsInHand
<1>2. published \in Seq(Message)
  BY DEF TurnInv, EndsFit
<1>3. ASSUME NEW s \in Traces, traceID' = s
      PROVE  /\ LinesOf(s)'
             /\ HoldsOutput(s)' => exec'[s].msg = Plain("turn.output", s)
  <2>1. traceID = s /\ UNCHANGED logs
    BY <1>1, <1>3 DEF snapshotVars
  <2>2. LinesOf(s) /\ (HoldsOutput(s) => exec[s].msg = Plain("turn.output", s))
    BY <2>1 DEF SnapshotInv, OutputInv
  <2>3. /\ OutputsOf(s) \in Nat
        /\ OutputsOf(s)' = OutputsOf(s) + IF m = Plain("turn.output", s) THEN 1 ELSE 0
    BY <1>1, <1>2, EmitOutputs
  <2>4. Plain("turn.output", s).type = "turn.output" /\ Plain("turn.output", s).trace = s
    BY DEF Plain
  <2>5. Added(s)' = Added(s) /\ (HoldsOutput(s)' => HoldsOutput(s) /\ exec'[s] = exec[s])
    <3>1. CASE s = t
      <4>1. ~ HoldsOutput(t)' /\ Added(t)' = OutputsOf(t)'
        <5>1. ~ HoldsOutput(t)' /\ OutputsOf(t)' \in Nat
          BY <1>1, <2>3, <3>1 DEF HoldsOutput
        <5> QED  BY <5>1 DEF HoldsOutput, Added
      <4>2. m = Plain("turn.output", t) <=> HoldsOutput(t)
        BY <1>1, <2>2, <2>4, <3>1 DEF HoldsOutput, ReportTypes
      <4>3. Added(t) = OutputsOf(t) + IF HoldsOutput(t) THEN 1 ELSE 0
        BY DEF Added, HoldsOutput
      <4> QED  BY <2>3, <3>1, <4>1, <4>2, <4>3
    <3>2. CASE s # t
      <4>1. exec'[s] = exec[s] /\ m # Plain("turn.output", s)
        BY <1>1, <2>4, <3>2
      <4>2. OutputsOf(s)' = OutputsOf(s)
        BY <2>3, <4>1
      <4> QED  BY <4>1, <4>2 DEF Added, HoldsOutput, Pc
    <3> QED  BY <3>1, <3>2
  <2> QED  BY <2>1, <2>2, <2>5 DEF LinesOf
<1>4. OutcomeInv'
  <2>1. ASSUME NEW s \in Traces, Pc(s)' = "reset"
        PROVE  IsLastOutcome(exec[s].type)'
    <3>1. CASE s = t
      <4>1. m.type \in TerminalTypes /\ exec'[t].type = m.type
        BY <1>1, <2>1, <3>1
      <4>2. IsLastOutcome(m.type)'
        BY <1>1, <1>2, <4>1, EmitOutcome
      <4> QED  BY <3>1, <4>1, <4>2 DEF IsLastOutcome
    <3>2. CASE s # t
      <4>1. exec'[s] = exec[s] /\ Pc(s) = "reset"
        BY <1>1, <2>1, <3>2 DEF Pc
      <4>2. traceID = s
        BY <4>1 DEF TurnInv, OneOwner, Owning
      <4>3. m.type \notin TerminalTypes
        BY <1>1, <3>2, <4>2 DEF TurnInv, OneOwner, Owning
      <4>4. IsLastOutcome(exec[s].type)
        BY <4>1 DEF SnapshotInv, OutcomeInv
      <4>5. PICK type : type = exec[s].type
        OBVIOUS
      <4>6. IsLastOutcome(type)'
        BY <1>1, <1>2, <4>3, <4>4, <4>5, EmitOutcome
      <4> QED  BY <4>1, <4>5, <4>6 DEF IsLastOutcome
    <3> QED  BY <3>1, <3>2
  <2>2. ASSUME traceID' = NoTrace
        PROVE  IsLastOutcome(lastTerminal)'
    <3>1. traceID = NoTrace /\ lastTerminal' = lastTerminal
      BY <1>1, <2>2 DEF snapshotVars
    <3>2. m.type \notin TerminalTypes
      BY <1>1, <3>1, NoTraceAssumption DEF TurnInv, OneOwner, Owning
    <3>3. PICK type : type = lastTerminal
      OBVIOUS
    <3>4. IsLastOutcome(type)'
      BY <1>1, <1>2, <3>1, <3>2, <3>3, EmitOutcome DEF SnapshotInv, OutcomeInv
    <3> QED  BY <3>1, <3>3, <3>4 DEF IsLastOutcome
  <2> QED  BY <2>1, <2>2 DEF OutcomeInv
<1> QED  BY <1>3, <1>4 DEF SnapshotInv, OutputInv, Plain

\* A step that publishes nothing and adds no line.
LEMMA SilentKeepsSnapshot ==
  ASSUME SnapshotInv, UNCHANGED <<published, logs, lastTerminal, traceID>>,
         \A t \in Traces :
            /\ HoldsOutput(t)' <=> HoldsOutput(t)
            /\ HoldsOutput(t) => exec'[t] = exec[t]
            /\ Pc(t)' = "reset" => Pc(t) = "reset" /\ exec'[t] = exec[t]
  PROVE  SnapshotInv'
<1>1. ASSUME NEW t \in Traces
      PROVE  Added(t)' = Added(t)
  BY DEF Added, HoldsOutput, OutputsOf, Plain
<1>2. OutputInv'
  BY <1>1 DEF SnapshotInv, OutputInv, LinesOf, Plain
<1>3. OutcomeInv'
  BY DEF SnapshotInv, OutcomeInv, IsLastOutcome, Ends
<1> QED  BY <1>2, <1>3 DEF SnapshotInv

LEMMA OutputKeepsSnapshot ==
  ASSUME TurnInv, SnapshotInv, NEW t \in Traces, Output(t)
  PROVE  SnapshotInv'
<1>1. /\ Pc(t) = "running" /\ traceID = t /\ UNCHANGED <<traceID, published, lastTerminal>>
      /\ logs' = RingAdd(logs, t)
      /\ exec'[t] = [pc |-> "emit", msg |-> Plain("turn.output", t)]
      /\ \A s \in Traces \ {t} : exec'[s] = exec[s]
  BY DEF Output, EmitNext, Goto, TurnInv, Goroutines, OneOwner, Owning
<1>2. LinesOf(t) /\ ~ HoldsOutput(t)
  BY <1>1 DEF SnapshotInv, OutputInv, HoldsOutput
<1>3. OutputsOf(t) \in Nat /\ OutputsOf(t)' = OutputsOf(t)
  <2>1. published \in Seq(Message) /\ DOMAIN published = 1..Len(published)
    BY DEF TurnInv, EndsFit
  <2>2. IsFiniteSet(DOMAIN published)
    BY <2>1, FS_Interval
  <2> QED  BY <1>1, <2>2, FS_Subset, FS_CardinalityType DEF OutputsOf, Plain
<1>4. HoldsOutput(t)' /\ exec'[t].msg = Plain("turn.output", t)
  BY <1>1 DEF HoldsOutput, Pc, Plain
<1>5. Added(t) = OutputsOf(t) /\ Added(t)' = OutputsOf(t) + 1
  <2>1. Added(t) = OutputsOf(t) + IF HoldsOutput(t) THEN 1 ELSE 0
    BY DEF Added, HoldsOutput
  <2>2. Added(t)' = OutputsOf(t)' + IF HoldsOutput(t)' THEN 1 ELSE 0
    BY DEF Added, HoldsOutput
  <2> QED  BY <1>2, <1>3, <1>4, <2>1, <2>2
<1>6. LinesOf(t)'
  <2>1. /\ logs \in Seq(Traces) /\ \A n \in DOMAIN logs : logs[n] = t
        /\ Len(logs) = IF OutputsOf(t) > LogLines THEN LogLines ELSE OutputsOf(t)
    BY <1>2, <1>5 DEF LinesOf, TurnInv, Fields
  <2>2. \A n \in DOMAIN logs' : logs'[n] = t
    BY <1>1, <2>1, LogLinesAssumption, SMT DEF RingAdd
  <2>3. Len(logs') = IF Len(logs) < LogLines THEN Len(logs) + 1 ELSE Len(logs)
    BY <1>1, <2>1, LogLinesAssumption, SMT DEF RingAdd
  <2>4. Len(logs') = IF OutputsOf(t) + 1 > LogLines THEN LogLines ELSE OutputsOf(t) + 1
    BY <1>3, <2>1, <2>3, LogLinesAssumption
  <2> QED  BY <1>5, <2>2, <2>4 DEF LinesOf
<1>7. OutputInv'
  BY <1>1, <1>4, <1>6 DEF OutputInv, Plain
<1>8. OutcomeInv'
  BY <1>1 DEF SnapshotInv, OutcomeInv, IsLastOutcome, Ends, Pc
<1> QED  BY <1>7, <1>8 DEF SnapshotInv

LEMMA StartKeepsSnapshot ==
  ASSUME TurnInv, FrameInv, SnapshotInv, NEW t \in Traces, Start(t)
  PROVE  SnapshotInv'
<1>1. /\ Pc(t) = "none" /\ traceID = NoTrace /\ traceID' = t
      /\ published' = published /\ logs' = << >> /\ exec'[t] = [pc |-> "starting"]
      /\ \A s \in Traces \ {t} : exec'[s] = exec[s]
  BY DEF Start, Goto, TurnInv, Goroutines
<1>2. ~ HoldsOutput(t)' /\ \A s \in Traces : Pc(s)' # "reset"
  <2>1. \A s \in Traces : Pc(s) # "reset"
    BY <1>1, NoTraceAssumption DEF TurnInv, OneOwner, Owning
  <2> QED  BY <1>1, <2>1 DEF HoldsOutput, Pc
<1>3. Added(t)' = 0
  <2>1. MessagesOf(t) = {}
    BY <1>1 DEF FrameInv, Placed
  <2>2. {n \in DOMAIN published' : published'[n] = Plain("turn.output", t)} = {}
    BY <1>1, <2>1 DEF MessagesOf, Plain
  <2>3. OutputsOf(t)' = 0
    BY <2>2, FS_EmptySet DEF OutputsOf, Plain
  <2> QED  BY <1>2, <2>3 DEF Added, HoldsOutput
<1>4. LinesOf(t)'
  <2>1. Len(logs') = 0 /\ \A n \in DOMAIN logs' : logs'[n] = t
    BY <1>1
  <2> QED  BY <1>3, <2>1, LogLinesAssumption DEF LinesOf
<1>5. OutcomeInv'
  BY <1>1, <1>2, NoTraceAssumption DEF OutcomeInv
<1> QED  BY <1>1, <1>2, <1>4, <1>5 DEF SnapshotInv, OutputInv

LEMMA ResetKeepsSnapshot ==
  ASSUME TurnInv, SnapshotInv, NEW t \in Traces, Reset(t)
  PROVE  SnapshotInv'
<1>1. /\ traceID = t /\ traceID' = NoTrace /\ published' = published
      /\ Pc(t) = "reset" /\ Pc(t)' = "idle" /\ lastTerminal' = exec[t].type
      /\ \A s \in Traces \ {t} : exec'[s] = exec[s]
  BY ResetKeepsInv DEF Reset, Goto, TurnInv, Goroutines, Pc
<1>2. \A type : IsLastOutcome(type)' <=> IsLastOutcome(type)
  BY <1>1 DEF IsLastOutcome, Ends
<1>3. PICK type : type = exec[t].type
  OBVIOUS
<1>4. IsLastOutcome(lastTerminal)'
  <2>1. IsLastOutcome(type)'
    BY <1>1, <1>2, <1>3 DEF SnapshotInv, OutcomeInv
  <2> QED  BY <1>1, <1>3, <2>1 DEF IsLastOutcome
<1>5. \A s \in Traces : Pc(s)' # "reset"
  BY <1>1 DEF TurnInv, OneOwner, Owning, Pc
<1> QED  BY <1>1, <1>4, <1>5, NoTraceAssumption DEF SnapshotInv, OutputInv, OutcomeInv

\* The snapshot of a running turn carries the last lines of that turn and no others, and
\* that of an idle agent the outcome of the last turn (SnapshotIsOfItsTurn), for any
\* number of turns and lines.
THEOREM TurnSnapshots == Spec => []SnapshotIsOfItsTurn
<1>1. Init => SnapshotInv
  <2> SUFFICES ASSUME Init PROVE SnapshotInv
    OBVIOUS
  <2>1. Ends = {} /\ lastTerminal = "none"
    BY DEF Init, Ends
  <2> QED
    BY <2>1, NoTraceAssumption DEF Init, SnapshotInv, OutputInv, OutcomeInv,
       IsLastOutcome, Pc
<1>2. TurnInv /\ FrameInv /\ SnapshotInv /\ [Next]_vars => SnapshotInv'
  <2> SUFFICES ASSUME TurnInv, FrameInv, SnapshotInv, [Next]_vars PROVE SnapshotInv'
    OBVIOUS
  <2>1. ASSUME NEW t \in Traces,
               EmitRunning(t) \/ EmitEvent(t) \/ EmitTerminal(t) \/ EmitIdle(t)
        PROVE  SnapshotInv'
    BY <2>1, EmitKeepsSnapshot
  <2>2. ASSUME NEW t \in Traces, Start(t) \/ Output(t) \/ Reset(t)
        PROVE  SnapshotInv'
    BY <2>2, StartKeepsSnapshot, OutputKeepsSnapshot, ResetKeepsSnapshot
  <2>3. ASSUME NEW t \in Traces,
               \/ TurnStarted(t)
               \/ \E i \in Items, type \in ItemTypes : ItemEvent(t, i, type)
               \/ \E result \in Results : RunReturns(t, result)
               \/ Decide(t) \/ Collect(t)
        PROVE  SnapshotInv'
    <3>1. /\ UNCHANGED <<published, logs, lastTerminal, traceID>>
          /\ \A s \in Traces \ {t} : exec'[s] = exec[s]
          /\ Pc(t) # "emit" /\ Pc(t)' # "reset"
          /\ Pc(t)' = "emit" => exec'[t].msg.type # "turn.output"
      BY <2>3 DEF TurnStarted, ItemEvent, ItemTypes, RunReturns, Decide, Collect, EmitNext,
                  Goto, Plain, snapshotVars, TurnInv, Goroutines, Pc
    <3>2. ASSUME NEW s \in Traces
          PROVE  /\ HoldsOutput(s)' <=> HoldsOutput(s)
                 /\ HoldsOutput(s) => exec'[s] = exec[s]
                 /\ Pc(s)' = "reset" => Pc(s) = "reset" /\ exec'[s] = exec[s]
      BY <3>1 DEF HoldsOutput, Pc
    <3> QED  BY <3>1, <3>2, SilentKeepsSnapshot
  <2>4. CASE \/ \E t \in Traces : Deadline(t)
             \/ \E q \in Traces \cup {NoTrace} : Interrupt(q)
             \/ Close \/ UNCHANGED vars
    <3>1. UNCHANGED <<traceID, exec, published, logs, lastTerminal>>
      BY <2>4 DEF Deadline, Interrupt, Close, vars, snapshotVars
    <3> QED  BY <3>1, SilentKeepsSnapshot DEF HoldsOutput, Pc
  <2> QED  BY <2>1, <2>2, <2>3, <2>4 DEF Next, Results
<1>3. TurnInv /\ SnapshotInv => SnapshotIsOfItsTurn
  <2> SUFFICES ASSUME TurnInv, SnapshotInv, NEW snapshot \in Snapshots
               PROVE  LET output == snapshot.recentOutput
                          added == Added(snapshot.traceID)
                      IN  IF snapshot.traceID # NoTrace
                            THEN /\ \A n \in DOMAIN output : output[n] = snapshot.traceID
                                 /\ Len(output) = IF added > LogLines THEN LogLines ELSE added
                            ELSE IsLastOutcome(snapshot.lastTerminal)
    BY DEF SnapshotIsOfItsTurn
  <2>1. /\ snapshot.traceID = traceID /\ snapshot.recentOutput = logs
        /\ snapshot.lastTerminal = lastTerminal
    BY DEF Snapshots
  <2> QED  BY <2>1 DEF TurnInv, Fields, SnapshotInv, OutputInv, OutcomeInv, LinesOf
<1> QED  BY <1>1, <1>2, <1>3, TurnInvariance, FrameInvariance, PTL DEF Spec
=============================================================================
