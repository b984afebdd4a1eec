---------------------- MODULE AppServerRunner_proofs ----------------------
(***************************************************************************)
(* Theorems about the client of the app-server and the runner on top of    *)
(* it, for any number of callers, Runs, calls and items, any capacity of   *)
(* the channel, and whatever the app-server does.                          *)
(*                                                                         *)
(* ClientTracksCalls rests on where an id can be: in the map, then in the  *)
(* hands of the reader or in the channel of its call, and in the map no    *)
(* more.                                                                   *)
(*                                                                         *)
(* RunnerMissesNothing rests on where an item can be: in the pipe, in the  *)
(* hands of the reader, in the channel of the Run, or passed on.  The three*)
(* places hold consecutive numbers behind those passed on, and nothing     *)
(* comes after the end of the turn.  No item is dropped for want of a      *)
(* handler, because a turn exists only in phases in which the handler is   *)
(* the one of its Run (Control).                                           *)
(***************************************************************************)
EXTENDS AppServerRunner, Integers, TLAPS

-----------------------------------------------------------------------------
(* The map of calls *)

\* What the invariant is about; the handler and what the app-server does are not in it.
trackedVars == <<nextID, pending, channels, call, reader, readErr>>

\* Ids are handed out once.
IdsAreOwn ==
    /\ nextID \in Nat /\ DOMAIN call = Callers
    /\ \A id \in pending : id \in Nat /\ id <= nextID
    /\ \A c \in Callers : InCall(c) => call[c].id \in Nat /\ call[c].id <= nextID
    /\ \A c, d \in Callers : InCall(c) /\ InCall(d) /\ call[c].id = call[d].id => c = d

\* An id that has left the map for its response is not in it again.
ResponsesAreOut ==
    /\ \A response \in channels : response.id \in Nat /\ response.id <= nextID
                                  /\ response.id \notin pending
    /\ reader.pc = "deliver" => /\ reader.id \in Nat /\ reader.id <= nextID
                                /\ reader.id \notin pending

FinishedIsEmpty == readErr # "none" => pending = {}

ClientInv == IdsAreOwn /\ ResponsesAreOut /\ FinishedIsEmpty /\ CallsAreTracked

LEMMA InitClient == Init => ClientInv
  BY DEF Init, ClientInit, ClientInv, IdsAreOwn, ResponsesAreOut, FinishedIsEmpty,
         CallsAreTracked, InCall, Idle, Scanning

LEMMA Untouched ==
  ASSUME ClientInv, UNCHANGED trackedVars
  PROVE  ClientInv'
  BY DEF ClientInv, trackedVars, IdsAreOwn, ResponsesAreOut, FinishedIsEmpty,
         CallsAreTracked, InCall

\* A call that returns takes its entry with it.
LEMMA ReturningKeepsInv ==
  ASSUME ClientInv, NEW c \in Callers, NEW outcome,
         outcome \notin {"registered", "writing", "waiting"}, Return(c, outcome),
         InCall(c), call[c].id \notin pending',
         pending' = pending \/ pending' = pending \ {call[c].id},
         \/ channels' = channels
         \/ \E response \in channels :
               response.id = call[c].id /\ channels' = channels \ {response},
         UNCHANGED <<nextID, reader, readErr>>
  PROVE  ClientInv'
<1>1. /\ DOMAIN call' = Callers /\ call'[c].pc = outcome
      /\ \A d \in Callers \ {c} : call'[d] = call[d]
  BY DEF Return, ClientInv, IdsAreOwn
<1>2. ~ InCall(c)' /\ \A d \in Callers \ {c} : InCall(d)' <=> InCall(d)
  BY <1>1 DEF InCall
<1>3. IdsAreOwn'
  BY <1>1, <1>2 DEF ClientInv, IdsAreOwn
<1>4. ResponsesAreOut'
  BY DEF ClientInv, ResponsesAreOut
<1>5. FinishedIsEmpty'
  BY DEF ClientInv, FinishedIsEmpty
<1>6. ASSUME NEW id \in pending'
      PROVE  \E d \in Callers : InCall(d)' /\ call'[d].id = id
  <2>1. PICK d \in Callers : InCall(d) /\ call[d].id = id
    BY <1>6 DEF ClientInv, CallsAreTracked
  <2>2. d # c
    BY <1>6, <2>1
  <2> QED  BY <1>1, <1>2, <2>1, <2>2
<1>7. ASSUME NEW d \in Callers, InCall(d)', readErr' = "none"
      PROVE  \/ call'[d].id \in pending'
             \/ reader'.pc = "deliver" /\ reader'.id = call'[d].id
             \/ \E response \in channels' : response.id = call'[d].id
  <2>1. d # c /\ InCall(d) /\ call'[d] = call[d]
    BY <1>1, <1>2, <1>7
  <2>2. InCall(c) => call[c].id # call[d].id
    BY <2>1 DEF ClientInv, IdsAreOwn
  <2>3. \/ call[d].id \in pending
        \/ reader.pc = "deliver" /\ reader.id = call[d].id
        \/ \E response \in channels : response.id = call[d].id
    BY <1>7, <2>1 DEF ClientInv, CallsAreTracked
  <2> QED  BY <2>1, <2>2, <2>3
<1>8. CallsAreTracked'
  BY <1>6, <1>7 DEF CallsAreTracked
<1> QED  BY <1>3, <1>4, <1>5, <1>8 DEF ClientInv

LEMMA RegisterKeepsInv ==
  ASSUME ClientInv, NEW c \in Callers, NEW method, Register(c, method)
  PROVE  ClientInv'
<1>1. call[c] = Idle /\ ~ InCall(c) /\ nextID' = nextID + 1 /\ nextID \in Nat
      /\ UNCHANGED <<channels, reader, readErr>>
  BY DEF Register, InCall, Idle, ClientInv, IdsAreOwn
<1>2. CASE readErr # "none"
  <2>1. Return(c, "failed") /\ pending' = pending
    BY <1>2 DEF Register
  <2>2. /\ DOMAIN call' = Callers /\ ~ InCall(c)'
        /\ \A d \in Callers \ {c} : call'[d] = call[d]
    BY <2>1 DEF Return, ClientInv, IdsAreOwn, InCall
  <2>3. pending = {}
    BY <1>2 DEF ClientInv, FinishedIsEmpty
  <2>4. IdsAreOwn'
    BY <1>1, <2>1, <2>2, <2>3 DEF ClientInv, IdsAreOwn, InCall
  <2> QED
    BY <1>1, <1>2, <2>1, <2>3, <2>4
       DEF ClientInv, ResponsesAreOut, FinishedIsEmpty, CallsAreTracked
<1>3. CASE readErr = "none"
  <2> DEFINE id == nextID + 1
  <2>1. /\ pending' = pending \cup {id} /\ DOMAIN call' = Callers
        /\ call'[c] = [pc |-> "registered", id |-> id, method |-> method]
        /\ \A d \in Callers \ {c} : call'[d] = call[d]
    BY <1>3 DEF Register, ClientInv, IdsAreOwn
  <2>2. InCall(c)' /\ call'[c].id = id
        /\ \A d \in Callers \ {c} : InCall(d)' <=> InCall(d)
    BY <2>1 DEF InCall
  <2>3. IdsAreOwn'
    BY <1>1, <2>1, <2>2 DEF ClientInv, IdsAreOwn
  <2>4. ResponsesAreOut'
    BY <1>1, <2>1 DEF ClientInv, ResponsesAreOut
  <2>5. FinishedIsEmpty'
    BY <1>1, <1>3 DEF FinishedIsEmpty
  <2>6. \A i \in pending' : \E d \in Callers : InCall(d)' /\ call'[d].id = i
    <3>1. \A i \in pending : \E d \in Callers \ {c} : InCall(d) /\ call[d].id = i
      BY <1>1 DEF ClientInv, CallsAreTracked
    <3> QED  BY <2>1, <2>2, <3>1
  <2>7. CallsAreTracked'
    BY <1>1, <2>1, <2>2, <2>6 DEF ClientInv, CallsAreTracked
  <2> QED  BY <2>3, <2>4, <2>5, <2>7 DEF ClientInv
<1> QED  BY <1>2, <1>3

\* The branches of a call.
LEMMA CallKeepsInv ==
  ASSUME ClientInv, NEW c \in Callers,
         Lock(c) \/ Send(c) \/ CallAnswered(c) \/ CallCanceled(c) \/ CallClosed(c)
  PROVE  ClientInv'
<1>1. InCall(c)
  BY DEF Lock, Send, CallAnswered, CallCanceled, CallClosed, InCall
<1>2. CASE /\ Lock(c) \/ Send(c)
           /\ \E pc \in {"writing", "waiting"} : call' = [call EXCEPT ![c].pc = pc]
           /\ pending' = pending
  <2>1. /\ DOMAIN call' = Callers /\ \A d \in Callers : call'[d].id = call[d].id
        /\ \A d \in Callers : InCall(d)' <=> InCall(d)
    BY <1>1, <1>2 DEF ClientInv, IdsAreOwn, InCall
  <2> QED
    BY <1>2, <2>1 DEF Lock, Send, ClientInv, IdsAreOwn, ResponsesAreOut,
                      FinishedIsEmpty, CallsAreTracked
<1>3. CASE Send(c) /\ Return(c, "failed") /\ pending' = pending \ {call[c].id}
  BY <1>1, <1>3, ReturningKeepsInv DEF Send
<1>4. CASE CallAnswered(c)
  <2>1. PICK response \in channels :
           /\ response.id = call[c].id /\ channels' = channels \ {response}
           /\ Return(c, IF response.ok THEN "ok" ELSE "failed")
    BY <1>4 DEF CallAnswered
  <2>2. call[c].id \notin pending /\ UNCHANGED <<nextID, pending, reader, readErr>>
    BY <1>4, <2>1 DEF CallAnswered, ClientInv, ResponsesAreOut
  <2> QED  BY <1>1, <2>1, <2>2, ReturningKeepsInv
<1>5. CASE CallCanceled(c)
  BY <1>1, <1>5, ReturningKeepsInv DEF CallCanceled
<1>6. CASE CallClosed(c)
  <2>1. pending = {}
    BY <1>6 DEF CallClosed, ClientInv, FinishedIsEmpty
  <2> QED  BY <1>1, <1>6, <2>1, ReturningKeepsInv DEF CallClosed
<1> QED  BY <1>2, <1>3, <1>4, <1>5, <1>6 DEF Lock, Send

\* What finish does, once or again.
LEMMA FinishKeepsInv ==
  ASSUME ClientInv, NEW err, err # "none", Finish(err),
         UNCHANGED <<nextID, channels, call>>,
         \/ reader.pc # "deliver" /\ reader'.pc # "deliver"
         \/ reader' = reader
  PROVE  ClientInv'
<1>1. CASE readErr = "none"
  BY <1>1 DEF Finish, ClientInv, IdsAreOwn, ResponsesAreOut, FinishedIsEmpty,
              CallsAreTracked, InCall
<1>2. CASE readErr # "none"
  BY <1>2 DEF Finish, ClientInv, IdsAreOwn, ResponsesAreOut, FinishedIsEmpty,
              CallsAreTracked, InCall
<1> QED  BY <1>1, <1>2

LEMMA ReaderKeepsInv ==
  ASSUME ClientInv, Scan \/ Deliver \/ HandlerReturns \/ LockReader \/ Refused
  PROVE  ClientInv'
<1>1. UNCHANGED <<nextID, call, readErr>>
  BY DEF Scan, Deliver, HandlerReturns, LockReader, Refused
<1>2. CASE Scan
  <2> DEFINE line == Head(output)
  <2>1. reader.pc = "scan" /\ channels' = channels
    BY <1>2 DEF Scan, Scanning
  <2>2. CASE /\ line.kind = "response" /\ line.id \in pending
             /\ reader' = [pc |-> "deliver", id |-> line.id, ok |-> line.ok]
             /\ pending' = pending \ {line.id}
    BY <1>1, <2>1, <2>2 DEF ClientInv, IdsAreOwn, ResponsesAreOut, FinishedIsEmpty,
                            CallsAreTracked, InCall
  <2>3. CASE reader'.pc # "deliver" /\ pending' = pending
    BY <1>1, <2>1, <2>3 DEF ClientInv, IdsAreOwn, ResponsesAreOut, FinishedIsEmpty,
                            CallsAreTracked, InCall
  <2>4. \/ /\ line.kind = "response" /\ line.id \in pending
           /\ reader' = [pc |-> "deliver", id |-> line.id, ok |-> line.ok]
           /\ pending' = pending \ {line.id}
        \/ reader'.pc # "deliver" /\ pending' = pending
    <3>1. CASE line.kind = "response" /\ line.id \in pending
      BY <1>2, <2>1, <3>1 DEF Scan
    <3>2. CASE line.kind = "response" /\ line.id \notin pending
      <4>1. pending \ {line.id} = pending
        BY <3>2
      <4>2. reader' = Scanning /\ pending' = pending \ {line.id}
        BY <1>2, <3>2 DEF Scan
      <4> QED  BY <4>1, <4>2 DEF Scanning
    <3>3. CASE line.kind \in {"notification", "prompt"}
      BY <1>2, <3>3 DEF Scan, Scanning
    <3> QED  BY <1>2, <3>1, <3>2, <3>3 DEF Scan
  <2> QED  BY <2>2, <2>3, <2>4
<1>3. CASE Deliver
  <2> DEFINE response == [id |-> reader.id, ok |-> reader.ok]
  <2>1. /\ reader.pc = "deliver" /\ reader'.pc = "scan" /\ pending' = pending
        /\ channels' = channels \cup {response} /\ response.id = reader.id
    BY <1>3 DEF Deliver, Scanning
  <2>2. IdsAreOwn' /\ FinishedIsEmpty'
    BY <1>1, <2>1 DEF ClientInv, IdsAreOwn, FinishedIsEmpty, InCall
  <2>3. ResponsesAreOut'
    BY <1>1, <2>1 DEF ClientInv, ResponsesAreOut
  <2>4. CallsAreTracked'
    <3>1. \A c \in Callers : InCall(c)' <=> InCall(c)
      BY <1>1 DEF InCall
    <3>2. \A id \in pending' : \E c \in Callers : InCall(c)' /\ call'[c].id = id
      BY <1>1, <2>1, <3>1 DEF ClientInv, CallsAreTracked
    <3>3. ASSUME NEW c \in Callers, InCall(c)', readErr' = "none"
          PROVE  \/ call'[c].id \in pending'
                 \/ \E rsp \in channels' : rsp.id = call'[c].id
      <4>1. \/ call[c].id \in pending \/ reader.id = call[c].id
            \/ \E rsp \in channels : rsp.id = call[c].id
        BY <1>1, <3>1, <3>3 DEF ClientInv, CallsAreTracked
      <4> QED  BY <1>1, <2>1, <4>1
    <3> QED  BY <3>2, <3>3 DEF CallsAreTracked
  <2> QED  BY <2>2, <2>3, <2>4 DEF ClientInv
<1>4. CASE HandlerReturns \/ LockReader \/ Refused
  <2>1. /\ reader.pc # "deliver" /\ reader'.pc # "deliver"
        /\ UNCHANGED <<pending, channels>>
    BY <1>4 DEF HandlerReturns, LockReader, Refused, Scanning
  <2> QED
    BY <1>1, <2>1 DEF ClientInv, IdsAreOwn, ResponsesAreOut, FinishedIsEmpty,
                      CallsAreTracked, InCall
<1> QED  BY <1>2, <1>3, <1>4

\* The phases of a Run forget a call only when it has returned.
LEMMA CallDoneKeepsInv ==
  ASSUME ClientInv, NEW r \in Callers, CallDone(r)
  PROVE  ClientInv'
<1>1. /\ ~ InCall(r) /\ call' = [call EXCEPT ![r] = Idle]
      /\ UNCHANGED <<nextID, pending, channels, reader, readErr>>
  BY DEF CallDone, Returned, InCall
<1>2. /\ DOMAIN call' = Callers /\ ~ InCall(r)'
      /\ \A d \in Callers \ {r} : call'[d] = call[d] /\ (InCall(d)' <=> InCall(d))
  BY <1>1 DEF ClientInv, IdsAreOwn, InCall, Idle
<1>3. IdsAreOwn'
  BY <1>1, <1>2 DEF ClientInv, IdsAreOwn
<1>4. ResponsesAreOut' /\ FinishedIsEmpty'
  BY <1>1 DEF ClientInv, ResponsesAreOut, FinishedIsEmpty
<1>5. CallsAreTracked'
  BY <1>1, <1>2 DEF ClientInv, CallsAreTracked
<1> QED  BY <1>3, <1>4, <1>5 DEF ClientInv

\* The parts of the invariant hold together.
LEMMA ClientInvariant == Spec => []ClientInv
<1>1. ClientInv /\ [Next]_runnerVars => ClientInv'
  <2> SUFFICES ASSUME ClientInv, [Next]_runnerVars PROVE ClientInv'
    OBVIOUS
  <2>1. ASSUME NEW r \in Runs,
               \/ Begin(r) \/ Install(r) \/ ContextEnds(r) \/ Receive(r) \/ ContextSeen(r)
               \/ CodexItem(r) \/ CodexEndsTurn(r)
        PROVE  ClientInv'
    <3>1. UNCHANGED trackedVars
      BY <2>1 DEF Begin, Install, ContextEnds, Receive, ContextSeen, CodexItem,
                  CodexEndsTurn, Notify, vars, clientVars, trackedVars
    <3> QED  BY <3>1, Untouched
  <2>2. ASSUME NEW r \in Runs, MakeCall(r) \/ CallDone(r) \/ CallTimesOut(r)
        PROVE  ClientInv'
    BY <2>2, RunsAssumption, RegisterKeepsInv, CallDoneKeepsInv, CallKeepsInv
       DEF MakeCall, CallTimesOut
  <2>3. ASSUME NEW c \in Callers, OtherCalls(c) \/ CallStep(c)
        PROVE  ClientInv'
    BY <2>3, RegisterKeepsInv, CallKeepsInv DEF OtherCalls, CallStep
  <2>4. CASE \/ HandlerSends \/ HandlerGivesUp \/ ReaderStep \/ WriteReturns
             \/ LineCannotBeDecoded \/ Shutdown
    <3>1. CASE Scan \/ Deliver \/ HandlerReturns \/ LockReader \/ Refused
      BY <3>1, ReaderKeepsInv
    <3>4. CASE \E c \in Callers : Send(c)
      BY <3>4, CallKeepsInv
    <3>2. CASE ReaderStops \/ ReaderFails
      BY <3>2, FinishKeepsInv DEF ReaderStops, ReaderFails, Scanning
    <3>3. CASE Close
      BY <3>3, FinishKeepsInv DEF Close
    <3> QED
      BY <2>4, <3>1, <3>2, <3>3, <3>4
         DEF HandlerSends, HandlerGivesUp, ReaderStep, WriteReturns, LineCannotBeDecoded,
             Shutdown
  <2>5. CASE \/ \E request \in asked :
                   \/ CodexStartsTurn(request)
                   \/ \E ok \in BOOLEAN : CodexAnswers(request, ok)
             \/ CodexPrompts \/ CodexStops \/ UNCHANGED runnerVars
    <3>1. UNCHANGED trackedVars
      BY <2>5 DEF CodexStartsTurn, CodexAnswers, Answer, CodexPrompts, Prompt, CodexStops,
                  ServerStops, vars, clientVars, runnerVars, trackedVars
    <3> QED  BY <3>1, Untouched
  <2> QED  BY <2>1, <2>2, <2>3, <2>4, <2>5 DEF Next
<1> QED  BY <1>1, InitClient, PTL DEF Spec

\* A call leaves no entry behind and can be reached as long as the client is at work
\* (CallsAreTracked), for any callers, Runs and calls, whatever the app-server does.
THEOREM ClientTracksCalls == Spec => []CallsAreTracked
<1>1. ClientInv => CallsAreTracked
  BY DEF ClientInv
<1> QED  BY <1>1, ClientInvariant, PTL

-----------------------------------------------------------------------------
(* The shape of the state *)

\* The phases that make a call; only "start" calls turn/start.
LEMMA Methods ==
  /\ DOMAIN MethodOf = {"validate", "list", "resume", "create", "start", "interrupt"}
  /\ \A p \in DOMAIN MethodOf : MethodOf[p] = "turn/start" <=> p = "start"
<1>1. DOMAIN MethodOf = {"validate", "list", "resume", "create", "start", "interrupt"}
  BY DEF MethodOf
<1>2. MethodOf["start"] = "turn/start" /\ MethodOf["validate"] # "turn/start"
  /\ MethodOf["list"] # "turn/start" /\ MethodOf["resume"] # "turn/start"
  /\ MethodOf["create"] # "turn/start" /\ MethodOf["interrupt"] # "turn/start"
  BY DEF MethodOf
<1> QED  BY <1>1, <1>2

\* Where Run goes from a phase, case by case.
LEMMA Phases ==
  ASSUME NEW request \in [profile : BOOLEAN, thread : BOOLEAN]
  PROVE /\ NextPhase("idle", request) \in {"validate", "install"}
        /\ NextPhase("validate", request) = "install"
        /\ NextPhase("install", request) \in {"list", "create"}
        /\ NextPhase("list", request) = "resume"
        /\ NextPhase("resume", request) = "start"
        /\ NextPhase("create", request) = "start"
        /\ NextPhase("start", request) = "loop"
  BY DEF NextPhase

\* Phases, what Codex may tell, and lines of the pipe.
Phase == {"idle", "install", "loop", "returned"} \cup DOMAIN MethodOf
Notes ==
    [turn : Runs, kind : {"item"}, status : {"none"}, n : Nat \ {0}]
        \cup [turn : Runs, kind : {"completed"}, status : Statuses, n : {0}]
Lines ==
    [kind : {"response"}, id : Nat, ok : BOOLEAN]
        \cup [kind : {"notification"}, note : Notes]
        \cup [kind : {"prompt"}]

\* The shape of the calls, of the reader and its pipe, and of the Runs and their turns.
CallTyping ==
    /\ nextID \in 0..MaxCalls /\ pending \subseteq 1..nextID
    /\ channels \subseteq [id : 1..nextID, ok : BOOLEAN]
    /\ DOMAIN call = Callers
    /\ \A c \in Callers : InCall(c) => call[c].id \in 1..nextID
    /\ \A request \in asked : request.id \in Nat

ReaderTyping ==
    /\ reader.pc \in {"scan", "deliver", "handle", "refuse", "writing", "stopped"}
    /\ reader.pc = "deliver" => reader.id \in 1..nextID /\ reader.ok \in BOOLEAN
    /\ reader.pc = "handle" => reader.handler \in Runs /\ reader.note \in Notes
    /\ handler \in Runs \cup {NoHandler}
    /\ readErr \in {"none", "stopped", "undecodable", "closed"}
    /\ output \in Seq(Lines)

RunTyping ==
    /\ phase \in [Runs -> Phase]
    /\ req \in [Runs -> [profile : BOOLEAN, thread : BOOLEAN]]
    /\ ctx \in [Runs -> {"none", "live", "done"}]
    /\ events \in [Runs -> Seq(Notes)]
    /\ \A r \in Runs : Len(events[r]) <= EventsCap
    /\ emitted \in [Runs -> Seq(Notes)]
    /\ result \in [Runs -> Statuses \cup {"none", "ctx"}]
    /\ turn \in [Runs -> {"none", "running", "ended"}]
    /\ sent \in [Runs -> 0..MaxItems]

Typing == CallTyping /\ ReaderTyping /\ RunTyping

LEMMA InitTyping == Init => Typing
<1> SUFFICES ASSUME Init PROVE Typing
  OBVIOUS
<1>1. CallTyping
  BY MaxCallsAssumption DEF Init, ClientInit, CallTyping, InCall, Idle
<1>2. ReaderTyping
  BY DEF Init, ClientInit, ReaderTyping, Scanning
<1>3. RunTyping
  BY EventsCapAssumption, MaxItemsAssumption DEF Init, RunTyping, Phase
<1> QED  BY <1>1, <1>2, <1>3 DEF Typing

\* A call: its id is the newest or one handed out before.
LEMMA CallsKeepTyping ==
  ASSUME Typing, NEW c \in Callers, NEW method,
         \/ Register(c, method) \/ Lock(c) \/ Send(c)
         \/ CallAnswered(c) \/ CallCanceled(c) \/ CallClosed(c)
  PROVE  CallTyping' /\ ReaderTyping'
<1>1. /\ nextID \in 0..MaxCalls /\ nextID' \in 0..MaxCalls /\ nextID <= nextID'
      /\ 1..nextID \subseteq 1..nextID'
  BY MaxCallsAssumption
     DEF Typing, CallTyping, Register, Lock, Send, CallAnswered, CallCanceled, CallClosed
<1>2. pending' \subseteq 1..nextID'
  BY <1>1 DEF Typing, CallTyping, Register, Lock, Send, CallAnswered, CallCanceled, CallClosed
<1>3. channels' \subseteq [id : 1..nextID', ok : BOOLEAN]
  <2>1. channels' \subseteq channels
    BY DEF Typing, CallTyping, Register, Lock, Send, CallAnswered, CallCanceled, CallClosed
  <2>2. [id : 1..nextID, ok : BOOLEAN] \subseteq [id : 1..nextID', ok : BOOLEAN]
    BY <1>1
  <2> QED  BY <2>1, <2>2 DEF Typing, CallTyping
<1>4. /\ DOMAIN call' = Callers
      /\ \A d \in Callers : InCall(d)' => call'[d].id \in 1..nextID'
  <2>1. CASE call' = [call EXCEPT ![c] = [pc |-> "registered", id |-> nextID + 1,
                                          method |-> method]]
             /\ nextID' = nextID + 1
    BY <1>1, <2>1 DEF Typing, CallTyping, InCall
  <2>2. CASE /\ \E pc \in {"writing", "waiting"} : call' = [call EXCEPT ![c].pc = pc]
             /\ InCall(c)
    BY <1>1, <2>2 DEF Typing, CallTyping, InCall
  <2>3. ASSUME NEW outcome, outcome \notin {"registered", "writing", "waiting"}, Return(c, outcome)
        PROVE  /\ DOMAIN call' = Callers
               /\ \A d \in Callers : InCall(d)' => call'[d].id \in 1..nextID'
    BY <1>1, <2>3 DEF Typing, CallTyping, InCall, Return
  <2> QED
    BY <2>1, <2>2, <2>3 DEF Register, Lock, Send, CallAnswered, CallCanceled, CallClosed, InCall
<1>5. \A request \in asked' : request.id \in Nat
  BY <1>1 DEF Typing, CallTyping, Register, Lock, Send, CallAnswered, CallCanceled, CallClosed,
              InCall, serverVars
<1>6. ReaderTyping'
  <2>1. UNCHANGED <<reader, handler, readErr, output>>
    BY DEF Register, Lock, Send, CallAnswered, CallCanceled, CallClosed, serverVars
  <2> QED  BY <1>1, <2>1 DEF Typing, ReaderTyping
<1> QED  BY <1>1, <1>2, <1>3, <1>4, <1>5, <1>6 DEF CallTyping

\* readLoop, finish and Close.
LEMMA ReaderKeepsTyping ==
  ASSUME Typing,
         \/ Scan \/ Deliver \/ HandlerReturns \/ LockReader \/ Refused
         \/ ReaderStops \/ ReaderFails \/ Close
  PROVE  CallTyping' /\ ReaderTyping'
<1>1. UNCHANGED <<nextID, call, handler, asked>>
  BY DEF Scan, Deliver, HandlerReturns, LockReader, Refused, ReaderStops, ReaderFails,
         Close, serverVars
<1>2. CASE Scan
  <2>1. output # << >> /\ output \in Seq(Lines) /\ output' = Tail(output)
    BY <1>2 DEF Scan, Typing, ReaderTyping
  <2>2. Head(output) \in Lines /\ output' \in Seq(Lines)
    BY <2>1
  <2>3. UNCHANGED <<channels, readErr>>
    BY <1>2 DEF Scan
  <2>4. pending' \subseteq pending
    BY <1>2 DEF Scan
  <2>5. CallTyping'
    BY <1>1, <2>3, <2>4 DEF Typing, CallTyping, InCall
  <2>6. ASSUME Head(output).kind = "response" PROVE ReaderTyping'
    <3>1. Head(output).ok \in BOOLEAN
      BY <2>2, <2>6 DEF Lines
    <3>2. \/ reader' = Scanning
          \/ /\ Head(output).id \in pending
             /\ reader' = [pc |-> "deliver", id |-> Head(output).id, ok |-> Head(output).ok]
      BY <1>2, <2>6 DEF Scan
    <3>3. CASE reader' = Scanning
      <4>1. reader'.pc = "scan"
        BY <3>3 DEF Scanning
      <4> QED  BY <1>1, <2>2, <2>3, <4>1 DEF Typing, ReaderTyping
    <3>4. CASE /\ Head(output).id \in pending
               /\ reader' = [pc |-> "deliver", id |-> Head(output).id, ok |-> Head(output).ok]
      <4>1. /\ reader'.pc = "deliver" /\ reader'.id \in 1..nextID
            /\ reader'.ok \in BOOLEAN
        BY <3>1, <3>4 DEF Typing, CallTyping
      <4> QED  BY <1>1, <2>2, <2>3, <4>1 DEF Typing, ReaderTyping
    <3> QED  BY <3>2, <3>3, <3>4
  <2>7. ASSUME Head(output).kind = "notification" PROVE ReaderTyping'
    <3>1. Head(output).note \in Notes
      BY <2>2, <2>7 DEF Lines
    <3>2. \/ reader' = Scanning
          \/ /\ handler # NoHandler
             /\ reader' = [pc |-> "handle", handler |-> handler, note |-> Head(output).note]
      BY <1>2, <2>7 DEF Scan
    <3>3. CASE reader' = Scanning
      <4>1. reader'.pc = "scan"
        BY <3>3 DEF Scanning
      <4> QED  BY <1>1, <2>2, <2>3, <4>1 DEF Typing, ReaderTyping
    <3>4. CASE /\ handler # NoHandler
               /\ reader' = [pc |-> "handle", handler |-> handler, note |-> Head(output).note]
      <4>1. handler \in Runs
        BY <3>4 DEF Typing, ReaderTyping
      <4>2. reader'.pc = "handle" /\ reader'.handler \in Runs /\ reader'.note \in Notes
        BY <3>1, <3>4, <4>1
      <4> QED  BY <1>1, <2>2, <2>3, <4>2 DEF Typing, ReaderTyping
    <3> QED  BY <3>2, <3>3, <3>4
  <2>8. ASSUME Head(output).kind = "prompt" PROVE ReaderTyping'
    <3>1. reader'.pc = "refuse"
      BY <1>2, <2>8 DEF Scan
    <3> QED  BY <1>1, <2>2, <2>3, <3>1 DEF Typing, ReaderTyping
  <2> QED  BY <1>2, <2>5, <2>6, <2>7, <2>8 DEF Scan
<1>3. CASE Deliver
  <2>1. /\ reader.pc = "deliver" /\ reader' = Scanning
        /\ channels' = channels \cup {[id |-> reader.id, ok |-> reader.ok]}
        /\ UNCHANGED <<pending, readErr, output>>
    BY <1>3 DEF Deliver, serverVars
  <2>2. [id |-> reader.id, ok |-> reader.ok] \in [id : 1..nextID, ok : BOOLEAN]
    BY <2>1 DEF Typing, ReaderTyping
  <2> QED  BY <1>1, <2>1, <2>2 DEF Typing, CallTyping, ReaderTyping, Scanning, InCall
<1>4. CASE HandlerReturns \/ LockReader \/ Refused
  <2>1. /\ UNCHANGED <<pending, channels, readErr, output>>
        /\ reader'.pc \in {"scan", "writing"}
    BY <1>4 DEF HandlerReturns, LockReader, Refused, Scanning, serverVars
  <2> QED  BY <1>1, <2>1 DEF Typing, CallTyping, ReaderTyping, InCall
<1>5. CASE ReaderStops \/ ReaderFails \/ Close
  <2>1. /\ pending' \subseteq pending /\ channels' = channels
        /\ readErr' \in {readErr, "stopped", "undecodable", "closed"}
        /\ reader'.pc = "stopped" \/ reader' = reader
        /\ output' \in {output, << >>}
    BY <1>5 DEF ReaderStops, ReaderFails, Close, Finish, serverVars
  <2>2. output' \in Seq(Lines)
    <3>1. << >> \in Seq(Lines) /\ output \in Seq(Lines)
      BY DEF Typing, ReaderTyping
    <3> QED  BY <2>1, <3>1
  <2> QED  BY <1>1, <2>1, <2>2 DEF Typing, CallTyping, ReaderTyping, InCall
<1> QED  BY <1>2, <1>3, <1>4, <1>5

LEMMA PhaseStays ==
  ASSUME NEW p \in {"idle"} \cup (DOMAIN MethodOf \ {"interrupt"}) \cup {"install"},
         NEW request \in [profile : BOOLEAN, thread : BOOLEAN]
  PROVE  NextPhase(p, request) \in Phase
  BY Methods, Phases DEF Phase

\* Run on its way: the phases, the context and the result.
LEMMA RunKeepsTyping ==
  ASSUME Typing, NEW r \in Runs,
         \/ Begin(r) \/ Install(r) \/ CallDone(r) \/ ContextEnds(r) \/ ContextSeen(r)
         \/ Receive(r)
  PROVE  ReaderTyping' /\ RunTyping'
<1>1. ReaderTyping'
  <2>1. /\ UNCHANGED <<nextID, reader, readErr, output>>
        /\ handler' \in {handler, r, NoHandler}
    BY DEF Begin, Install, CallDone, ContextEnds, ContextSeen, Receive, RunReturns,
           SetNotificationHandler, vars, clientVars, serverVars
  <2> QED  BY <2>1 DEF Typing, ReaderTyping
<1>2. req' \in [Runs -> [profile : BOOLEAN, thread : BOOLEAN]]
  BY RequestsAssumption DEF Typing, RunTyping, Begin, Install, CallDone, ContextEnds,
                            ContextSeen, Receive
<1>3. ctx' \in [Runs -> {"none", "live", "done"}]
  BY DEF Typing, RunTyping, Begin, Install, CallDone, ContextEnds, ContextSeen, Receive
<1>4. UNCHANGED <<turn, sent>>
  BY DEF Begin, Install, CallDone, ContextEnds, ContextSeen, Receive, codexVars
<1>5. phase' \in [Runs -> Phase]
  <2>1. CASE Begin(r) \/ Install(r)
    <3>1. PICK request \in [profile : BOOLEAN, thread : BOOLEAN] :
             /\ phase[r] \in {"idle", "install"}
             /\ phase' = [phase EXCEPT ![r] = NextPhase(phase[r], request)]
      BY <2>1, RequestsAssumption DEF Begin, Install, Advance, Typing, RunTyping
    <3> QED  BY <3>1, PhaseStays DEF Typing, RunTyping
  <2>2. CASE CallDone(r) /\ Advance(r) /\ phase[r] # "interrupt"
    <3>1. NextPhase(phase[r], req[r]) \in Phase
      BY <2>2, PhaseStays DEF CallDone, Typing, RunTyping
    <3> QED  BY <2>2, <3>1 DEF Advance, Typing, RunTyping
  <2>3. CASE \/ phase' = [phase EXCEPT ![r] = "returned"]
             \/ phase' = [phase EXCEPT ![r] = "interrupt"]
             \/ phase' = phase
    BY <2>3, Methods DEF Typing, RunTyping, Phase
  <2> QED
    BY <2>1, <2>2, <2>3
       DEF CallDone, ContextEnds, ContextSeen, Receive, RunReturns
<1>6. result' \in [Runs -> Statuses \cup {"none", "ctx"}]
  <2>1. CASE Receive(r)
    <3>1. Head(events[r]) \in Notes
      BY <2>1 DEF Receive, Typing, RunTyping
    <3>2. Head(events[r]).kind = "completed" => Head(events[r]).status \in Statuses
      BY <3>1 DEF Notes
    <3> QED
      BY <2>1, <3>2 DEF Receive, RunReturns, Typing, RunTyping
  <2> QED
    BY <2>1 DEF Typing, RunTyping, Begin, Install, CallDone, ContextEnds, ContextSeen,
                RunReturns, Statuses
<1>7. /\ events' \in [Runs -> Seq(Notes)] /\ emitted' \in [Runs -> Seq(Notes)]
      /\ \A q \in Runs : Len(events'[q]) <= EventsCap
  <2>1. CASE Receive(r)
    <3>1. /\ events[r] \in Seq(Notes) /\ events[r] # << >>
          /\ events' = [events EXCEPT ![r] = Tail(events[r])]
          /\ Len(events[r]) <= EventsCap
      BY <2>1 DEF Receive, Typing, RunTyping
    <3>2. /\ Head(events[r]) \in Notes /\ Tail(events[r]) \in Seq(Notes)
          /\ Len(Tail(events[r])) <= EventsCap
      BY <3>1, EventsCapAssumption
    <3>3. /\ events' \in [Runs -> Seq(Notes)]
          /\ \A q \in Runs : Len(events'[q]) <= EventsCap
      BY <3>1, <3>2 DEF Typing, RunTyping
    <3>4. emitted[r] \in Seq(Notes)
      BY DEF Typing, RunTyping
    <3>5. Append(emitted[r], Head(events[r])) \in Seq(Notes)
      BY <3>2, <3>4
    <3>6. emitted' \in [Runs -> Seq(Notes)]
      BY <2>1, <3>5 DEF Receive, Typing, RunTyping
    <3> QED  BY <3>3, <3>6
  <2>2. CASE UNCHANGED <<events, emitted>>
    BY <2>2 DEF Typing, RunTyping
  <2> QED
    BY <2>1, <2>2 DEF Begin, Install, CallDone, ContextEnds, ContextSeen
<1> QED
  BY <1>1, <1>2, <1>3, <1>4, <1>5, <1>6, <1>7 DEF Typing, RunTyping

LEMMA NewNotes ==
  /\ \A r \in Runs : \A n \in Nat \ {0} : Item(r, n) \in Notes
  /\ \A r \in Runs : \A status \in Statuses : Completed(r, status) \in Notes
  BY DEF Notes, Item, Completed

\* What Codex writes.
LEMMA CodexKeepsTyping ==
  ASSUME Typing,
         \/ \E r \in Runs : CodexItem(r) \/ CodexEndsTurn(r)
         \/ \E request \in asked :
               \/ CodexStartsTurn(request)
               \/ \E ok \in BOOLEAN : CodexAnswers(request, ok)
         \/ CodexPrompts \/ CodexStops
  PROVE  Typing'
<1>1. /\ UNCHANGED <<nextID, pending, channels, call, reader, handler, readErr, asked>>
      /\ UNCHANGED <<phase, req, ctx, events, emitted, result>>
  BY DEF CodexItem, CodexEndsTurn, CodexStartsTurn, CodexAnswers, CodexPrompts, CodexStops,
         Notify, Answer, Prompt, ServerStops, vars, clientVars, serverVars, runVars
<1>2. CallTyping'
  BY <1>1 DEF Typing, CallTyping, InCall
<1>3. sent' \in [Runs -> 0..MaxItems]
  <2>1. ASSUME NEW r \in Runs, CodexItem(r) PROVE sent' \in [Runs -> 0..MaxItems]
    <3>1. sent[r] \in 0..MaxItems /\ sent[r] + 1 \in 0..MaxItems
      BY <2>1, MaxItemsAssumption DEF CodexItem, Typing, RunTyping
    <3> QED  BY <2>1, <3>1 DEF CodexItem, Typing, RunTyping
  <2> QED
    BY <2>1 DEF CodexEndsTurn, CodexStartsTurn, CodexAnswers, CodexPrompts, CodexStops,
                codexVars, Typing, RunTyping
<1>4. turn' \in [Runs -> {"none", "running", "ended"}]
  <2>1. \/ turn' = turn
        \/ \E r : turn' = [turn EXCEPT ![r] = "running"]
        \/ \E r : turn' = [turn EXCEPT ![r] = "ended"]
    BY DEF CodexItem, CodexEndsTurn, CodexStartsTurn, CodexAnswers, CodexPrompts,
           CodexStops, codexVars
  <2> QED  BY <2>1 DEF Typing, RunTyping
<1>5. RunTyping'
  BY <1>1, <1>3, <1>4 DEF Typing, RunTyping
<1>6. output \in Seq(Lines)
  BY DEF Typing, ReaderTyping
<1>7. output' \in Seq(Lines)
  <2>1. ASSUME NEW r \in Runs, CodexItem(r) PROVE output' \in Seq(Lines)
    <3>1. sent[r] + 1 \in Nat \ {0}
      BY <2>1, MaxItemsAssumption DEF Typing, RunTyping
    <3>2. [kind |-> "notification", note |-> Item(r, sent[r] + 1)] \in Lines
      BY <3>1, NewNotes DEF Lines
    <3> QED  BY <1>6, <2>1, <3>2 DEF CodexItem, Notify, Say
  <2>2. ASSUME NEW r \in Runs, CodexEndsTurn(r) PROVE output' \in Seq(Lines)
    <3>1. PICK status \in Statuses : Notify(Completed(r, status))
      BY <2>2, OutcomesAssumption DEF CodexEndsTurn, Statuses
    <3>2. [kind |-> "notification", note |-> Completed(r, status)] \in Lines
      BY NewNotes DEF Lines
    <3> QED  BY <1>6, <3>1, <3>2 DEF Notify, Say
  <2>3. ASSUME NEW request \in asked, NEW ok \in BOOLEAN, CodexAnswers(request, ok)
        PROVE  output' \in Seq(Lines)
    <3>1. [kind |-> "response", id |-> request.id, ok |-> ok] \in Lines
      BY DEF Lines, Typing, CallTyping
    <3> QED  BY <1>6, <2>3, <3>1 DEF CodexAnswers, Answer, Say
  <2>4. CASE CodexPrompts
    <3>1. [kind |-> "prompt"] \in Lines
      BY DEF Lines
    <3> QED  BY <1>6, <2>4, <3>1 DEF CodexPrompts, Prompt, Say
  <2> QED
    BY <1>6, <2>1, <2>2, <2>3, <2>4
       DEF CodexStartsTurn, CodexStops, ServerStops, vars, serverVars
<1> QED  BY <1>1, <1>2, <1>5, <1>7 DEF Typing, ReaderTyping

\* The handler puts its note into the channel of its Run.
LEMMA SendKeepsTyping ==
  ASSUME Typing, HandlerSends
  PROVE  RunTyping'
<1>1. PICK r : r = reader.handler
  OBVIOUS
<1>2. PICK note : note = reader.note
  OBVIOUS
<1>3. /\ r \in Runs /\ note \in Notes
      /\ Len(events[r]) < EventsCap
      /\ events' = [events EXCEPT ![r] = Append(events[r], note)]
      /\ UNCHANGED <<phase, req, ctx, emitted, result, turn, sent>>
  BY <1>1, <1>2 DEF HandlerSends, Typing, ReaderTyping, codexVars
<1>4. events[r] \in Seq(Notes) /\ Len(events[r]) \in Nat
  BY <1>3 DEF Typing, RunTyping
<1>5. Append(events[r], note) \in Seq(Notes) /\ Len(Append(events[r], note)) <= EventsCap
  BY <1>3, <1>4, EventsCapAssumption
<1> QED  BY <1>3, <1>5 DEF Typing, RunTyping

LEMMA TypingSteps == Typing /\ [Next]_runnerVars => Typing'
<1> SUFFICES ASSUME Typing, [Next]_runnerVars PROVE Typing'
  OBVIOUS
<1>1. ASSUME NEW r \in Runs,
             \/ Begin(r) \/ Install(r) \/ CallDone(r) \/ ContextEnds(r) \/ ContextSeen(r)
             \/ Receive(r)
      PROVE  Typing'
  <2>1. /\ UNCHANGED <<nextID, pending, channels, asked>>
        /\ call' = call \/ call' = [call EXCEPT ![r] = Idle]
    BY <1>1 DEF Begin, Install, CallDone, ContextEnds, ContextSeen, Receive, vars,
                clientVars, serverVars
  <2>2. CallTyping'
    BY <2>1, RunsAssumption DEF Typing, CallTyping, InCall, Idle
  <2> QED  BY <1>1, <2>2, RunKeepsTyping DEF Typing
<1>2. ASSUME NEW c \in Callers, NEW method,
             \/ Register(c, method) \/ Lock(c) \/ Send(c)
             \/ CallAnswered(c) \/ CallCanceled(c) \/ CallClosed(c),
             UNCHANGED <<runVars, codexVars>>
      PROVE  Typing'
  <2>1. RunTyping'
    BY <1>2 DEF Typing, RunTyping, runVars, codexVars
  <2> QED  BY <1>2, <2>1, CallsKeepTyping DEF Typing
<1>3. ASSUME \/ Scan \/ Deliver \/ HandlerReturns \/ LockReader \/ Refused
             \/ ReaderStops \/ ReaderFails \/ Close,
             UNCHANGED <<runVars, codexVars>>
      PROVE  Typing'
  <2>1. RunTyping'
    BY <1>3 DEF Typing, RunTyping, runVars, codexVars
  <2> QED  BY <1>3, <2>1, ReaderKeepsTyping DEF Typing
<1>4. CASE HandlerSends
  <2>1. HandlerReturns
    BY <1>4 DEF HandlerSends
  <2> QED  BY <1>4, <2>1, ReaderKeepsTyping, SendKeepsTyping DEF Typing
<1>5. CASE UNCHANGED runnerVars
  <2>1. /\ UNCHANGED <<nextID, pending, channels, call, reader, handler, readErr, asked, output>>
        /\ UNCHANGED <<phase, req, ctx, events, emitted, result, turn, sent>>
    BY <1>5 DEF runnerVars, vars, clientVars, serverVars, runVars, codexVars
  <2>2. CallTyping'
    BY <2>1 DEF Typing, CallTyping, InCall
  <2>3. ReaderTyping'
    BY <2>1 DEF Typing, ReaderTyping
  <2>4. RunTyping'
    BY <2>1 DEF Typing, RunTyping
  <2> QED  BY <2>2, <2>3, <2>4 DEF Typing
<1>6. ASSUME NEW r \in Runs, MakeCall(r) \/ CallTimesOut(r) PROVE Typing'
  BY <1>2, <1>6, RunsAssumption DEF MakeCall, CallTimesOut
<1>7. ASSUME NEW c \in Callers, OtherCalls(c) \/ CallStep(c) PROVE Typing'
  BY <1>2, <1>7 DEF OtherCalls, CallStep
<1>8. CASE HandlerGivesUp \/ ReaderStep \/ LineCannotBeDecoded \/ Shutdown
  BY <1>3, <1>8 DEF HandlerGivesUp, ReaderStep, LineCannotBeDecoded, Shutdown
<1>9. CASE WriteReturns
  BY <1>2, <1>3, <1>9 DEF WriteReturns
<1> QED
  BY <1>1, <1>4, <1>5, <1>6, <1>7, <1>8, <1>9, CodexKeepsTyping DEF Next

-----------------------------------------------------------------------------
(* Which phase goes with which handler, call and turn *)

\* The phases in which the handler is the one of the Run, and those in which its turn may
\* have been started.
Handling == {"list", "create", "resume", "start", "loop", "interrupt"}
Started == {"start", "loop", "interrupt", "returned"}

\* Runs follow each other; the handler is set for exactly the phases that need it; a call
\* is the one of its phase, so turn/start is asked for by a Run that has come that far; and
\* there is a turn only of such a Run.
OneIsActive == \A r, q \in Runs : Active(r) /\ Active(q) => r = q
HandlerFitsPhase == \A r \in Runs : phase[r] \in Handling <=> handler = r
CallFitsPhase ==
    \A c \in Callers :
       InCall(c) =>
          IF c \in Runs
            THEN phase[c] \in DOMAIN MethodOf /\ call[c].method = MethodOf[phase[c]]
            ELSE call[c].method # "turn/start"
TurnFitsPhase ==
    /\ \A request \in asked :
          request.method = "turn/start" =>
             request.caller \in Runs /\ phase[request.caller] \in Started
    /\ \A r \in Runs : turn[r] # "none" => phase[r] \in Started

Control == OneIsActive /\ HandlerFitsPhase /\ CallFitsPhase /\ TurnFitsPhase

LEMMA InitControl == Init => Control
  BY RunsAssumption, NoHandlerAssumption
     DEF Init, ClientInit, Control, OneIsActive, HandlerFitsPhase, CallFitsPhase,
         TurnFitsPhase, Active, InCall, Idle, Handling

\* How a Run goes from phase to phase.
Moves(r, p) ==
    /\ phase' = [phase EXCEPT ![r] = p]
    /\ phase[r] \in DOMAIN MethodOf => ~ InCall(r)
    /\ phase[r] # "returned" /\ p # "idle"
    /\ phase[r] = "idle" => \A q \in Runs : ~ Active(q)
    /\ phase[r] \in Started => p \in Started
    /\ \/ phase[r] \in {"idle", "validate"} /\ p \notin Handling /\ handler' = handler
       \/ phase[r] = "install" /\ p \in Handling /\ handler' = r
       \/ phase[r] \in Handling /\ p \in Handling /\ handler' = handler
       \/ phase[r] \in Handling /\ p = "returned" /\ handler' = NoHandler

LEMMA RunMoves ==
  ASSUME Typing, NEW r \in Runs,
         Begin(r) \/ Install(r) \/ CallDone(r) \/ Receive(r) \/ ContextSeen(r)
  PROVE  \E p \in Phase : Moves(r, p)
<1>1. /\ phase[r] \in Phase /\ req[r] \in [profile : BOOLEAN, thread : BOOLEAN]
      /\ DOMAIN phase = Runs
  BY DEF Typing, RunTyping
<1>2. CASE Begin(r)
  <2>1. PICK request \in [profile : BOOLEAN, thread : BOOLEAN] :
           phase' = [phase EXCEPT ![r] = NextPhase("idle", request)]
    BY <1>2, RequestsAssumption DEF Begin
  <2>2. PICK p : p = NextPhase("idle", request)
    OBVIOUS
  <2>3. p \in {"validate", "install"}
    BY <2>2, Phases
  <2>4. Moves(r, p)
    BY <1>2, <2>1, <2>2, <2>3, Methods
       DEF Begin, Moves, Started, Handling, vars, clientVars
  <2> QED  BY <2>3, <2>4, Methods DEF Phase
<1>3. CASE Install(r)
  <2>1. PICK p : p = NextPhase("install", req[r])
    OBVIOUS
  <2>2. p \in {"list", "create"}
    BY <1>1, <2>1, Phases
  <2>3. phase' = [phase EXCEPT ![r] = p] /\ phase[r] = "install" /\ handler' = r
    BY <1>3, <2>1 DEF Install, Advance, SetNotificationHandler
  <2>4. Moves(r, p)
    BY <2>2, <2>3, Methods DEF Moves, Started, Handling
  <2> QED  BY <2>2, <2>4, Methods DEF Phase
<1>4. CASE CallDone(r) /\ phase[r] # "interrupt" /\ Advance(r) /\ handler' = handler
  <2>1. PICK p : p = NextPhase(phase[r], req[r])
    OBVIOUS
  <2>2. phase[r] \in {"validate", "list", "resume", "create", "start"} /\ ~ InCall(r)
    BY <1>4, Methods DEF CallDone, Returned, InCall
  <2>3. /\ phase[r] = "validate" => p = "install"
        /\ phase[r] = "list" => p = "resume"
        /\ phase[r] \in {"resume", "create"} => p = "start"
        /\ phase[r] = "start" => p = "loop"
    BY <1>1, <2>1, Phases
  <2>4. phase' = [phase EXCEPT ![r] = p]
    BY <1>4, <2>1 DEF Advance
  <2>5. Moves(r, p)
    BY <1>4, <2>2, <2>3, <2>4 DEF Moves, Started, Handling
  <2> QED  BY <2>2, <2>3, <2>5, Methods DEF Phase
<1>5. CASE CallDone(r) /\ \E outcome : RunReturns(r, outcome)
  <2>1. /\ phase[r] \in {"validate", "list", "resume", "create", "start", "interrupt"}
        /\ ~ InCall(r) /\ phase' = [phase EXCEPT ![r] = "returned"]
    BY <1>5, Methods DEF CallDone, Returned, InCall, RunReturns
  <2>2. IF phase[r] = "validate" THEN handler' = handler ELSE handler' = NoHandler
    BY <1>5 DEF RunReturns, SetNotificationHandler
  <2>3. Moves(r, "returned")
    BY <2>1, <2>2 DEF Moves, Started, Handling
  <2> QED  BY <2>3 DEF Phase
<1>6. CASE Receive(r) \/ ContextSeen(r)
  <2>1. phase[r] = "loop" /\ phase[r] \notin DOMAIN MethodOf
    BY <1>6, Methods DEF Receive, ContextSeen
  <2>2. \/ phase' = [phase EXCEPT ![r] = "returned"] /\ handler' = NoHandler
        \/ phase' = [phase EXCEPT ![r] = "interrupt"] /\ handler' = handler
        \/ phase' = [phase EXCEPT ![r] = "loop"] /\ handler' = handler
    <3>1. phase = [phase EXCEPT ![r] = "loop"]
      BY <2>1 DEF Typing, RunTyping
    <3>2. CASE ContextSeen(r)
      BY <3>2 DEF ContextSeen, vars, clientVars
    <3>3. CASE Receive(r)
      <4>1. \/ \E outcome : RunReturns(r, outcome)
            \/ phase' = phase /\ handler' = handler
        BY <3>3 DEF Receive
      <4> QED  BY <2>1, <3>1, <4>1 DEF RunReturns, SetNotificationHandler
    <3> QED  BY <1>6, <3>2, <3>3
  <2>3. \E p \in {"returned", "interrupt", "loop"} : Moves(r, p)
    BY <2>1, <2>2 DEF Moves, Started, Handling
  <2> QED  BY <2>3, Methods DEF Phase
<1> QED  BY <1>2, <1>3, <1>4, <1>5, <1>6 DEF CallDone

LEMMA MovesKeepControl ==
  ASSUME Typing, Control, NEW r \in Runs, NEW p \in Phase, Moves(r, p),
         UNCHANGED <<asked, turn>>,
         call' = call \/ call' = [call EXCEPT ![r] = Idle]
  PROVE  Control'
<1>1. /\ phase'[r] = p /\ \A q \in Runs \ {r} : phase'[q] = phase[q]
  BY DEF Moves, Typing, RunTyping
<1>2. \A q \in Runs \ {r} : ~ Active(q)
  <2>1. Active(r) \/ phase[r] = "idle"
    BY DEF Moves, Active
  <2> QED  BY <2>1 DEF Moves, Control, OneIsActive
<1>3. OneIsActive'
  BY <1>1, <1>2 DEF OneIsActive, Active
<1>4. HandlerFitsPhase'
  <2>1. \A q \in Runs \ {r} : phase[q] \notin Handling /\ handler # q
    BY <1>2 DEF Active, Handling, Control, HandlerFitsPhase
  <2>2. r # NoHandler /\ \A q \in Runs : q # NoHandler
    BY RunsAssumption, NoHandlerAssumption
  <2>3. p \in Handling <=> handler' = r
    BY <2>2 DEF Moves, Control, HandlerFitsPhase, Handling
  <2>4. \A q \in Runs \ {r} : handler' # q
    BY <2>1, <2>2 DEF Moves
  <2> QED  BY <1>1, <2>1, <2>3, <2>4 DEF HandlerFitsPhase
<1>5. CallFitsPhase'
  <2>1. ~ InCall(r)
    BY RunsAssumption DEF Moves, Control, CallFitsPhase
  <2>2. /\ ~ InCall(r)'
        /\ \A c \in Callers \ {r} : call'[c] = call[c]
    <3>1. r \in Callers /\ DOMAIN call = Callers
      BY RunsAssumption DEF Typing, CallTyping
    <3>2. CASE call' = call
      BY <2>1, <3>2 DEF InCall
    <3>3. CASE call' = [call EXCEPT ![r] = Idle]
      BY <3>1, <3>3 DEF InCall, Idle
    <3> QED  BY <3>2, <3>3
  <2> QED  BY <1>1, <2>2 DEF Control, CallFitsPhase, InCall
<1>6. TurnFitsPhase'
  BY <1>1 DEF Moves, Control, TurnFitsPhase
<1> QED  BY <1>3, <1>4, <1>5, <1>6 DEF Control

LEMMA CallsKeepControl ==
  ASSUME Typing, Control, NEW c \in Callers, NEW method,
         c \in Runs /\ Register(c, method) =>
            phase[c] \in DOMAIN MethodOf /\ method = MethodOf[phase[c]],
         c \notin Runs => method # "turn/start",
         \/ Register(c, method) \/ Lock(c) \/ Send(c)
         \/ CallAnswered(c) \/ CallCanceled(c) \/ CallClosed(c),
         UNCHANGED <<phase, turn>>
  PROVE  Control'
<1>1. OneIsActive' /\ handler' = handler
  BY DEF Control, OneIsActive, Active, Register, Lock, Send, CallAnswered, CallCanceled, CallClosed
<1>2. HandlerFitsPhase'
  BY <1>1 DEF Control, HandlerFitsPhase
<1>3. CallFitsPhase'
  <2>1. /\ DOMAIN call = Callers /\ \A d \in Callers \ {c} : call'[d] = call[d]
    BY DEF Typing, CallTyping, Register, Lock, Send, CallAnswered, CallCanceled, CallClosed, Return
  <2>2. InCall(c)' => \/ Register(c, method) /\ call'[c].method = method
                      \/ InCall(c) /\ call'[c].method = call[c].method
    <3>1. CASE Register(c, method)
      BY <2>1, <3>1 DEF Register, Return, InCall
    <3>2. CASE Lock(c) \/ Send(c)
      <4>1. CASE Return(c, "failed")
        BY <2>1, <4>1 DEF Return, InCall
      <4>2. CASE \E pc \in {"writing", "waiting"} : call' = [call EXCEPT ![c].pc = pc]
        <5>1. call'[c].method = call[c].method
          BY <2>1, <4>2
        <5>2. InCall(c)
          BY <3>2 DEF Lock, Send, InCall
        <5> QED  BY <5>1, <5>2
      <4> QED  BY <3>2, <4>1, <4>2 DEF Lock, Send
    <3>3. CASE CallAnswered(c) \/ CallCanceled(c) \/ CallClosed(c)
      <4>1. PICK outcome \in {"ok", "failed"} : Return(c, outcome)
        BY <3>3 DEF CallAnswered, CallCanceled, CallClosed
      <4> QED  BY <2>1, <4>1 DEF Return, InCall
    <3> QED  BY <3>1, <3>2, <3>3
  <2> QED  BY <2>1, <2>2 DEF Control, CallFitsPhase, InCall
<1>4. TurnFitsPhase'
  <2>1. \A request \in asked' \ asked :
           request.caller = c /\ request.method = call[c].method /\ InCall(c)
    BY DEF Register, Lock, Send, CallAnswered, CallCanceled, CallClosed, serverVars, InCall
  <2>2. InCall(c) /\ call[c].method = "turn/start" => c \in Runs /\ phase[c] = "start"
    BY Methods DEF Control, CallFitsPhase
  <2> QED  BY <2>1, <2>2 DEF Control, TurnFitsPhase, Started
<1> QED  BY <1>1, <1>2, <1>3, <1>4 DEF Control

LEMMA ControlSteps == Typing /\ Control /\ [Next]_runnerVars => Control'
<1> SUFFICES ASSUME Typing, Control, [Next]_runnerVars PROVE Control'
  OBVIOUS
<1>1. ASSUME NEW r \in Runs,
             Begin(r) \/ Install(r) \/ CallDone(r) \/ Receive(r) \/ ContextSeen(r)
      PROVE  Control'
  <2>1. PICK p \in Phase : Moves(r, p)
    BY <1>1, RunMoves
  <2>2. /\ UNCHANGED <<asked, turn>>
        /\ call' = call \/ call' = [call EXCEPT ![r] = Idle]
    BY <1>1 DEF Begin, Install, CallDone, Receive, ContextSeen, vars, clientVars,
                serverVars, codexVars
  <2> QED  BY <2>1, <2>2, MovesKeepControl
<1>2. ASSUME NEW r \in Runs, MakeCall(r) \/ CallTimesOut(r) PROVE Control'
  <2>1. r \in Callers /\ UNCHANGED <<phase, turn>>
    BY <1>2, RunsAssumption DEF MakeCall, CallTimesOut, runVars, codexVars
  <2>2. CASE MakeCall(r)
    BY <2>1, <2>2, CallsKeepControl DEF MakeCall
  <2>3. CASE CallTimesOut(r)
    <3>1. CallCanceled(r) /\ ~ \E method : Register(r, method)
      BY <2>3 DEF CallTimesOut, CallCanceled, Register, Idle
    <3> QED  BY <2>1, <3>1, CallsKeepControl
  <2> QED  BY <1>2, <2>2, <2>3
<1>3. ASSUME NEW c \in Callers, OtherCalls(c) \/ CallStep(c) PROVE Control'
  <2>1. UNCHANGED <<phase, turn>>
    BY <1>3 DEF OtherCalls, CallStep, runVars, codexVars
  <2>2. CASE OtherCalls(c)
    BY <2>1, <2>2, CallsKeepControl DEF OtherCalls
  <2>3. CASE CallStep(c) /\ ~ \E method : Register(c, method)
    BY <2>1, <2>3, CallsKeepControl DEF CallStep
  <2>4. CallStep(c) => ~ \E method : Register(c, method)
    BY DEF CallStep, Register, Lock, CallAnswered, CallClosed, Idle
  <2> QED  BY <1>3, <2>2, <2>3, <2>4
<1>4. CASE \/ HandlerSends \/ HandlerGivesUp \/ ReaderStep
           \/ (WriteReturns /\ Refused)
           \/ LineCannotBeDecoded \/ Shutdown
           \/ \E r \in Runs : ContextEnds(r) \/ CodexItem(r)
           \/ \E request \in asked : \E ok \in BOOLEAN : CodexAnswers(request, ok)
           \/ CodexPrompts \/ CodexStops \/ UNCHANGED runnerVars
  <2>1. UNCHANGED <<call, handler, asked, phase, turn>>
    BY <1>4 DEF HandlerSends, HandlerGivesUp, ReaderStep, WriteReturns, Refused,
                LineCannotBeDecoded, Shutdown, ContextEnds, CodexItem, CodexAnswers,
                CodexPrompts, Prompt, CodexStops, Scan, Deliver, LockReader,
                HandlerReturns, ReaderStops, ReaderFails, Close, Answer, Notify,
                ServerStops, runnerVars, vars, clientVars, serverVars, runVars, codexVars
  <2> QED
    BY <2>1 DEF Control, OneIsActive, HandlerFitsPhase, CallFitsPhase, TurnFitsPhase,
                Active, InCall
<1>5. CASE \/ \E r \in Runs : CodexEndsTurn(r)
           \/ \E request \in asked : CodexStartsTurn(request)
  <2>1. UNCHANGED <<call, handler, asked, phase>>
    BY <1>5 DEF CodexEndsTurn, CodexStartsTurn, Notify, vars, clientVars, serverVars, runVars
  <2>2. \A r \in Runs : turn'[r] # "none" =>
           \/ turn[r] # "none"
           \/ \E request \in asked : request.method = "turn/start" /\ request.caller = r
    BY <1>5 DEF CodexEndsTurn, CodexStartsTurn, Typing, RunTyping
  <2> QED
    BY <2>1, <2>2 DEF Control, OneIsActive, HandlerFitsPhase, CallFitsPhase, TurnFitsPhase,
                      Active, InCall
<1>6. CASE \E c \in Callers : Send(c) /\ UNCHANGED <<runVars, codexVars>>
  <2>1. PICK c \in Callers : Send(c) /\ UNCHANGED <<phase, turn>>
    BY <1>6 DEF runVars, codexVars
  <2>2. ~ \E method : Register(c, method)
    BY <2>1 DEF Register, Send, Idle
  <2>3. PICK method : method # "turn/start"
    <3> WITNESS "thread/read"
    <3> QED  OBVIOUS
  <2> QED  BY <2>1, <2>2, <2>3, CallsKeepControl
<1> QED  BY <1>1, <1>2, <1>3, <1>4, <1>5, <1>6 DEF Next, WriteReturns

-----------------------------------------------------------------------------
(* Items in a row: what a place holds, and three places behind each other *)

\* A place is a row of tags: the number of an item of the turn, -1 for its end, 0 for what
\* is nothing of this turn.
Tags == Nat \cup {-1}

Holds(s, tag) == \E k \in DOMAIN s : s[k] = tag
HasEnd(s) == Holds(s, -1)

\* The items of s are those after lo up to hi, in order and once, and the end comes last.
Counts(s, lo, hi) ==
    /\ lo <= hi
    /\ \A n \in Nat \ {0} : lo < n /\ n <= hi <=> Holds(s, n)
    /\ \A j, k \in DOMAIN s : j < k /\ s[j] > 0 /\ s[k] > 0 => s[j] < s[k]
    /\ \A j, k \in DOMAIN s : j < k /\ s[j] = -1 => s[k] = 0

LEMMA EmptyCounts ==
  ASSUME NEW lo \in Nat
  PROVE  Counts(<< >>, lo, lo) /\ ~ HasEnd(<< >>)
<1>1. DOMAIN << >> = {}
  OBVIOUS
<1> QED  BY <1>1 DEF Counts, HasEnd, Holds

LEMMA NothingCounts ==
  ASSUME NEW lo \in Nat, NEW hi \in Nat, Counts(<< >>, lo, hi)
  PROVE  lo = hi
<1>1. DOMAIN << >> = {}
  OBVIOUS
<1>2. ~ \E n \in Nat \ {0} : lo < n /\ n <= hi
  BY <1>1 DEF Counts, Holds
<1>3. lo <= hi /\ ~ (lo < lo + 1 /\ lo + 1 <= hi)
  BY <1>2 DEF Counts
<1> QED  BY <1>3

LEMMA TailOf ==
  ASSUME NEW s \in Seq(Tags), s # << >>
  PROVE  /\ Head(s) \in Tags /\ Tail(s) \in Seq(Tags)
         /\ 1 \in DOMAIN s /\ s[1] = Head(s)
         /\ \A k \in DOMAIN s : k # 1 => k - 1 \in DOMAIN Tail(s) /\ Tail(s)[k - 1] = s[k]
         /\ \A k \in DOMAIN Tail(s) : k + 1 \in DOMAIN s /\ Tail(s)[k] = s[k + 1]
         /\ DOMAIN s \subseteq Nat \ {0} /\ DOMAIN Tail(s) \subseteq Nat \ {0}
         /\ \A k \in DOMAIN s : s[k] \in Tags
  OBVIOUS

\* The first of a row is the next item, or the end of it, or nothing of this turn.
LEMMA CountsTail ==
  ASSUME NEW s \in Seq(Tags), s # << >>, NEW lo \in Nat, NEW hi \in Nat, Counts(s, lo, hi)
  PROVE  /\ Head(s) = 0 =>
               Counts(Tail(s), lo, hi) /\ (HasEnd(Tail(s)) <=> HasEnd(s))
         /\ Head(s) > 0 =>
               /\ Head(s) = lo + 1 /\ lo + 1 <= hi
               /\ Counts(Tail(s), lo + 1, hi) /\ (HasEnd(Tail(s)) <=> HasEnd(s))
         /\ Head(s) = -1 =>
               /\ lo = hi /\ HasEnd(s)
               /\ Counts(Tail(s), lo, hi) /\ ~ HasEnd(Tail(s))
<1> DEFINE t == Tail(s)  h == Head(s)
<1>1. /\ h \in Tags /\ t \in Seq(Tags)
      /\ 1 \in DOMAIN s /\ s[1] = h
      /\ \A k \in DOMAIN s : k # 1 => k - 1 \in DOMAIN t /\ t[k - 1] = s[k]
      /\ \A k \in DOMAIN t : k + 1 \in DOMAIN s /\ t[k] = s[k + 1]
      /\ DOMAIN s \subseteq Nat \ {0} /\ DOMAIN t \subseteq Nat \ {0}
      /\ \A k \in DOMAIN s : s[k] \in Tags
  BY TailOf
<1> HIDE DEF t, h
<1>2. /\ lo <= hi
      /\ \A n \in Nat \ {0} : lo < n /\ n <= hi <=> Holds(s, n)
      /\ \A j, k \in DOMAIN s : j < k /\ s[j] > 0 /\ s[k] > 0 => s[j] < s[k]
      /\ \A j, k \in DOMAIN s : j < k /\ s[j] = -1 => s[k] = 0
  BY DEF Counts
<1>3. \A j, k \in DOMAIN t : j < k /\ t[j] > 0 /\ t[k] > 0 => t[j] < t[k]
  BY <1>1, <1>2
<1>4. \A j, k \in DOMAIN t : j < k /\ t[j] = -1 => t[k] = 0
  BY <1>1, <1>2
<1>5. \A n : Holds(s, n) <=> n = h \/ Holds(t, n)
  BY <1>1 DEF Holds
<1>6. ASSUME h = 0 PROVE Counts(t, lo, hi) /\ (HasEnd(t) <=> HasEnd(s))
  <2>1. \A n \in Nat \ {0} : Holds(t, n) <=> Holds(s, n)
    BY <1>5, <1>6
  <2>2. HasEnd(t) <=> HasEnd(s)
    BY <1>5, <1>6 DEF HasEnd
  <2> QED  BY <1>2, <1>3, <1>4, <2>1, <2>2 DEF Counts
<1>7. ASSUME h > 0
      PROVE  h = lo + 1 /\ lo + 1 <= hi /\ Counts(t, lo + 1, hi) /\ (HasEnd(t) <=> HasEnd(s))
  <2>1. h \in Nat \ {0} /\ lo < h /\ h <= hi
    BY <1>1, <1>2, <1>5, <1>7 DEF Tags
  <2>2. ASSUME NEW n \in Nat \ {0}, Holds(t, n) PROVE h < n
    <3>1. PICK k \in DOMAIN t : t[k] = n
      BY <2>2 DEF Holds
    <3>2. k + 1 \in DOMAIN s /\ s[k + 1] = n /\ 1 < k + 1
      BY <1>1, <3>1
    <3> QED  BY <1>1, <1>2, <1>7, <2>2, <3>2
  <2>3. lo + 1 \in Nat \ {0} /\ lo < lo + 1 /\ lo + 1 <= hi
    BY <2>1
  <2>4. h = lo + 1
    <3>1. lo + 1 = h \/ Holds(t, lo + 1)
      BY <1>2, <1>5, <2>3
    <3> QED  BY <2>1, <2>2, <3>1
  <2>5. \A n \in Nat \ {0} : lo + 1 < n /\ n <= hi <=> Holds(t, n)
    BY <1>2, <1>5, <2>1, <2>2, <2>4
  <2>6. HasEnd(t) <=> HasEnd(s)
    BY <1>5, <1>7 DEF HasEnd
  <2> QED  BY <1>3, <1>4, <2>3, <2>4, <2>5, <2>6 DEF Counts
<1>8. ASSUME h = -1
      PROVE  lo = hi /\ HasEnd(s) /\ Counts(t, lo, hi) /\ ~ HasEnd(t)
  <2>1. HasEnd(s)
    BY <1>5, <1>8 DEF HasEnd
  <2>2. \A k \in DOMAIN t : t[k] = 0
    BY <1>1, <1>2, <1>8
  <2>3. \A n \in Nat \ {0} : ~ Holds(s, n) /\ ~ Holds(t, n)
    <3>1. \A n \in Nat \ {0} : ~ Holds(t, n)
      BY <2>2 DEF Holds
    <3>2. \A n \in Nat \ {0} : n # h
      BY <1>8
    <3> QED  BY <1>5, <3>1, <3>2
  <2>4. lo = hi
    <3>1. ~ (lo < lo + 1 /\ lo + 1 <= hi)
      BY <1>2, <2>3
    <3> QED  BY <1>2, <3>1
  <2>5. ~ HasEnd(t)
    BY <2>2 DEF HasEnd, Holds
  <2>6. \A n \in Nat \ {0} : lo < n /\ n <= hi <=> Holds(t, n)
    BY <1>2, <2>3
  <2> QED  BY <1>2, <1>3, <1>4, <2>1, <2>4, <2>5, <2>6 DEF Counts
<1> QED  BY <1>6, <1>7, <1>8 DEF t, h

LEMMA AppendOf ==
  ASSUME NEW s \in Seq(Tags), NEW e \in Tags
  PROVE  LET t == Append(s, e) IN
         /\ t \in Seq(Tags)
         /\ DOMAIN t = DOMAIN s \cup {Len(s) + 1} /\ DOMAIN s \subseteq Nat \ {0}
         /\ Len(s) \in Nat /\ t[Len(s) + 1] = e
         /\ \A k \in DOMAIN s : k < Len(s) + 1 /\ t[k] = s[k] /\ s[k] \in Tags
  OBVIOUS

\* The next item, the end or what is nothing of this turn may follow a row without an end.
LEMMA CountsAppend ==
  ASSUME NEW s \in Seq(Tags), NEW lo \in Nat, NEW hi \in Nat, Counts(s, lo, hi)
  PROVE  /\ Counts(Append(s, 0), lo, hi) /\ (HasEnd(Append(s, 0)) <=> HasEnd(s))
         /\ ~ HasEnd(s) =>
               Counts(Append(s, hi + 1), lo, hi + 1) /\ ~ HasEnd(Append(s, hi + 1))
         /\ ~ HasEnd(s) => Counts(Append(s, -1), lo, hi) /\ HasEnd(Append(s, -1))
<1>1. /\ lo <= hi
      /\ \A n \in Nat \ {0} : lo < n /\ n <= hi <=> Holds(s, n)
      /\ \A j, k \in DOMAIN s : j < k /\ s[j] > 0 /\ s[k] > 0 => s[j] < s[k]
      /\ \A j, k \in DOMAIN s : j < k /\ s[j] = -1 => s[k] = 0
  BY DEF Counts
<1>2. ASSUME NEW e \in Tags, NEW top \in Nat,
             \/ e = 0 /\ top = hi
             \/ ~ HasEnd(s) /\ e = hi + 1 /\ top = e
             \/ ~ HasEnd(s) /\ e = -1 /\ top = hi
      PROVE  /\ Counts(Append(s, e), lo, top)
             /\ HasEnd(Append(s, e)) <=> HasEnd(s) \/ e = -1
  <2> DEFINE t == Append(s, e)  l == Len(s) + 1
  <2>1. /\ DOMAIN t = DOMAIN s \cup {l} /\ DOMAIN s \subseteq Nat \ {0}
        /\ l \in Nat /\ t[l] = e
        /\ \A k \in DOMAIN s : k < l /\ t[k] = s[k] /\ s[k] \in Tags
    BY AppendOf
  <2> HIDE DEF t, l
  <2>2. \A n : Holds(t, n) <=> n = e \/ Holds(s, n)
    BY <2>1 DEF Holds
  <2>3. HasEnd(t) <=> HasEnd(s) \/ e = -1
    BY <2>2 DEF HasEnd
  <2>4. \A n \in Nat \ {0} : lo < n /\ n <= top <=> Holds(t, n)
    BY <1>1, <1>2, <2>2
  <2>5. \A k \in DOMAIN s : s[k] > 0 => s[k] <= hi
    BY <1>1, <2>1 DEF Tags, Holds
  <2>6. \A j, k \in DOMAIN t : j < k => j \in DOMAIN s
    BY <2>1
  <2>7. ASSUME NEW j \in DOMAIN t, NEW k \in DOMAIN t, j < k
        PROVE  /\ t[j] > 0 /\ t[k] > 0 => t[j] < t[k]
               /\ t[j] = -1 => t[k] = 0
    <3>1. j \in DOMAIN s /\ t[j] = s[j] /\ s[j] \in Tags
      BY <2>1, <2>6, <2>7
    <3>2. CASE k = l
      <4>1. e > 0 => e = hi + 1
        BY <1>2
      <4>2. s[j] = -1 => e = 0
        BY <1>2, <3>1 DEF HasEnd, Holds
      <4>3. t[j] > 0 => t[j] <= hi
        BY <2>5, <3>1
      <4> QED  BY <2>1, <3>1, <3>2, <4>1, <4>2, <4>3 DEF Tags
    <3>3. CASE k # l
      BY <1>1, <2>1, <2>7, <3>1, <3>3
    <3> QED  BY <3>2, <3>3
  <2>8. lo <= top
    BY <1>1, <1>2
  <2> QED  BY <2>3, <2>4, <2>7, <2>8 DEF Counts, t
<1>3. 0 \in Tags /\ hi + 1 \in Tags /\ -1 \in Tags /\ hi + 1 \in Nat /\ hi + 1 # -1
  BY DEF Tags
<1>4. Counts(Append(s, 0), lo, hi) /\ (HasEnd(Append(s, 0)) <=> HasEnd(s))
  BY <1>2, <1>3
<1>5. ~ HasEnd(s) => Counts(Append(s, hi + 1), lo, hi + 1) /\ ~ HasEnd(Append(s, hi + 1))
  BY <1>2, <1>3
<1>6. ~ HasEnd(s) => Counts(Append(s, -1), lo, hi) /\ HasEnd(Append(s, -1))
  BY <1>2, <1>3
<1> QED  BY <1>4, <1>5, <1>6

\* The first of one place goes to the end of the place before it.
LEMMA MoveHead ==
  ASSUME NEW d \in Seq(Tags), NEW s \in Seq(Tags), s # << >>,
         NEW lo \in Nat, NEW mid \in Nat, NEW hi \in Nat,
         Counts(d, lo, mid), Counts(s, mid, hi),
         HasEnd(d) => hi = mid /\ ~ HasEnd(s)
  PROVE  \E m \in Nat :
            /\ Counts(Append(d, Head(s)), lo, m) /\ Counts(Tail(s), m, hi)
            /\ HasEnd(Append(d, Head(s))) => hi = m /\ ~ HasEnd(Tail(s))
            /\ HasEnd(Append(d, Head(s))) \/ HasEnd(Tail(s)) <=> HasEnd(d) \/ HasEnd(s)
<1>1. Head(s) \in Tags
  BY TailOf
<1>2. CASE Head(s) = 0
  BY <1>2, CountsTail, CountsAppend
<1>3. CASE Head(s) > 0
  <2>1. /\ Head(s) = mid + 1 /\ mid + 1 <= hi
        /\ Counts(Tail(s), mid + 1, hi) /\ (HasEnd(Tail(s)) <=> HasEnd(s))
    BY <1>3, CountsTail
  <2>2. ~ HasEnd(d)
    BY <2>1
  <2>3. Counts(Append(d, mid + 1), lo, mid + 1) /\ ~ HasEnd(Append(d, mid + 1))
    BY <2>2, CountsAppend
  <2> QED  BY <2>1, <2>2, <2>3
<1>4. CASE Head(s) = -1
  <2>1. /\ mid = hi /\ HasEnd(s)
        /\ Counts(Tail(s), mid, hi) /\ ~ HasEnd(Tail(s))
    BY <1>4, CountsTail
  <2>2. Counts(Append(d, -1), lo, mid) /\ HasEnd(Append(d, -1))
    BY <2>1, CountsAppend
  <2> QED  BY <1>4, <2>1, <2>2
<1> QED  BY <1>1, <1>2, <1>3, <1>4 DEF Tags

\* Three places behind each other hold the items after lo up to hi, and nothing comes
\* after an end.
Chain(s1, s2, s3, lo, hi) ==
    \E a, b \in Nat :
       /\ Counts(s1, lo, a) /\ Counts(s2, a, b) /\ Counts(s3, b, hi)
       /\ HasEnd(s1) => b = a /\ ~ HasEnd(s2)
       /\ HasEnd(s1) \/ HasEnd(s2) => hi = b /\ ~ HasEnd(s3)
Ending(s1, s2, s3) == HasEnd(s1) \/ HasEnd(s2) \/ HasEnd(s3)

\* What is said goes behind the last place.
LEMMA ChainSays ==
  ASSUME NEW s1 \in Seq(Tags), NEW s2 \in Seq(Tags), NEW s3 \in Seq(Tags),
         NEW lo \in Nat, NEW hi \in Nat, Chain(s1, s2, s3, lo, hi)
  PROVE  /\ /\ Chain(s1, s2, Append(s3, 0), lo, hi)
            /\ Ending(s1, s2, Append(s3, 0)) <=> Ending(s1, s2, s3)
         /\ ~ Ending(s1, s2, s3) =>
               /\ Chain(s1, s2, Append(s3, hi + 1), lo, hi + 1)
               /\ ~ Ending(s1, s2, Append(s3, hi + 1))
         /\ ~ Ending(s1, s2, s3) => Chain(s1, s2, Append(s3, -1), lo, hi)
<1>1. PICK a \in Nat, b \in Nat :
         /\ Counts(s1, lo, a) /\ Counts(s2, a, b) /\ Counts(s3, b, hi)
         /\ HasEnd(s1) => b = a /\ ~ HasEnd(s2)
         /\ HasEnd(s1) \/ HasEnd(s2) => hi = b /\ ~ HasEnd(s3)
  BY DEF Chain
<1>2. /\ Counts(Append(s3, 0), b, hi) /\ (HasEnd(Append(s3, 0)) <=> HasEnd(s3))
      /\ ~ HasEnd(s3) =>
            Counts(Append(s3, hi + 1), b, hi + 1) /\ ~ HasEnd(Append(s3, hi + 1))
      /\ ~ HasEnd(s3) => Counts(Append(s3, -1), b, hi)
  <2>1. Counts(s3, b, hi)
    BY <1>1
  <2> QED  BY <2>1, CountsAppend
<1>3. /\ Chain(s1, s2, Append(s3, 0), lo, hi)
      /\ Ending(s1, s2, Append(s3, 0)) <=> Ending(s1, s2, s3)
  BY <1>1, <1>2 DEF Chain, Ending
<1>4. ASSUME ~ Ending(s1, s2, s3)
      PROVE  /\ Chain(s1, s2, Append(s3, hi + 1), lo, hi + 1)
             /\ ~ Ending(s1, s2, Append(s3, hi + 1))
             /\ Chain(s1, s2, Append(s3, -1), lo, hi)
  BY <1>1, <1>2, <1>4 DEF Chain, Ending
<1> QED  BY <1>3, <1>4

LEMMA Single ==
  ASSUME NEW e \in Tags
  PROVE  /\ << >> \in Seq(Tags) /\ <<e>> \in Seq(Tags) /\ Append(<< >>, e) = <<e>>
         /\ <<e>> # << >> /\ Head(<<e>>) = e /\ Tail(<<e>>) = << >>
  OBVIOUS

\* The first of the last place goes to the middle, which is empty, or is dropped when it
\* is nothing of this turn.
LEMMA ChainScans ==
  ASSUME NEW s1 \in Seq(Tags), NEW s3 \in Seq(Tags), s3 # << >>,
         NEW lo \in Nat, NEW hi \in Nat, Chain(s1, << >>, s3, lo, hi)
  PROVE  /\ Chain(s1, <<Head(s3)>>, Tail(s3), lo, hi)
         /\ Ending(s1, <<Head(s3)>>, Tail(s3)) <=> Ending(s1, << >>, s3)
         /\ Head(s3) = 0 =>
               /\ Chain(s1, << >>, Tail(s3), lo, hi)
               /\ Ending(s1, << >>, Tail(s3)) <=> Ending(s1, << >>, s3)
         /\ Head(s3) > 0 => hi > 0
         /\ Head(s3) = -1 => Ending(s1, << >>, s3)
<1>1. PICK a \in Nat, b \in Nat :
         /\ Counts(s1, lo, a) /\ Counts(<< >>, a, b) /\ Counts(s3, b, hi)
         /\ HasEnd(s1) => b = a /\ ~ HasEnd(<< >>)
         /\ HasEnd(s1) \/ HasEnd(<< >>) => hi = b /\ ~ HasEnd(s3)
  BY DEF Chain
<1>2. a = b /\ ~ HasEnd(<< >>)
  BY <1>1, NothingCounts, EmptyCounts
<1>3. Head(s3) \in Tags
  BY TailOf
<1>4. << >> \in Seq(Tags) /\ Append(<< >>, Head(s3)) = <<Head(s3)>>
  BY <1>3, Single
<1>5. PICK m \in Nat :
         /\ Counts(<<Head(s3)>>, a, m) /\ Counts(Tail(s3), m, hi)
         /\ HasEnd(<<Head(s3)>>) => hi = m /\ ~ HasEnd(Tail(s3))
         /\ HasEnd(<<Head(s3)>>) \/ HasEnd(Tail(s3)) <=> HasEnd(<< >>) \/ HasEnd(s3)
  <2>1. Counts(<< >>, a, a) /\ Counts(s3, a, hi)
    BY <1>1, <1>2
  <2>2. \E m \in Nat :
         /\ Counts(Append(<< >>, Head(s3)), a, m) /\ Counts(Tail(s3), m, hi)
         /\ HasEnd(Append(<< >>, Head(s3))) => hi = m /\ ~ HasEnd(Tail(s3))
         /\ HasEnd(Append(<< >>, Head(s3))) \/ HasEnd(Tail(s3)) <=> HasEnd(<< >>) \/ HasEnd(s3)
    <3>1. PICK d : d = << >>
      OBVIOUS
    <3>2. /\ d \in Seq(Tags) /\ Counts(d, a, a) /\ ~ HasEnd(d)
      BY <1>2, <1>4, <2>1, <3>1
    <3>3. \E m \in Nat :
         /\ Counts(Append(d, Head(s3)), a, m) /\ Counts(Tail(s3), m, hi)
         /\ HasEnd(Append(d, Head(s3))) => hi = m /\ ~ HasEnd(Tail(s3))
         /\ HasEnd(Append(d, Head(s3))) \/ HasEnd(Tail(s3)) <=> HasEnd(d) \/ HasEnd(s3)
      BY <2>1, <3>2, MoveHead
    <3> QED  BY <3>1, <3>3
  <2> QED  BY <1>4, <2>2
<1>6. a <= m /\ m <= hi
  BY <1>5 DEF Counts
<1>7. HasEnd(s1) => m = a /\ hi = m /\ ~ HasEnd(<<Head(s3)>>) /\ ~ HasEnd(Tail(s3))
  BY <1>1, <1>2, <1>5, <1>6
<1>8. Chain(s1, <<Head(s3)>>, Tail(s3), lo, hi)
  BY <1>1, <1>5, <1>7 DEF Chain
<1>9. Ending(s1, <<Head(s3)>>, Tail(s3)) <=> Ending(s1, << >>, s3)
  BY <1>2, <1>5 DEF Ending
<1>10. ASSUME Head(s3) = 0
       PROVE  /\ Chain(s1, << >>, Tail(s3), lo, hi)
              /\ Ending(s1, << >>, Tail(s3)) <=> Ending(s1, << >>, s3)
  <2>1. Counts(Tail(s3), b, hi) /\ (HasEnd(Tail(s3)) <=> HasEnd(s3))
    BY <1>1, <1>10, CountsTail
  <2> QED  BY <1>1, <2>1 DEF Chain, Ending
<1>11. Head(s3) > 0 => hi > 0
  BY <1>1, CountsTail
<1>12. Head(s3) = -1 => Ending(s1, << >>, s3)
  BY <1>1, CountsTail DEF Ending
<1> QED  BY <1>8, <1>9, <1>10, <1>11, <1>12

\* The middle is emptied into the first place, or drops what is nothing of this turn.
LEMMA ChainSends ==
  ASSUME NEW s1 \in Seq(Tags), NEW e \in Tags, NEW s3 \in Seq(Tags),
         NEW lo \in Nat, NEW hi \in Nat, Chain(s1, <<e>>, s3, lo, hi)
  PROVE  /\ Chain(Append(s1, e), << >>, s3, lo, hi)
         /\ Ending(Append(s1, e), << >>, s3) <=> Ending(s1, <<e>>, s3)
         /\ e = 0 =>
               /\ Chain(s1, << >>, s3, lo, hi)
               /\ Ending(s1, << >>, s3) <=> Ending(s1, <<e>>, s3)
<1>1. PICK a \in Nat, b \in Nat :
         /\ Counts(s1, lo, a) /\ Counts(<<e>>, a, b) /\ Counts(s3, b, hi)
         /\ HasEnd(s1) => b = a /\ ~ HasEnd(<<e>>)
         /\ HasEnd(s1) \/ HasEnd(<<e>>) => hi = b /\ ~ HasEnd(s3)
  BY DEF Chain
<1>2. /\ << >> \in Seq(Tags) /\ <<e>> \in Seq(Tags)
      /\ <<e>> # << >> /\ Head(<<e>>) = e /\ Tail(<<e>>) = << >>
  BY Single
<1>3. PICK m \in Nat :
         /\ Counts(Append(s1, e), lo, m) /\ Counts(<< >>, m, b)
         /\ HasEnd(Append(s1, e)) \/ HasEnd(<< >>) <=> HasEnd(s1) \/ HasEnd(<<e>>)
  <2>1. \E m \in Nat :
         /\ Counts(Append(s1, Head(<<e>>)), lo, m) /\ Counts(Tail(<<e>>), m, b)
         /\ HasEnd(Append(s1, Head(<<e>>))) => b = m /\ ~ HasEnd(Tail(<<e>>))
         /\ HasEnd(Append(s1, Head(<<e>>))) \/ HasEnd(Tail(<<e>>))
               <=> HasEnd(s1) \/ HasEnd(<<e>>)
    BY <1>1, <1>2, MoveHead
  <2> QED  BY <1>2, <2>1
<1>4. m = b /\ ~ HasEnd(<< >>) /\ Counts(<< >>, b, b)
  BY <1>3, NothingCounts, EmptyCounts
<1>5. Chain(Append(s1, e), << >>, s3, lo, hi)
  BY <1>1, <1>3, <1>4 DEF Chain
<1>6. Ending(Append(s1, e), << >>, s3) <=> Ending(s1, <<e>>, s3)
  BY <1>3, <1>4 DEF Ending
<1>7. ASSUME e = 0
      PROVE  /\ Chain(s1, << >>, s3, lo, hi)
             /\ Ending(s1, << >>, s3) <=> Ending(s1, <<e>>, s3)
  <2>1. Counts(<< >>, a, b) /\ (HasEnd(<< >>) <=> HasEnd(<<e>>))
    <3>1. PICK s : s = <<e>>
      OBVIOUS
    <3>2. s \in Seq(Tags) /\ s # << >> /\ Head(s) = 0 /\ Counts(s, a, b)
      BY <1>1, <1>2, <1>7, <3>1
    <3>3. Counts(Tail(s), a, b) /\ (HasEnd(Tail(s)) <=> HasEnd(s))
      BY <3>2, CountsTail
    <3> QED  BY <1>2, <3>1, <3>3
  <2> QED  BY <1>1, <2>1 DEF Chain, Ending
<1> QED  BY <1>5, <1>6, <1>7

\* The first of the first place is received.
LEMMA ChainReceives ==
  ASSUME NEW s1 \in Seq(Tags), NEW s2 \in Seq(Tags), NEW s3 \in Seq(Tags), s1 # << >>,
         NEW lo \in Nat, NEW hi \in Nat, Chain(s1, s2, s3, lo, hi)
  PROVE  /\ Head(s1) = 0 =>
               /\ Chain(Tail(s1), s2, s3, lo, hi)
               /\ Ending(Tail(s1), s2, s3) <=> Ending(s1, s2, s3)
         /\ Head(s1) > 0 =>
               /\ Head(s1) = lo + 1 /\ Chain(Tail(s1), s2, s3, lo + 1, hi)
               /\ Ending(Tail(s1), s2, s3) <=> Ending(s1, s2, s3)
         /\ Head(s1) = -1 => lo = hi /\ Ending(s1, s2, s3)
<1>1. PICK a \in Nat, b \in Nat :
         /\ Counts(s1, lo, a) /\ Counts(s2, a, b) /\ Counts(s3, b, hi)
         /\ HasEnd(s1) => b = a /\ ~ HasEnd(s2)
         /\ HasEnd(s1) \/ HasEnd(s2) => hi = b /\ ~ HasEnd(s3)
  BY DEF Chain
<1>2. Head(s1) = 0 =>
         /\ Chain(Tail(s1), s2, s3, lo, hi)
         /\ Ending(Tail(s1), s2, s3) <=> Ending(s1, s2, s3)
  BY <1>1, CountsTail DEF Chain, Ending
<1>3. Head(s1) > 0 =>
         /\ Head(s1) = lo + 1 /\ Chain(Tail(s1), s2, s3, lo + 1, hi)
         /\ Ending(Tail(s1), s2, s3) <=> Ending(s1, s2, s3)
  BY <1>1, CountsTail DEF Chain, Ending
<1>4. Head(s1) = -1 => lo = hi /\ Ending(s1, s2, s3)
  BY <1>1, CountsTail DEF Ending
<1> QED  BY <1>2, <1>3, <1>4

\* What the pipe holds is lost.
LEMMA ChainLoses ==
  ASSUME NEW s1, NEW s2, NEW s3,
         NEW lo \in Nat, NEW hi \in Nat, Chain(s1, s2, s3, lo, hi)
  PROVE  \E m \in Nat :
            /\ m <= hi /\ Chain(s1, s2, << >>, lo, m)
            /\ Ending(s1, s2, << >>) => m = hi /\ Ending(s1, s2, s3)
<1>1. PICK a \in Nat, b \in Nat :
         /\ Counts(s1, lo, a) /\ Counts(s2, a, b) /\ Counts(s3, b, hi)
         /\ HasEnd(s1) => b = a /\ ~ HasEnd(s2)
         /\ HasEnd(s1) \/ HasEnd(s2) => hi = b /\ ~ HasEnd(s3)
  BY DEF Chain
<1>2. b <= hi
  BY <1>1 DEF Counts
<1>3. Counts(<< >>, b, b) /\ ~ HasEnd(<< >>)
  BY EmptyCounts
<1>4. Chain(s1, s2, << >>, lo, b)
  BY <1>1, <1>3 DEF Chain
<1>5. Ending(s1, s2, << >>) => b = hi /\ Ending(s1, s2, s3)
  BY <1>1, <1>3 DEF Ending
<1> QED  BY <1>2, <1>4, <1>5

-----------------------------------------------------------------------------
(* From the app-server to Run *)

\* What a note is to a Run: nothing of its turn, an item with its number, or the end.
Tag(r, note) ==
    IF note.turn # r THEN 0 ELSE IF note.kind = "item" THEN note.n ELSE -1
LineTag(r, line) == IF line.kind = "notification" THEN Tag(r, line.note) ELSE 0

\* The places of the notes of a Run: its channel, readLoop and the pipe.
Mapped(f, s) == [k \in 1..Len(s) |-> f[s[k]]]
NoteTags(r) == [note \in Notes |-> Tag(r, note)]
LineTags(r) == [line \in Lines |-> LineTag(r, line)]

InChannel(r) == Mapped(NoteTags(r), events[r])
InHand(r) == IF reader.pc = "handle" THEN <<Tag(r, reader.note)>> ELSE << >>
InPipe(r) == Mapped(LineTags(r), output)

\* Channel, reader and pipe hold the items behind those that Run has passed on, up to
\* the last one while the app-server is alive, and the end of the turn comes last.
Flow(r) ==
    \E top \in Nat :
       /\ Chain(InChannel(r), InHand(r), InPipe(r), Len(emitted[r]), top)
       /\ Ending(InChannel(r), InHand(r), InPipe(r)) => top = sent[r] /\ turn[r] = "ended"
       /\ top <= sent[r] /\ (alive => top = sent[r])

\* What Run has passed on, and what it has returned.
Passed(r) ==
    /\ turn[r] = "none" => sent[r] = 0
    /\ phase[r] = "idle" => ctx[r] = "none"
    /\ \A n \in DOMAIN emitted[r] : emitted[r][n].turn = r
    /\ ctx[r] # "done" =>
          /\ \A n \in DOMAIN emitted[r] : emitted[r][n] = Item(r, n)
          /\ result[r] = "ok" => turn[r] = "ended" /\ Len(emitted[r]) = sent[r]

\* While Run is on its way with a live context, the handler that readLoop is in is its
\* own, if the note is, and the items are in a row.
Following(r) ==
    ctx[r] # "done" /\ phase[r] # "returned" =>
       /\ result[r] = "none"
       /\ reader.pc = "handle" /\ reader.note.turn = r => reader.handler = r
       /\ Flow(r)

FlowInv == \A r \in Runs : Passed(r) /\ Following(r)

\* A tag says what the note is.
LEMMA TagOf ==
  ASSUME NEW r \in Runs, NEW note \in Notes
  PROVE  /\ Tag(r, note) \in Tags
         /\ Tag(r, note) = 0 <=> note.turn # r
         /\ Tag(r, note) > 0 <=> note.turn = r /\ note.kind = "item"
         /\ Tag(r, note) > 0 => note = Item(r, Tag(r, note))
         /\ Tag(r, note) = -1 <=> note.turn = r /\ note.kind = "completed"
<1>1. CASE note \in [turn : Runs, kind : {"item"}, status : {"none"}, n : Nat \ {0}]
  <2>1. /\ note.kind = "item" /\ note.n \in Nat \ {0} /\ note.status = "none"
        /\ note = [turn |-> note.turn, kind |-> note.kind, status |-> note.status, n |-> note.n]
    BY <1>1
  <2>2. CASE note.turn = r
    <3>1. Tag(r, note) = note.n
      BY <2>1, <2>2 DEF Tag
    <3>2. note = Item(r, note.n)
      BY <2>1, <2>2 DEF Item
    <3> QED  BY <2>1, <2>2, <3>1, <3>2 DEF Tags
  <2>3. CASE note.turn # r
    BY <2>3 DEF Tag, Tags
  <2> QED  BY <2>2, <2>3
<1>2. CASE note \in [turn : Runs, kind : {"completed"}, status : Statuses, n : {0}]
  <2>1. note.kind = "completed"
    BY <1>2
  <2> QED  BY <2>1 DEF Tag, Tags
<1> QED  BY <1>1, <1>2 DEF Notes

LEMMA LineTagOf ==
  ASSUME NEW r \in Runs, NEW line \in Lines
  PROVE  /\ LineTag(r, line) \in Tags
         /\ line.kind = "notification" => line.note \in Notes
  BY TagOf DEF LineTag, Lines, Tags

LEMMA SameTags ==
  ASSUME NEW s \in Seq(Tags), NEW t \in Seq(Tags), Len(s) = Len(t),
         \A k \in 1..Len(s) : s[k] = t[k]
  PROVE  s = t
  OBVIOUS

LEMMA MappedOf ==
  ASSUME NEW S, NEW f \in [S -> Tags], NEW s \in Seq(S)
  PROVE  /\ Mapped(f, s) \in Seq(Tags)
         /\ s # << >> =>
               /\ Mapped(f, s) # << >> /\ Head(Mapped(f, s)) = f[Head(s)]
               /\ Mapped(f, Tail(s)) = Tail(Mapped(f, s))
         /\ \A e \in S : Mapped(f, Append(s, e)) = Append(Mapped(f, s), f[e])
<1> DEFINE m == Mapped(f, s)
<1>1. ASSUME NEW t \in Seq(S)
      PROVE  /\ Mapped(f, t) \in Seq(Tags) /\ Len(Mapped(f, t)) = Len(t)
             /\ \A k \in 1..Len(t) : Mapped(f, t)[k] = f[t[k]]
  <2>1. \A k \in 1..Len(t) : f[t[k]] \in Tags
    OBVIOUS
  <2> QED  BY <2>1 DEF Mapped
<1>2. /\ m \in Seq(Tags) /\ Len(m) = Len(s) /\ Len(s) \in Nat
      /\ \A k \in 1..Len(s) : m[k] = f[s[k]]
  BY <1>1
<1> HIDE DEF m
<1>3. ASSUME s # << >>
      PROVE  m # << >> /\ Head(m) = f[Head(s)] /\ Mapped(f, Tail(s)) = Tail(m)
  <2> DEFINE t == Tail(s)  mt == Mapped(f, t)
  <2>1. /\ t \in Seq(S) /\ Len(t) = Len(s) - 1 /\ Len(s) \in Nat \ {0}
        /\ \A k \in 1..Len(t) : t[k] = s[k + 1]
    BY <1>3
  <2>2. m # << >> /\ Head(m) = f[Head(s)]
    BY <1>2, <1>3, <2>1
  <2>3. /\ Tail(m) \in Seq(Tags) /\ Len(Tail(m)) = Len(s) - 1
        /\ \A k \in 1..Len(s) - 1 : Tail(m)[k] = m[k + 1]
    BY <1>2, <2>2
  <2> HIDE DEF t
  <2>4. mt \in Seq(Tags) /\ Len(mt) = Len(t) /\ \A k \in 1..Len(t) : mt[k] = f[t[k]]
    BY <1>1, <2>1
  <2> HIDE DEF mt
  <2>5. \A k \in 1..Len(s) - 1 : m[k + 1] = f[s[k + 1]]
    BY <1>2, <2>1
  <2>6. mt = Tail(m)
    BY <2>1, <2>3, <2>4, <2>5, SameTags
  <2> QED  BY <2>2, <2>6 DEF t, mt
<1>4. ASSUME NEW e \in S
      PROVE  Mapped(f, Append(s, e)) = Append(m, f[e])
  <2> DEFINE t == Append(s, e)  mt == Mapped(f, t)
  <2>1. /\ t \in Seq(S) /\ Len(t) = Len(s) + 1 /\ t[Len(s) + 1] = e
        /\ \A k \in 1..Len(s) : t[k] = s[k]
    OBVIOUS
  <2>2. /\ Append(m, f[e]) \in Seq(Tags) /\ Len(Append(m, f[e])) = Len(s) + 1
        /\ \A k \in 1..Len(s) : Append(m, f[e])[k] = m[k]
        /\ Append(m, f[e])[Len(s) + 1] = f[e]
    <3>1. f[e] \in Tags
      OBVIOUS
    <3> QED  BY <1>2, <3>1
  <2> HIDE DEF t
  <2>3. mt \in Seq(Tags) /\ Len(mt) = Len(t) /\ \A k \in 1..Len(t) : mt[k] = f[t[k]]
    BY <1>1, <2>1
  <2> HIDE DEF mt
  <2>4. \A k \in 1..Len(s) + 1 : mt[k] = Append(m, f[e])[k]
    <3>1. \A k \in 1..Len(s) + 1 : k \in 1..Len(s) \/ k = Len(s) + 1
      BY <1>2
    <3> QED  BY <1>2, <2>1, <2>2, <2>3, <3>1
  <2>5. mt = Append(m, f[e])
    BY <2>1, <2>2, <2>3, <2>4, SameTags
  <2> QED  BY <2>5 DEF t, mt
<1> QED  BY <1>2, <1>3, <1>4 DEF m

LEMMA TagFunctions ==
  ASSUME NEW r \in Runs
  PROVE  /\ NoteTags(r) \in [Notes -> Tags]
         /\ \A note \in Notes : NoteTags(r)[note] = Tag(r, note)
         /\ LineTags(r) \in [Lines -> Tags]
         /\ \A line \in Lines : LineTags(r)[line] = LineTag(r, line)
<1>1. \A note \in Notes : Tag(r, note) \in Tags
  BY TagOf
<1>2. \A line \in Lines : LineTag(r, line) \in Tags
  BY LineTagOf
<1>3. NoteTags(r) \in [Notes -> Tags] /\ \A note \in Notes : NoteTags(r)[note] = Tag(r, note)
  BY <1>1 DEF NoteTags
<1>4. LineTags(r) \in [Lines -> Tags] /\ \A line \in Lines : LineTags(r)[line] = LineTag(r, line)
  BY <1>2 DEF LineTags
<1> QED  BY <1>3, <1>4

LEMMA PlaceTypes ==
  ASSUME Typing, NEW r \in Runs
  PROVE  /\ InChannel(r) \in Seq(Tags) /\ InHand(r) \in Seq(Tags) /\ InPipe(r) \in Seq(Tags)
         /\ reader.pc = "handle" => Tag(r, reader.note) \in Tags
         /\ Len(emitted[r]) \in Nat /\ sent[r] \in Nat
<1>1. events[r] \in Seq(Notes) /\ output \in Seq(Lines) /\ emitted[r] \in Seq(Notes)
  BY DEF Typing, ReaderTyping, RunTyping
<1>2. InChannel(r) \in Seq(Tags) /\ InPipe(r) \in Seq(Tags)
  BY <1>1, TagFunctions, MappedOf DEF InChannel, InPipe
<1>3. reader.pc = "handle" => Tag(r, reader.note) \in Tags
  BY TagOf DEF Typing, ReaderTyping
<1>4. InHand(r) \in Seq(Tags)
  BY <1>3, Single DEF InHand
<1>5. Len(emitted[r]) \in Nat /\ sent[r] \in Nat
  BY <1>1, MaxItemsAssumption DEF Typing, RunTyping
<1> QED  BY <1>2, <1>3, <1>4, <1>5

LEMMA InitFlow == Init => FlowInv
<1> SUFFICES ASSUME Init, NEW r \in Runs PROVE Passed(r) /\ Following(r)
  BY DEF FlowInv
<1>1. /\ turn[r] = "none" /\ sent[r] = 0 /\ phase[r] = "idle" /\ ctx[r] = "none"
      /\ emitted[r] = << >> /\ events[r] = << >> /\ result[r] = "none"
      /\ reader.pc = "scan" /\ output = << >>
  BY DEF Init, ClientInit, Scanning
<1>2. Passed(r)
  BY <1>1 DEF Passed
<1>3. InChannel(r) = << >> /\ InHand(r) = << >> /\ InPipe(r) = << >> /\ Len(emitted[r]) = 0
  BY <1>1 DEF InChannel, InHand, InPipe, Mapped
<1>4. Chain(<< >>, << >>, << >>, 0, 0) /\ ~ Ending(<< >>, << >>, << >>)
  BY EmptyCounts DEF Chain, Ending
<1>5. Flow(r)
  BY <1>1, <1>3, <1>4 DEF Flow
<1> QED  BY <1>1, <1>2, <1>5 DEF Following

\* What a step leaves alone that is none of a Run's business.
LEMMA FlowStays ==
  ASSUME NEW r \in Runs, Passed(r), Following(r),
         UNCHANGED <<ctx[r], emitted[r], result[r], events[r], sent[r], output>>,
         \/ reader' = reader
         \/ reader.pc # "handle" /\ reader'.pc # "handle",
         \/ turn'[r] = turn[r]
         \/ turn[r] = "none" /\ turn'[r] = "running",
         alive' => alive,
         phase[r] = "returned" => phase'[r] = "returned",
         phase'[r] = "idle" => phase[r] = "idle"
  PROVE  Passed(r)' /\ Following(r)'
<1>1. Passed(r)'
  BY DEF Passed
<1>2. /\ InChannel(r)' = InChannel(r) /\ InHand(r)' = InHand(r) /\ InPipe(r)' = InPipe(r)
  BY DEF InChannel, InHand, InPipe
<1>3. Flow(r) => Flow(r)'
  BY <1>2 DEF Flow
<1>4. Following(r)'
  BY <1>3 DEF Following
<1> QED  BY <1>1, <1>4

\* Begin, and the end of the context or of Run.
LEMMA BeginKeepsFlow ==
  ASSUME Typing, FlowInv, NEW q \in Runs, Begin(q), NEW r \in Runs
  PROVE  Passed(r)' /\ Following(r)'
<1>1. /\ UNCHANGED <<emitted, result, events, sent, output, reader, turn, alive>>
      /\ phase[q] = "idle" /\ phase'[q] # "idle"
      /\ \A p \in Runs \ {q} : phase'[p] = phase[p] /\ ctx'[p] = ctx[p]
      /\ ctx'[q] = "live"
  <2>1. PICK p \in Phase : Moves(q, p)
    BY RunMoves
  <2> QED
    BY <2>1 DEF Begin, Moves, vars, clientVars, serverVars, codexVars, Typing, RunTyping
<1>2. CASE r # q
  <2>1. /\ UNCHANGED <<ctx[r], emitted[r], result[r], events[r], sent[r], output>>
        /\ reader' = reader /\ turn'[r] = turn[r] /\ alive' = alive /\ phase'[r] = phase[r]
    BY <1>1, <1>2
  <2> QED  BY <2>1, FlowStays DEF FlowInv
<1>3. CASE r = q
  <2>1. ctx[r] = "none" /\ Passed(r) /\ Following(r)
    BY <1>1, <1>3 DEF FlowInv, Passed
  <2>2. Passed(r)'
    BY <1>1, <1>3, <2>1 DEF Passed
  <2>3. /\ InChannel(r)' = InChannel(r) /\ InHand(r)' = InHand(r) /\ InPipe(r)' = InPipe(r)
    BY <1>1 DEF InChannel, InHand, InPipe
  <2>4. Flow(r) => Flow(r)'
    BY <1>1, <2>3 DEF Flow
  <2> QED  BY <1>1, <1>3, <2>1, <2>2, <2>4 DEF Following
<1> QED  BY <1>2, <1>3

LEMMA ReturnKeepsFlow ==
  ASSUME Typing, FlowInv, NEW q \in Runs, CallDone(q), NEW r \in Runs
  PROVE  Passed(r)' /\ Following(r)'
<1>1. UNCHANGED <<ctx, emitted, events, sent, output, reader, turn, alive>>
  BY DEF CallDone, serverVars, codexVars
<1>2. PICK p \in Phase : Moves(q, p)
  BY RunMoves
<1>3. /\ phase'[q] = p /\ \A t \in Runs \ {q} : phase'[t] = phase[t]
      /\ phase[q] # "returned" /\ p # "idle" /\ phase[q] # "idle"
  BY <1>2, Methods DEF Moves, CallDone, Typing, RunTyping
<1>4. CASE UNCHANGED result
  <2>1. /\ UNCHANGED <<ctx[r], emitted[r], result[r], events[r], sent[r], output>>
        /\ reader' = reader /\ turn'[r] = turn[r] /\ alive' = alive
        /\ phase[r] = "returned" => phase'[r] = "returned"
        /\ phase'[r] = "idle" => phase[r] = "idle"
    BY <1>1, <1>3, <1>4
  <2> QED  BY <2>1, FlowStays DEF FlowInv
<1>5. CASE \E outcome \in {"error", "ctx"} : RunReturns(q, outcome)
  <2>1. /\ \A t \in Runs \ {q} : result'[t] = result[t]
        /\ result'[q] # "ok" /\ phase'[q] = "returned"
    BY <1>5 DEF RunReturns, Typing, RunTyping
  <2>2. CASE r # q
    <3>1. /\ UNCHANGED <<ctx[r], emitted[r], result[r], events[r], sent[r], output>>
          /\ reader' = reader /\ turn'[r] = turn[r] /\ alive' = alive
          /\ phase'[r] = phase[r]
      BY <1>1, <1>3, <2>1, <2>2
    <3> QED  BY <3>1, FlowStays DEF FlowInv
  <2>3. CASE r = q
    <3>1. Passed(r)'
      BY <1>1, <1>3, <2>1, <2>3 DEF FlowInv, Passed
    <3> QED  BY <2>1, <2>3, <3>1 DEF Following
  <2> QED  BY <2>2, <2>3
<1> QED  BY <1>4, <1>5 DEF CallDone

LEMMA ContextKeepsFlow ==
  ASSUME Typing, FlowInv, NEW q \in Runs, ContextEnds(q), NEW r \in Runs
  PROVE  Passed(r)' /\ Following(r)'
<1>1. /\ UNCHANGED <<emitted, result, events, sent, output, reader, turn, alive, phase>>
      /\ ctx[q] = "live" /\ ctx'[q] = "done" /\ \A p \in Runs \ {q} : ctx'[p] = ctx[p]
  BY DEF ContextEnds, vars, clientVars, serverVars, codexVars, Typing, RunTyping
<1>2. CASE r # q
  <2>1. /\ UNCHANGED <<ctx[r], emitted[r], result[r], events[r], sent[r], output>>
        /\ reader' = reader /\ turn'[r] = turn[r] /\ alive' = alive /\ phase'[r] = phase[r]
    BY <1>1, <1>2
  <2> QED  BY <2>1, FlowStays DEF FlowInv
<1>3. CASE r = q
  BY <1>1, <1>3 DEF FlowInv, Passed, Following
<1> QED  BY <1>2, <1>3

\* The reader takes a line.
LEMMA ScanKeepsFlow ==
  ASSUME Typing, Control, FlowInv, Scan, UNCHANGED <<runVars, codexVars>>, NEW r \in Runs
  PROVE  Passed(r)' /\ Following(r)'
<1>1. /\ UNCHANGED <<phase, ctx, emitted, result, events, sent, turn, alive>>
      /\ reader = Scanning /\ reader.pc = "scan"
      /\ output # << >> /\ output \in Seq(Lines) /\ output' = Tail(output)
  BY DEF Scan, runVars, codexVars, Typing, ReaderTyping, Scanning
<1>2. PICK line : line = Head(output)
  OBVIOUS
<1>3. line \in Lines
  BY <1>1, <1>2
<1>4. Passed(r)' /\ InChannel(r)' = InChannel(r)
  BY <1>1 DEF FlowInv, Passed, InChannel
<1>5. SUFFICES ASSUME ctx[r] # "done", phase[r] # "returned"
               PROVE  /\ reader'.pc = "handle" /\ reader'.note.turn = r => reader'.handler = r
                      /\ Flow(r)'
  BY <1>1, <1>4 DEF FlowInv, Following
<1>6. PICK top \in Nat :
         /\ Chain(InChannel(r), << >>, InPipe(r), Len(emitted[r]), top)
         /\ Ending(InChannel(r), << >>, InPipe(r)) => top = sent[r] /\ turn[r] = "ended"
         /\ top <= sent[r] /\ (alive => top = sent[r])
  BY <1>1, <1>5 DEF FlowInv, Following, Flow, InHand
<1>7. /\ InChannel(r) \in Seq(Tags) /\ InPipe(r) \in Seq(Tags)
      /\ Len(emitted[r]) \in Nat /\ sent[r] \in Nat
  BY PlaceTypes
<1>8. /\ InPipe(r) # << >> /\ Head(InPipe(r)) = LineTag(r, line)
      /\ InPipe(r)' = Tail(InPipe(r))
  BY <1>1, <1>2, <1>3, TagFunctions, MappedOf DEF InPipe
<1>9. /\ Chain(InChannel(r), <<LineTag(r, line)>>, InPipe(r)', Len(emitted[r]), top)
      /\ Ending(InChannel(r), <<LineTag(r, line)>>, InPipe(r)')
            <=> Ending(InChannel(r), << >>, InPipe(r))
      /\ LineTag(r, line) = 0 =>
            /\ Chain(InChannel(r), << >>, InPipe(r)', Len(emitted[r]), top)
            /\ Ending(InChannel(r), << >>, InPipe(r)')
                  <=> Ending(InChannel(r), << >>, InPipe(r))
      /\ LineTag(r, line) > 0 => top > 0
      /\ LineTag(r, line) = -1 => Ending(InChannel(r), << >>, InPipe(r))
  <2>1. PICK s1, s3, rest, tag, lo :
           /\ s1 = InChannel(r) /\ s3 = InPipe(r) /\ rest = InPipe(r)'
           /\ tag = LineTag(r, line) /\ lo = Len(emitted[r])
    OBVIOUS
  <2>2. /\ s1 \in Seq(Tags) /\ s3 \in Seq(Tags) /\ s3 # << >> /\ lo \in Nat
        /\ Chain(s1, << >>, s3, lo, top) /\ tag = Head(s3) /\ rest = Tail(s3)
    BY <1>6, <1>7, <1>8, <2>1
  <2>3. /\ Chain(s1, <<tag>>, rest, lo, top)
        /\ Ending(s1, <<tag>>, rest) <=> Ending(s1, << >>, s3)
        /\ tag = 0 => /\ Chain(s1, << >>, rest, lo, top)
                      /\ Ending(s1, << >>, rest) <=> Ending(s1, << >>, s3)
        /\ tag > 0 => top > 0
        /\ tag = -1 => Ending(s1, << >>, s3)
    BY <2>2, ChainScans
  <2> QED  BY <2>1, <2>3
<1>10. LineTag(r, line) # 0 => handler = r
  <2>1. SUFFICES ASSUME LineTag(r, line) # 0 PROVE handler = r
    OBVIOUS
  <2>2. turn[r] # "none"
    <3>1. LineTag(r, line) > 0 \/ LineTag(r, line) = -1
      BY <1>3, <2>1, LineTagOf DEF Tags
    <3>2. sent[r] > 0 \/ turn[r] = "ended"
      BY <1>6, <1>7, <1>9, <3>1
    <3>3. turn[r] = "none" => sent[r] = 0
      BY DEF FlowInv, Passed
    <3> QED  BY <1>7, <3>2, <3>3
  <2> QED
    BY <1>5, <2>2 DEF Control, TurnFitsPhase, HandlerFitsPhase, Started, Handling
<1>11. CASE InHand(r)' = << >> /\ LineTag(r, line) = 0 /\ reader'.pc # "handle"
  BY <1>1, <1>4, <1>6, <1>9, <1>11 DEF Flow
<1>12. CASE /\ line.kind = "notification"
            /\ reader' = [pc |-> "handle", handler |-> handler, note |-> line.note]
  <2>1. /\ reader'.pc = "handle" /\ reader'.note = line.note /\ reader'.handler = handler
    BY <1>12
  <2>2. LineTag(r, line) = Tag(r, line.note)
    BY <1>12 DEF LineTag
  <2>3. InHand(r)' = <<LineTag(r, line)>>
    BY <2>1, <2>2 DEF InHand
  <2>4. Flow(r)'
    BY <1>1, <1>4, <1>6, <1>9, <2>3 DEF Flow
  <2>5. line.note.turn = r => LineTag(r, line) # 0
    BY <1>3, <1>12, <2>2, TagOf, LineTagOf
  <2> QED  BY <1>10, <2>1, <2>4, <2>5
<1>13. CASE line.kind \in {"response", "prompt"}
  <2>1. reader'.pc # "handle"
    BY <1>2, <1>13 DEF Scan, Scanning
  <2> QED  BY <1>11, <1>13, <2>1 DEF LineTag, InHand
<1>14. CASE line.kind = "notification" /\ handler = NoHandler
  <2>1. reader'.pc # "handle"
    BY <1>2, <1>14 DEF Scan, Scanning
  <2>2. LineTag(r, line) = 0
    BY <1>10, <1>14, RunsAssumption, NoHandlerAssumption
  <2> QED  BY <1>11, <2>1, <2>2 DEF InHand
<1> QED
  BY <1>2, <1>12, <1>13, <1>14 DEF Scan

\* The handler puts the note into the channel of its Run, or gives up since the context
\* of that Run has ended.
LEMMA HandlerKeepsFlow ==
  ASSUME Typing, FlowInv, HandlerSends \/ HandlerGivesUp, NEW r \in Runs
  PROVE  Passed(r)' /\ Following(r)'
<1>1. /\ UNCHANGED <<phase, ctx, emitted, result, sent, turn, alive, output>>
      /\ reader.pc = "handle" /\ reader'.pc = "scan"
  BY DEF HandlerSends, HandlerGivesUp, HandlerReturns, Scanning, runVars, codexVars,
         serverVars
<1>2. PICK h, note : h = reader.handler /\ note = reader.note
  OBVIOUS
<1>3. h \in Runs /\ note \in Notes
  BY <1>1, <1>2 DEF Typing, ReaderTyping
<1>4. \/ /\ HandlerGivesUp /\ events' = events /\ ctx[h] = "done"
      \/ /\ HandlerSends
         /\ events' = [events EXCEPT ![h] = Append(events[h], note)]
  BY <1>2 DEF HandlerSends, HandlerGivesUp, runVars
<1>5. Passed(r)'
  BY <1>1 DEF FlowInv, Passed
<1>6. SUFFICES ASSUME ctx[r] # "done", phase[r] # "returned" PROVE Flow(r)'
  BY <1>1, <1>5 DEF FlowInv, Following
<1>7. PICK e, s1, s3, lo :
         /\ e = Tag(r, note) /\ s1 = InChannel(r) /\ s3 = InPipe(r) /\ lo = Len(emitted[r])
  OBVIOUS
<1>8. InHand(r) = <<e>> /\ InHand(r)' = << >> /\ InPipe(r)' = s3
  BY <1>1, <1>2, <1>7 DEF InHand, InPipe
<1>9. PICK top \in Nat :
         /\ Chain(s1, <<e>>, s3, lo, top)
         /\ Ending(s1, <<e>>, s3) => top = sent[r] /\ turn[r] = "ended"
         /\ top <= sent[r] /\ (alive => top = sent[r])
  BY <1>6, <1>7, <1>8 DEF FlowInv, Following, Flow
<1>10. e \in Tags /\ s1 \in Seq(Tags) /\ s3 \in Seq(Tags) /\ lo \in Nat
  BY <1>1, <1>2, <1>7, PlaceTypes
<1>11. /\ Chain(Append(s1, e), << >>, s3, lo, top)
       /\ Ending(Append(s1, e), << >>, s3) <=> Ending(s1, <<e>>, s3)
       /\ e = 0 =>
             /\ Chain(s1, << >>, s3, lo, top)
             /\ Ending(s1, << >>, s3) <=> Ending(s1, <<e>>, s3)
  BY <1>9, <1>10, ChainSends
<1>12. CASE InChannel(r)' = Append(s1, e)
  BY <1>1, <1>7, <1>8, <1>9, <1>11, <1>12 DEF Flow
<1>13. CASE InChannel(r)' = s1 /\ e = 0
  BY <1>1, <1>7, <1>8, <1>9, <1>11, <1>13 DEF Flow
<1>14. CASE h = r
  <2>1. events[r] \in Seq(Notes) /\ events'[r] = Append(events[r], note)
    BY <1>4, <1>6, <1>14 DEF Typing, RunTyping
  <2>2. InChannel(r)' = Append(s1, e)
    BY <1>3, <1>7, <2>1, TagFunctions, MappedOf DEF InChannel
  <2> QED  BY <1>12, <2>2
<1>15. CASE h # r
  <2>1. note.turn # r
    BY <1>1, <1>2, <1>6, <1>15 DEF FlowInv, Following
  <2>2. e = 0
    BY <1>7, <2>1 DEF Tag
  <2>3. events'[r] = events[r]
    BY <1>4, <1>15 DEF Typing, RunTyping
  <2>4. InChannel(r)' = s1
    BY <1>7, <2>3 DEF InChannel
  <2> QED  BY <1>13, <2>2, <2>4
<1> QED  BY <1>14, <1>15

\* What is in the pipe may be lost when the client is closed, or the app-server stops.
LEMMA EndKeepsFlow ==
  ASSUME Typing, FlowInv, Shutdown \/ CodexStops, NEW r \in Runs
  PROVE  Passed(r)' /\ Following(r)'
<1>1. /\ UNCHANGED <<phase, ctx, emitted, result, events, sent, turn, reader>>
      /\ output' \in {output, << >>} /\ alive' = FALSE
  BY DEF Shutdown, CodexStops, Close, ServerStops, runVars, codexVars, clientVars
<1>2. CASE output' = output
  <2>1. /\ UNCHANGED <<ctx[r], emitted[r], result[r], events[r], sent[r], output>>
        /\ reader' = reader /\ turn'[r] = turn[r] /\ (alive' => alive) /\ phase'[r] = phase[r]
    BY <1>1, <1>2
  <2> QED  BY <2>1, FlowStays DEF FlowInv
<1>3. CASE output' = << >>
  <2>1. Passed(r)'
    BY <1>1 DEF FlowInv, Passed
  <2>2. SUFFICES ASSUME ctx[r] # "done", phase[r] # "returned" PROVE Flow(r)'
    BY <1>1, <2>1 DEF FlowInv, Following
  <2>3. PICK s1, s2, s3, lo :
           s1 = InChannel(r) /\ s2 = InHand(r) /\ s3 = InPipe(r) /\ lo = Len(emitted[r])
    OBVIOUS
  <2>4. InChannel(r)' = s1 /\ InHand(r)' = s2 /\ InPipe(r)' = << >>
    BY <1>1, <1>3, <2>3 DEF InChannel, InHand, InPipe, Mapped
  <2>5. PICK top \in Nat :
           /\ Chain(s1, s2, s3, lo, top)
           /\ Ending(s1, s2, s3) => top = sent[r] /\ turn[r] = "ended"
           /\ top <= sent[r]
    BY <2>2, <2>3 DEF FlowInv, Following, Flow
  <2>6. lo \in Nat /\ sent[r] \in Nat
    BY <2>3, PlaceTypes
  <2>7. PICK m \in Nat :
            /\ m <= top /\ Chain(s1, s2, << >>, lo, m)
            /\ Ending(s1, s2, << >>) => m = top /\ Ending(s1, s2, s3)
    BY <2>5, <2>6, ChainLoses
  <2>8. m <= sent[r]
    BY <2>5, <2>6, <2>7
  <2> QED  BY <1>1, <2>3, <2>4, <2>5, <2>7, <2>8 DEF Flow
<1> QED  BY <1>1, <1>2, <1>3

\* Run takes what is first in its channel.
LEMMA ReceiveKeepsFlow ==
  ASSUME Typing, FlowInv, NEW q \in Runs, Receive(q), NEW r \in Runs
  PROVE  Passed(r)' /\ Following(r)'
<1>1. /\ UNCHANGED <<ctx, sent, turn, alive, output, reader>>
      /\ phase[q] = "loop" /\ events[q] # << >>
      /\ events' = [events EXCEPT ![q] = Tail(events[q])]
  BY DEF Receive, serverVars, codexVars
<1>2. CASE r # q
  <2>1. /\ UNCHANGED <<ctx[r], emitted[r], result[r], events[r], sent[r], output>>
        /\ reader' = reader /\ turn'[r] = turn[r] /\ alive' = alive /\ phase'[r] = phase[r]
    BY <1>1, <1>2 DEF Receive, RunReturns, Typing, RunTyping
  <2> QED  BY <2>1, FlowStays DEF FlowInv
<1>3. CASE r = q
  <2>1. PICK event : event = Head(events[r])
    OBVIOUS
  <2>2. events[r] \in Seq(Notes) /\ event \in Notes /\ events[r] # << >>
    BY <1>1, <1>3, <2>1 DEF Typing, RunTyping
  <2>3. PICK e, s1, s2, s3, lo :
           /\ e = Tag(r, event) /\ s1 = InChannel(r) /\ s2 = InHand(r) /\ s3 = InPipe(r)
           /\ lo = Len(emitted[r])
    OBVIOUS
  <2>4. s1 \in Seq(Tags) /\ s2 \in Seq(Tags) /\ s3 \in Seq(Tags) /\ lo \in Nat
        /\ sent[r] \in Nat
    BY <2>3, PlaceTypes
  <2>5. s1 # << >> /\ Head(s1) = e /\ InChannel(r)' = Tail(s1)
    <3>1. events'[r] = Tail(events[r])
      BY <1>1, <1>3 DEF Typing, RunTyping
    <3> QED
      BY <2>1, <2>2, <2>3, <3>1, TagFunctions, MappedOf DEF InChannel
  <2>6. InHand(r)' = s2 /\ InPipe(r)' = s3
    BY <1>1, <2>3 DEF InHand, InPipe
  <2>7. emitted[r] \in Seq(Notes)
    BY DEF Typing, RunTyping
  <2>8. ctx[r] # "done" =>
           /\ result[r] = "none"
           /\ \E top \in Nat :
                 /\ Chain(s1, s2, s3, lo, top)
                 /\ Ending(s1, s2, s3) => top = sent[r] /\ turn[r] = "ended"
                 /\ top <= sent[r] /\ (alive => top = sent[r])
    BY <1>1, <1>3, <2>3 DEF FlowInv, Following, Flow
  <2>9. \A top \in Nat : Chain(s1, s2, s3, lo, top) =>
           /\ e = 0 =>
                 /\ Chain(Tail(s1), s2, s3, lo, top)
                 /\ Ending(Tail(s1), s2, s3) <=> Ending(s1, s2, s3)
           /\ e > 0 =>
                 /\ e = lo + 1 /\ Chain(Tail(s1), s2, s3, lo + 1, top)
                 /\ Ending(Tail(s1), s2, s3) <=> Ending(s1, s2, s3)
           /\ e = -1 => lo = top /\ Ending(s1, s2, s3)
    BY <2>4, <2>5, ChainReceives
  <2>10. CASE event.turn # r
    <3>1. UNCHANGED <<emitted, phase, result>> /\ e = 0
      BY <1>3, <2>1, <2>3, <2>10 DEF Receive, Tag
    <3>2. Passed(r)'
      BY <1>1, <3>1 DEF FlowInv, Passed
    <3>3. ctx[r] # "done" => Flow(r)'
      BY <1>1, <2>3, <2>5, <2>6, <2>8, <2>9, <3>1 DEF Flow
    <3> QED  BY <1>1, <3>1, <3>2, <3>3 DEF FlowInv, Following
  <2>11. CASE event.turn = r /\ event.kind = "completed"
    <3>1. /\ emitted' = emitted /\ e = -1 /\ phase'[r] = "returned"
          /\ result'[r] = event.status
      BY <1>3, <2>1, <2>2, <2>3, <2>11, TagOf
         DEF Receive, RunReturns, Typing, RunTyping
    <3>2. ctx[r] # "done" => turn[r] = "ended" /\ Len(emitted[r]) = sent[r]
      BY <2>3, <2>8, <2>9, <3>1
    <3>3. Passed(r)'
      BY <1>1, <1>3, <3>1, <3>2 DEF FlowInv, Passed
    <3> QED  BY <3>1, <3>3 DEF Following
  <2>12. CASE event.turn = r /\ event.kind = "item"
    <3>1. /\ UNCHANGED <<phase, result>>
          /\ emitted' = [emitted EXCEPT ![r] = Append(emitted[r], event)]
          /\ e > 0 /\ event = Item(r, e)
      BY <1>3, <2>1, <2>2, <2>3, <2>12, TagOf DEF Receive
    <3>2. emitted'[r] = Append(emitted[r], event)
      BY <3>1 DEF Typing, RunTyping
    <3>3. /\ Len(emitted'[r]) = lo + 1 /\ emitted'[r][lo + 1] = event
          /\ DOMAIN emitted'[r] = DOMAIN emitted[r] \cup {lo + 1}
          /\ \A n \in DOMAIN emitted[r] : emitted'[r][n] = emitted[r][n]
      BY <2>2, <2>3, <2>7, <3>2
    <3>4. ctx[r] # "done" => e = lo + 1 /\ result[r] = "none"
      BY <2>8, <2>9, <3>1
    <3>5. Passed(r)'
      BY <1>1, <1>3, <2>12, <3>1, <3>3, <3>4 DEF FlowInv, Passed
    <3>6. ctx[r] # "done" => Flow(r)'
      <4>1. SUFFICES ASSUME ctx[r] # "done" PROVE Flow(r)'
        OBVIOUS
      <4>2. PICK top \in Nat :
                 /\ Chain(s1, s2, s3, lo, top)
                 /\ Ending(s1, s2, s3) => top = sent[r] /\ turn[r] = "ended"
                 /\ top <= sent[r] /\ (alive => top = sent[r])
        BY <2>8, <4>1
      <4>3. /\ Chain(Tail(s1), s2, s3, lo + 1, top)
            /\ Ending(Tail(s1), s2, s3) <=> Ending(s1, s2, s3)
        BY <2>9, <3>1, <4>2
      <4> QED  BY <1>1, <2>5, <2>6, <3>3, <4>2, <4>3 DEF Flow
    <3> QED  BY <1>1, <3>1, <3>5, <3>6 DEF FlowInv, Following
  <2> QED  BY <1>3, <2>1, <2>10, <2>11, <2>12 DEF Receive
<1> QED  BY <1>2, <1>3

\* The app-server writes a line.
LEMMA SayKeepsFlow ==
  ASSUME Typing, FlowInv, NEW line \in Lines, Say(line), alive,
         UNCHANGED <<phase, ctx, emitted, result, events, reader, alive>>, NEW r \in Runs,
         \/ LineTag(r, line) = 0 /\ sent'[r] = sent[r] /\ turn'[r] = turn[r]
         \/ LineTag(r, line) = sent[r] + 1 /\ sent'[r] = sent[r] + 1
               /\ turn[r] = "running" /\ turn'[r] = turn[r]
         \/ LineTag(r, line) = -1 /\ sent'[r] = sent[r]
               /\ turn[r] = "running" /\ turn'[r] = "ended"
  PROVE  Passed(r)' /\ Following(r)'
<1>1. Passed(r)'
  BY DEF FlowInv, Passed
<1>2. SUFFICES ASSUME ctx[r] # "done", phase[r] # "returned" PROVE Flow(r)'
  BY <1>1 DEF FlowInv, Following
<1>3. PICK e, s1, s2, s3, lo :
         /\ e = LineTag(r, line) /\ s1 = InChannel(r) /\ s2 = InHand(r) /\ s3 = InPipe(r)
         /\ lo = Len(emitted[r])
  OBVIOUS
<1>4. s1 \in Seq(Tags) /\ s2 \in Seq(Tags) /\ s3 \in Seq(Tags) /\ lo \in Nat
      /\ sent[r] \in Nat
  BY <1>3, PlaceTypes
<1>5. InChannel(r)' = s1 /\ InHand(r)' = s2
  BY <1>3 DEF InChannel, InHand
<1>6. InPipe(r)' = Append(s3, e)
  <2>1. output \in Seq(Lines) /\ output' = Append(output, line)
    BY DEF Say, Typing, ReaderTyping
  <2> QED  BY <1>3, <2>1, TagFunctions, MappedOf DEF InPipe
<1>7. PICK top \in Nat :
         /\ Chain(s1, s2, s3, lo, top)
         /\ Ending(s1, s2, s3) => top = sent[r] /\ turn[r] = "ended"
         /\ top = sent[r]
  BY <1>2, <1>3 DEF FlowInv, Following, Flow
<1>8. /\ /\ Chain(s1, s2, Append(s3, 0), lo, top)
         /\ Ending(s1, s2, Append(s3, 0)) <=> Ending(s1, s2, s3)
      /\ ~ Ending(s1, s2, s3) =>
            /\ Chain(s1, s2, Append(s3, top + 1), lo, top + 1)
            /\ ~ Ending(s1, s2, Append(s3, top + 1))
      /\ ~ Ending(s1, s2, s3) => Chain(s1, s2, Append(s3, -1), lo, top)
  BY <1>4, <1>7, ChainSays
<1>9. CASE e = 0 /\ sent'[r] = sent[r] /\ turn'[r] = turn[r]
  BY <1>3, <1>4, <1>5, <1>6, <1>7, <1>8, <1>9 DEF Flow
<1>10. CASE e = sent[r] + 1 /\ sent'[r] = sent[r] + 1 /\ turn[r] = "running"
            /\ turn'[r] = turn[r]
  <2>1. /\ top + 1 \in Nat /\ top + 1 = sent'[r]
        /\ Chain(s1, s2, Append(s3, e), lo, top + 1) /\ ~ Ending(s1, s2, Append(s3, e))
    BY <1>4, <1>7, <1>8, <1>10
  <2> QED  BY <1>3, <1>5, <1>6, <2>1 DEF Flow
<1>11. CASE e = -1 /\ sent'[r] = sent[r] /\ turn[r] = "running" /\ turn'[r] = "ended"
  BY <1>3, <1>4, <1>5, <1>6, <1>7, <1>8, <1>11 DEF Flow
<1> QED  BY <1>3, <1>9, <1>10, <1>11

\* An item, the end of a turn, a response.
LEMMA CodexKeepsFlow ==
  ASSUME Typing, FlowInv, NEW r \in Runs,
         \/ \E q \in Runs : CodexItem(q) \/ CodexEndsTurn(q)
         \/ \E request \in asked, ok \in BOOLEAN : CodexAnswers(request, ok)
         \/ CodexPrompts
  PROVE  Passed(r)' /\ Following(r)'
<1>1. sent[r] \in Nat
  BY PlaceTypes
<1>2. ASSUME NEW q \in Runs, CodexItem(q)
      PROVE  Passed(r)' /\ Following(r)'
  <2>1. PICK line : line = [kind |-> "notification", note |-> Item(q, sent[q] + 1)]
    OBVIOUS
  <2>2. sent[q] \in Nat /\ Item(q, sent[q] + 1) \in Notes
    <3>1. sent[q] \in Nat /\ sent[q] + 1 \in Nat \ {0}
      BY PlaceTypes
    <3> QED  BY <3>1, NewNotes
  <2>3. line \in Lines
    BY <2>1, <2>2 DEF Lines
  <2>4. /\ Say(line) /\ alive /\ turn[q] = "running"
        /\ UNCHANGED <<phase, ctx, emitted, result, events, reader, alive, turn>>
        /\ sent' = [sent EXCEPT ![q] = sent[q] + 1]
    BY <1>2, <2>1 DEF CodexItem, Notify, runVars, clientVars
  <2>5. LineTag(r, line) = IF q = r THEN sent[q] + 1 ELSE 0
    BY <2>1 DEF LineTag, Tag, Item
  <2>6. IF q = r THEN sent'[r] = sent[r] + 1 ELSE sent'[r] = sent[r]
    BY <2>4 DEF Typing, RunTyping
  <2>7. CASE q = r
    BY <2>3, <2>4, <2>5, <2>6, <2>7, SayKeepsFlow
  <2>8. CASE q # r
    BY <2>3, <2>4, <2>5, <2>6, <2>8, SayKeepsFlow
  <2> QED  BY <2>7, <2>8
<1>3. ASSUME NEW q \in Runs, CodexEndsTurn(q)
      PROVE  Passed(r)' /\ Following(r)'
  <2>1. PICK status \in Statuses : Notify(Completed(q, status))
    BY <1>3, OutcomesAssumption DEF CodexEndsTurn, Statuses
  <2>2. PICK line : line = [kind |-> "notification", note |-> Completed(q, status)]
    OBVIOUS
  <2>3. line \in Lines
    BY <2>2, NewNotes DEF Lines
  <2>4. /\ Say(line) /\ alive /\ turn[q] = "running"
        /\ UNCHANGED <<phase, ctx, emitted, result, events, reader, alive, sent>>
        /\ turn' = [turn EXCEPT ![q] = "ended"]
    BY <1>3, <2>1, <2>2 DEF CodexEndsTurn, Notify, runVars, clientVars
  <2>5. LineTag(r, line) = IF q = r THEN -1 ELSE 0
    BY <2>2 DEF LineTag, Tag, Completed
  <2>6. IF q = r THEN turn'[r] = "ended" ELSE turn'[r] = turn[r]
    BY <2>4 DEF Typing, RunTyping
  <2>7. CASE q = r
    BY <2>3, <2>4, <2>5, <2>6, <2>7, SayKeepsFlow
  <2>8. CASE q # r
    BY <2>3, <2>4, <2>5, <2>6, <2>8, SayKeepsFlow
  <2> QED  BY <2>7, <2>8
<1>4. ASSUME NEW request \in asked, NEW ok \in BOOLEAN, CodexAnswers(request, ok)
      PROVE  Passed(r)' /\ Following(r)'
  <2>1. PICK line : line = [kind |-> "response", id |-> request.id, ok |-> ok]
    OBVIOUS
  <2>2. line \in Lines
    BY <2>1 DEF Lines, Typing, CallTyping
  <2>3. /\ Say(line) /\ alive
        /\ UNCHANGED <<phase, ctx, emitted, result, events, reader, alive, sent, turn>>
    BY <1>4, <2>1 DEF CodexAnswers, Answer, runVars, clientVars, codexVars
  <2>4. LineTag(r, line) = 0
    BY <2>1 DEF LineTag
  <2> QED  BY <2>2, <2>3, <2>4, SayKeepsFlow
<1>5. ASSUME CodexPrompts
      PROVE  Passed(r)' /\ Following(r)'
  <2>1. PICK line : line = [kind |-> "prompt"]
    OBVIOUS
  <2>2. line \in Lines
    BY <2>1 DEF Lines
  <2>3. /\ Say(line) /\ alive
        /\ UNCHANGED <<phase, ctx, emitted, result, events, reader, alive, sent, turn>>
    BY <1>5, <2>1 DEF CodexPrompts, Prompt, runVars, clientVars, codexVars
  <2>4. LineTag(r, line) = 0
    BY <2>1 DEF LineTag
  <2> QED  BY <2>2, <2>3, <2>4, SayKeepsFlow
<1> QED  BY <1>2, <1>3, <1>4, <1>5

\* Everything else moves neither notes nor items.
LEMMA OthersKeepFlow ==
  ASSUME Typing, FlowInv, NEW r \in Runs,
         \/ \E q \in Runs : Install(q) \/ MakeCall(q) \/ CallTimesOut(q) \/ ContextSeen(q)
         \/ \E c \in Callers : OtherCalls(c) \/ CallStep(c)
         \/ ReaderStep /\ ~ Scan
         \/ WriteReturns
         \/ LineCannotBeDecoded
         \/ \E request \in asked : CodexStartsTurn(request)
         \/ UNCHANGED runnerVars
  PROVE  Passed(r)' /\ Following(r)'
<1>1. UNCHANGED <<ctx, emitted, result, events, sent, output, alive>>
  BY DEF Install, MakeCall, CallTimesOut, ContextSeen, OtherCalls, CallStep, ReaderStep,
         LineCannotBeDecoded, CodexStartsTurn, WriteReturns, Refused, LockReader, Lock,
         Register, Send, CallAnswered, CallClosed,
         CallCanceled, Deliver, ReaderStops, ReaderFails, runnerVars, vars, runVars,
         codexVars, clientVars, serverVars
<1>2. \/ reader' = reader
      \/ reader.pc # "handle" /\ reader'.pc # "handle"
  BY DEF Install, MakeCall, CallTimesOut, ContextSeen, OtherCalls, CallStep, ReaderStep,
         LineCannotBeDecoded, CodexStartsTurn, WriteReturns, Refused, LockReader, Lock,
         Register, Send, CallAnswered, CallClosed,
         CallCanceled, Deliver, ReaderStops, ReaderFails, Scanning, runnerVars, vars,
         clientVars
<1>3. \/ turn'[r] = turn[r]
      \/ turn[r] = "none" /\ turn'[r] = "running"
  <2>1. CASE \E request \in asked : CodexStartsTurn(request)
    BY <2>1 DEF CodexStartsTurn, Typing, RunTyping
  <2>2. CASE turn' = turn
    BY <2>2
  <2> QED
    BY <2>1, <2>2
       DEF Install, MakeCall, CallTimesOut, ContextSeen, OtherCalls, CallStep, ReaderStep,
           WriteReturns, LineCannotBeDecoded, runnerVars, codexVars
<1>4. /\ phase[r] = "returned" => phase'[r] = "returned"
      /\ phase'[r] = "idle" => phase[r] = "idle"
  <2>1. ASSUME NEW q \in Runs, Install(q) \/ ContextSeen(q) PROVE (phase[r] = "returned" => phase'[r] = "returned") /\ (phase'[r] = "idle" => phase[r] = "idle")
    <3>1. PICK p \in Phase : Moves(q, p)
      BY <2>1, RunMoves
    <3> QED  BY <3>1 DEF Moves, Typing, RunTyping
  <2>2. CASE phase' = phase
    BY <2>2
  <2> QED
    BY <2>1, <2>2
       DEF MakeCall, CallTimesOut, OtherCalls, CallStep, ReaderStep, WriteReturns,
           LineCannotBeDecoded, CodexStartsTurn, runnerVars, runVars
<1> QED  BY <1>1, <1>2, <1>3, <1>4, FlowStays DEF FlowInv

LEMMA FlowSteps == Typing /\ Control /\ FlowInv /\ [Next]_runnerVars => FlowInv'
<1> SUFFICES ASSUME Typing, Control, FlowInv, [Next]_runnerVars, NEW r \in Runs
             PROVE  Passed(r)' /\ Following(r)'
  BY DEF FlowInv
<1>1. CASE \E q \in Runs : Begin(q) \/ CallDone(q) \/ ContextEnds(q) \/ Receive(q)
  BY <1>1, BeginKeepsFlow, ReturnKeepsFlow, ContextKeepsFlow, ReceiveKeepsFlow
<1>2. CASE HandlerSends \/ HandlerGivesUp \/ Shutdown \/ CodexStops
  BY <1>2, HandlerKeepsFlow, EndKeepsFlow
<1>3. CASE ReaderStep /\ Scan
  BY <1>3, ScanKeepsFlow DEF ReaderStep
<1>4. CASE \/ \E q \in Runs : CodexItem(q) \/ CodexEndsTurn(q)
           \/ \E request \in asked, ok \in BOOLEAN : CodexAnswers(request, ok)
           \/ CodexPrompts
  BY <1>4, CodexKeepsFlow
<1>5. CASE \/ \E q \in Runs : Install(q) \/ MakeCall(q) \/ CallTimesOut(q) \/ ContextSeen(q)
           \/ \E c \in Callers : OtherCalls(c) \/ CallStep(c)
           \/ ReaderStep /\ ~ Scan
           \/ WriteReturns
           \/ LineCannotBeDecoded
           \/ \E request \in asked : CodexStartsTurn(request)
           \/ UNCHANGED runnerVars
  BY <1>5, OthersKeepFlow
<1> QED  BY <1>1, <1>2, <1>3, <1>4, <1>5 DEF Next

LEMMA RunnerInv == Spec => [](Typing /\ Control /\ FlowInv)
<1>1. Init => Typing /\ Control /\ FlowInv
  BY InitTyping, InitControl, InitFlow
<1>2. Typing /\ Control /\ FlowInv /\ [Next]_runnerVars => (Typing /\ Control /\ FlowInv)'
  BY TypingSteps, ControlSteps, FlowSteps
<1> QED  BY <1>1, <1>2, PTL DEF Spec

\* The parts of the client, the Runs and the Codex turns keep their shape, ids are
\* distinct, a channel never holds more than its capacity, and a handler that is set is
\* the one of the Run that is active (TypeOK).
THEOREM RunnerTyping == Spec => []TypeOK
<1>1. ClientInv /\ Typing /\ Control => TypeOK
  <2> SUFFICES ASSUME ClientInv, Typing, Control PROVE TypeOK
    OBVIOUS
  <2>1. ClientTypeOK
    BY RunsAssumption
       DEF ClientInv, IdsAreOwn, Typing, CallTyping, ReaderTyping, ClientTypeOK
  <2>2. handler # NoHandler => Active(handler)
    BY DEF Typing, ReaderTyping, Control, HandlerFitsPhase, Handling, Active
  <2> QED  BY <2>1, <2>2 DEF Typing, RunTyping, Phase, TypeOK
<1> QED  BY <1>1, ClientInvariant, RunnerInv, PTL

\* What a Run passes on is of its own turn, in order and without a gap while its context
\* is live, and all of it when the turn ends well, although the reader drops notes that
\* find no handler and the app-server may stop or be closed at any point (NothingMissed).
THEOREM RunnerMissesNothing == Spec => []NothingMissed
<1>1. Typing /\ Control /\ FlowInv => NothingMissed
  BY DEF FlowInv, Passed, NothingMissed
<1> QED  BY <1>1, RunnerInv, PTL
=============================================================================
