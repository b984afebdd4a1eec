-------------------------- MODULE AppServerRunner --------------------------
(***************************************************************************)
(* The runner of a turn (internal/runner/appserver.go) on top of the       *)
(* client of the app-server: Run prepares a thread, starts a Codex turn    *)
(* and follows its notifications until it ends or the context of the turn  *)
(* does.  readLoop hands the notifications to Run through a channel, so    *)
(* that a Run that is slow, or gone, holds up every call of the agent.     *)
(*                                                                         *)
(* The controller starts one Run at a time (TurnController).  A thread id  *)
(* and a turn id are one name here, that of the Run that asked for the     *)
(* turn; a list of several pages is one call.                              *)
(***************************************************************************)
EXTENDS AppServerClient

CONSTANTS
    Runs,              \* calls of Run, the callers with a turn of their own
    Requests,          \* forms of request: with a profile, of a known thread
    EventsCap,         \* capacity of the events channel (512)
    MaxItems,          \* bound on the items of a Codex turn
    Outcomes,          \* bound: the statuses a Codex turn may end with
    Endings            \* bound: the ways the client may come to its end

ASSUME RunsAssumption == Runs \subseteq Callers /\ Handlers = Runs
ASSUME RequestsAssumption ==
    Requests \subseteq [profile : BOOLEAN, thread : BOOLEAN]
ASSUME EventsCapAssumption == EventsCap \in Nat \ {0}
ASSUME MaxItemsAssumption == MaxItems \in Nat
ASSUME OutcomesAssumption == Outcomes \subseteq {"ok", "interrupted", "error"}
ASSUME EndingsAssumption == Endings \subseteq {"stopped", "closed", "undecodable"}

VARIABLES
    phase, req,        \* where Run is, and its request
    ctx,               \* the context of the turn: the deadline or an interrupt
    events,            \* the channel of each Run
    emitted,           \* history: the items that Run has passed on
    result,            \* what Run has returned
    turn, sent         \* external: the Codex turns and the items they produced

runVars == <<phase, req, ctx, events, emitted, result>>
codexVars == <<turn, sent>>
runnerVars == <<vars, runVars, codexVars>>

Item(r, n) == [turn |-> r, kind |-> "item", status |-> "none", n |-> n]
Completed(r, status) ==
    [turn |-> r, kind |-> "completed", status |-> status, n |-> 0]

Statuses == {"ok", "interrupted", "error"}
MethodOf == [validate |-> "permissionProfile/list", list |-> "thread/list",
             resume |-> "thread/resume", create |-> "thread/start",
             start |-> "turn/start", interrupt |-> "turn/interrupt"]
Active(r) == phase[r] \notin {"idle", "returned"}

-----------------------------------------------------------------------------
(* Run up to the start of the turn *)

NextPhaseInstallLate(p, request) ==  \* mutant: the handler after turn/start
    CASE p = "idle" /\ request.profile -> "validate"
      [] (p = "idle" /\ ~request.profile) \/ p = "validate"
            -> IF request.thread THEN "list" ELSE "create"
      [] p = "list" -> "resume"
      [] p \in {"resume", "create"} -> "start"
      [] p = "start" -> "install"
      [] p = "install" -> "loop"

\* Profile check, notification handler, thread, turn, in this order.
NextPhase(p, request) ==
    CASE p = "idle" -> IF request.profile THEN "validate" ELSE "install"
      [] p = "validate" -> "install"
      [] p = "install" -> IF request.thread THEN "list" ELSE "create"
      [] p = "list" -> "resume"
      [] p \in {"resume", "create"} -> "start"
      [] p = "start" -> "loop"

Advance(r) == phase' = [phase EXCEPT ![r] = NextPhase(@, req[r])]

RunReturnsKeepsHandler(r, outcome) ==  \* mutant: no deferred call
    /\ phase' = [phase EXCEPT ![r] = "returned"]
    /\ result' = [result EXCEPT ![r] = outcome]
    /\ UNCHANGED handler

\* Run returns, and its deferred call removes the handler.
RunReturns(r, outcome) ==
    /\ phase' = [phase EXCEPT ![r] = "returned"]
    /\ result' = [result EXCEPT ![r] = outcome]
    /\ IF phase[r] = "validate" THEN UNCHANGED handler
                                ELSE SetNotificationHandler(NoHandler)

Begin(r) ==
    /\ phase[r] = "idle"
    /\ \A q \in Runs : ~Active(q)
    /\ \E request \in Requests :
          /\ req' = [req EXCEPT ![r] = request]
          /\ phase' = [phase EXCEPT ![r] = NextPhase(@, request)]
    /\ ctx' = [ctx EXCEPT ![r] = "live"]
    /\ UNCHANGED <<vars, events, emitted, result, codexVars>>

Install(r) ==
    /\ phase[r] = "install"
    /\ SetNotificationHandler(r)
    /\ Advance(r)
    /\ UNCHANGED <<nextID, pending, channels, call, reader, readErr, serverVars,
                   req, ctx, events, emitted, result, codexVars>>

MakeCall(r) ==
    /\ phase[r] \in DOMAIN MethodOf
    /\ Register(r, MethodOf[phase[r]])
    /\ UNCHANGED <<runVars, codexVars>>

\* The call of the phase has returned.  A profile may turn out not to be
\* allowed, and a thread not to belong to the project.
CallDone(r) ==
    /\ phase[r] \in DOMAIN MethodOf /\ Returned(r)
    /\ call' = [call EXCEPT ![r] = Idle]
    /\ \/ /\ phase[r] # "interrupt" /\ call[r].pc = "ok"
          /\ Advance(r)
          /\ UNCHANGED <<handler, result>>
       \/ /\ \/ phase[r] \in {"validate", "list"}
             \/ phase[r] # "interrupt" /\ call[r].pc = "failed"
          /\ RunReturns(r, "error")
       \/ /\ phase[r] = "interrupt"
          /\ RunReturns(r, "ctx")
    /\ UNCHANGED <<nextID, pending, channels, reader, readErr, serverVars,
                   req, ctx, events, emitted, codexVars>>

InterruptWithoutTimeout(r) ==      \* mutant: turn/interrupt waits for ever
    /\ phase[r] # "interrupt" /\ ctx[r] = "done"
    /\ CallCanceled(r)
    /\ UNCHANGED <<runVars, codexVars>>

\* turn/interrupt is called under a context of three seconds, everything else
\* under the context of the turn.
CallTimesOut(r) ==
    /\ phase[r] = "interrupt" \/ ctx[r] = "done"
    /\ CallCanceled(r)
    /\ UNCHANGED <<runVars, codexVars>>

\* The deadline of the turn or an interrupt; the deadline stays in force after
\* Run has returned.
ContextEnds(r) ==
    /\ ctx[r] = "live"
    /\ ctx' = [ctx EXCEPT ![r] = "done"]
    /\ UNCHANGED <<vars, phase, req, events, emitted, result, codexVars>>

-----------------------------------------------------------------------------
(* The handler, run by readLoop, and the loop of Run *)

\* The handler of a Run sends to its channel when there is room.
HandlerSends ==
    /\ reader.pc = "handle"
    /\ LET r == reader.handler IN
       /\ Len(events[r]) < EventsCap
       /\ events' = [events EXCEPT ![r] = Append(@, reader.note)]
    /\ HandlerReturns
    /\ UNCHANGED <<phase, req, ctx, emitted, result, codexVars>>

HandlerNeverGivesUp ==             \* mutant: no look at the context
    /\ reader.pc = "handle"
    /\ FALSE
    /\ HandlerReturns
    /\ UNCHANGED <<runVars, codexVars>>

\* The other branch of the select.
HandlerGivesUp ==
    /\ reader.pc = "handle"
    /\ ctx[reader.handler] = "done"
    /\ HandlerReturns
    /\ UNCHANGED <<runVars, codexVars>>

ReceiveAnyTurn(r) ==               \* mutant: events are not filtered by turn
    /\ phase[r] = "loop" /\ events[r] # << >>
    /\ events' = [events EXCEPT ![r] = Tail(@)]
    /\ LET event == Head(events[r]) IN
       \/ /\ event.kind = "completed" /\ event.turn = r
          /\ RunReturns(r, event.status)
          /\ UNCHANGED emitted
       \/ /\ event.kind = "item"
          /\ emitted' = [emitted EXCEPT ![r] = Append(@, event)]
          /\ UNCHANGED <<phase, result, handler>>
    /\ UNCHANGED <<nextID, pending, channels, call, reader, readErr, serverVars,
                   req, ctx, codexVars>>

\* The next event: one of another turn is skipped, an item is passed on, the
\* end of the turn ends Run.
Receive(r) ==
    /\ phase[r] = "loop" /\ events[r] # << >>
    /\ events' = [events EXCEPT ![r] = Tail(@)]
    /\ LET event == Head(events[r]) IN
       \/ /\ event.turn # r
          /\ UNCHANGED <<emitted, phase, result, handler>>
       \/ /\ event.turn = r /\ event.kind = "completed"
          /\ RunReturns(r, event.status)
          /\ UNCHANGED emitted
       \/ /\ event.turn = r /\ event.kind = "item"
          /\ emitted' = [emitted EXCEPT ![r] = Append(@, event)]
          /\ UNCHANGED <<phase, result, handler>>
    /\ UNCHANGED <<nextID, pending, channels, call, reader, readErr, serverVars,
                   req, ctx, codexVars>>

ContextSeen(r) ==
    /\ phase[r] = "loop" /\ ctx[r] = "done"
    /\ phase' = [phase EXCEPT ![r] = "interrupt"]
    /\ UNCHANGED <<vars, req, ctx, events, emitted, result, codexVars>>

-----------------------------------------------------------------------------
(* The other goroutines of the agent, and readLoop *)

\* A call for the inventory, under the context of the process.
OtherCalls(c) ==
    /\ c \notin Runs
    /\ Register(c, "thread/read")
    /\ UNCHANGED <<runVars, codexVars>>

CallStep(c) ==
    /\ Lock(c) \/ CallAnswered(c) \/ CallClosed(c)
    /\ UNCHANGED <<runVars, codexVars>>

ReaderStep ==
    /\ Scan \/ Deliver \/ LockReader \/ ReaderStops
    /\ UNCHANGED <<runVars, codexVars>>

\* The write that holds the lock comes to its end.
WriteReturns ==
    /\ Refused \/ \E c \in Callers : Send(c)
    /\ UNCHANGED <<runVars, codexVars>>

LineCannotBeDecoded ==
    /\ "undecodable" \in Endings
    /\ ReaderFails
    /\ UNCHANGED <<runVars, codexVars>>

\* The agent shuts down, with or without a turn that runs.
Shutdown ==
    /\ "closed" \in Endings
    /\ Close
    /\ UNCHANGED <<runVars, codexVars>>

-----------------------------------------------------------------------------
(* The app-server, as far as the agent relies on it *)

\* turn/start is carried out when it is read, whether or not its caller still
\* waits for the answer.
CodexStartsTurn(request) ==
    /\ alive
    /\ request.method = "turn/start" /\ turn[request.caller] = "none"
    /\ request.id \notin answered
    /\ turn' = [turn EXCEPT ![request.caller] = "running"]
    /\ UNCHANGED <<vars, runVars, sent>>

CodexAnswers(request, ok) ==
    /\ request.method = "turn/start" => (ok <=> turn[request.caller] # "none")
    /\ Answer(request, ok)
    /\ UNCHANGED <<runVars, codexVars>>

CodexItem(r) ==
    /\ turn[r] = "running" /\ sent[r] < MaxItems
    /\ sent' = [sent EXCEPT ![r] = @ + 1]
    /\ Notify(Item(r, sent[r] + 1))
    /\ UNCHANGED <<runVars, turn>>

CodexEndsTurn(r) ==
    /\ turn[r] = "running"
    /\ turn' = [turn EXCEPT ![r] = "ended"]
    /\ \E status \in Outcomes : Notify(Completed(r, status))
    /\ UNCHANGED <<runVars, sent>>

CodexPrompts ==
    /\ Prompt
    /\ UNCHANGED <<runVars, codexVars>>

CodexStops ==
    /\ "stopped" \in Endings
    /\ ServerStops
    /\ UNCHANGED <<runVars, codexVars>>

-----------------------------------------------------------------------------
Init ==
    /\ ClientInit
    /\ phase = [r \in Runs |-> "idle"] /\ ctx = [r \in Runs |-> "none"]
    /\ req = [r \in Runs |-> [profile |-> FALSE, thread |-> FALSE]]
    /\ events = [r \in Runs |-> << >>] /\ emitted = [r \in Runs |-> << >>]
    /\ result = [r \in Runs |-> "none"]
    /\ turn = [r \in Runs |-> "none"] /\ sent = [r \in Runs |-> 0]

Next ==
    \/ \E r \in Runs :
          \/ Begin(r) \/ Install(r) \/ MakeCall(r) \/ CallDone(r)
          \/ CallTimesOut(r) \/ ContextEnds(r)
          \/ Receive(r) \/ ContextSeen(r)
          \/ CodexItem(r) \/ CodexEndsTurn(r)
    \/ \E c \in Callers : OtherCalls(c) \/ CallStep(c)
    \/ HandlerSends \/ HandlerGivesUp \/ ReaderStep \/ WriteReturns
    \/ LineCannotBeDecoded \/ Shutdown
    \/ \E request \in asked :
          \/ CodexStartsTurn(request)
          \/ \E ok \in BOOLEAN : CodexAnswers(request, ok)
    \/ CodexPrompts \/ CodexStops

\* Goroutines are scheduled, select is fair to the branches that are ready, a turn
\* has a deadline, and a write to a process that is gone fails.  Nothing is assumed
\* of an app-server that is alive but that it answers the calls of the inventory
\* that it has read: it need not read at all.
Fairness ==
    /\ \A r \in Runs :
          /\ WF_runnerVars(Install(r)) /\ WF_runnerVars(MakeCall(r))
          /\ WF_runnerVars(CallDone(r)) /\ WF_runnerVars(CallTimesOut(r))
          /\ WF_runnerVars(ContextEnds(r)) /\ WF_runnerVars(Receive(r))
          /\ WF_runnerVars(ContextSeen(r))
    /\ \A c \in Callers : WF_runnerVars(CallStep(c))
    /\ WF_runnerVars(HandlerSends \/ HandlerGivesUp)
    /\ WF_runnerVars(ReaderStep) /\ WF_runnerVars(~alive /\ WriteReturns)
    /\ WF_runnerVars(\E request \in asked, ok \in BOOLEAN :
                        request.caller \notin Runs /\ CodexAnswers(request, ok))

Spec == Init /\ [][Next]_runnerVars
FairSpec == Spec /\ Fairness

-----------------------------------------------------------------------------
(* Properties *)

\* Phases, contexts, channels and results have their declared shape, the channel of
\* a Run never holds more than its capacity, and notifications are never left for a
\* Run that has gone: the handler is the one of the Run that is active, or none.
TypeOK ==
    /\ ClientTypeOK
    /\ phase \in [Runs -> {"idle", "install", "loop", "returned"}
                             \cup DOMAIN MethodOf]
    /\ req \in [Runs -> [profile : BOOLEAN, thread : BOOLEAN]]
    /\ ctx \in [Runs -> {"none", "live", "done"}]
    /\ \A r \in Runs : Len(events[r]) <= EventsCap
    /\ handler # NoHandler => Active(handler)
    /\ result \in [Runs -> Statuses \cup {"none", "ctx"}]
    /\ turn \in [Runs -> {"none", "running", "ended"}]
    /\ sent \in [Runs -> 0..MaxItems]

\* What a Run passes on is its turn's own items, in their order and without a
\* gap while its context is live, although Codex may produce them before its
\* answer to turn/start and another turn may still be running: a Run that ends
\* with its turn has passed on every item, so its summary is complete.  A context
\* that ends may cost items, but nothing of another turn is passed on even then.
NothingMissed ==
    \A r \in Runs :
        /\ \A n \in DOMAIN emitted[r] : emitted[r][n].turn = r
        /\ ctx[r] = "live" =>
              /\ \A n \in DOMAIN emitted[r] : emitted[r][n] = Item(r, n)
              /\ result[r] = "ok" => Len(emitted[r]) = sent[r]

\* An app-server that lives takes what is written to it: no write keeps writeMu for
\* ever.  The code has no bound of its own for a write, so this is a condition of
\* CallersReturn and no fairness of the specification.
InputIsRead == []<>(LockFree \/ ~alive)

\* Run returns whatever becomes of the app-server as long as it does not cease to read
\* its input while it lives: it stops, does not answer, asks questions of its own, or
\* its last line cannot be decoded; and so does a call of the inventory, although it
\* shares readLoop and writeMu with the turns.
CallersReturn ==
    InputIsRead =>
        /\ \A r \in Runs : Active(r) ~> phase[r] = "returned"
        /\ \A c \in Callers \ Runs : InCall(c) ~> ~InCall(c)

\* readLoop gets out of every handler, also when the channel is full and the Run
\* that should empty it has returned.
ReaderComesBack == reader.pc = "handle" ~> reader.pc # "handle"

\* The agent runs one turn at a time in all: there are never two Codex turns.
OneCodexTurn ==
    \A r, q \in Runs : turn[r] = "running" /\ turn[q] = "running" => r = q
=============================================================================
