-------------------------- MODULE AppServerClient --------------------------
(***************************************************************************)
(* The JSON-RPC client of the Codex app-server                             *)
(* (internal/codexapp/client.go): any number of goroutines make calls over *)
(* one pipe, one goroutine (readLoop) reads what comes back and hands a    *)
(* response to the call that waits for it and a notification to the        *)
(* handler.  A write takes neither a context nor a deadline: it holds      *)
(* writeMu until the app-server has taken what is written or is gone.      *)
(*                                                                         *)
(* The app-server is external: it reads its input when it likes, answers   *)
(* calls in any order or not at all, writes notifications and interactive  *)
(* requests of its own, and may stop or write a line that cannot be        *)
(* decoded.  AppServerRunner says who calls, which handler there is and    *)
(* what the app-server does with a request.                                *)
(***************************************************************************)
EXTENDS Naturals, Sequences, FiniteSets

CONSTANTS
    Callers,           \* goroutines that call, one call at a time each
    Handlers,          \* notification handlers
    NoHandler,         \* the nil handler
    MaxCalls,          \* bound on the calls made in a behaviour
    MaxPrompts         \* bound on the interactive requests of the app-server

ASSUME NoHandlerAssumption == NoHandler \notin Handlers
ASSUME MaxCallsAssumption == MaxCalls \in Nat
ASSUME MaxPromptsAssumption == MaxPrompts \in Nat

VARIABLES
    nextID, pending,   \* fields of Client; pending holds the ids of the map
    channels,          \* ids whose response channel holds a response
    call,              \* the call each goroutine makes
    reader,            \* readLoop
    handler,
    readErr,           \* set by finish, which closes Client.closed as well
    asked,             \* external: requests that the app-server has read
    answered,          \* external: ids it has answered
    output,            \* external: lines in the pipe to readLoop
    prompts,           \* external: interactive requests it has made
    alive              \* external: the app-server runs

clientVars == <<nextID, pending, channels, call, reader, handler, readErr>>
serverVars == <<asked, answered, output, prompts, alive>>

Ids == 1..MaxCalls
Idle == [pc |-> "idle"]
Scanning == [pc |-> "scan"]

InCall(c) == call[c].pc \in {"registered", "writing", "waiting"}
Returned(c) == call[c].pc \in {"ok", "failed"}
Return(c, outcome) == call' = [call EXCEPT ![c] = [pc |-> outcome]]

\* writeMu: one caller or readLoop is in Client.write.
LockFree == reader.pc # "writing" /\ \A c \in Callers : call[c].pc # "writing"

-----------------------------------------------------------------------------
(* Call *)

\* An id, and a place in the map unless the client has finished.
Register(c, method) ==
    /\ call[c] = Idle
    /\ nextID < MaxCalls
    /\ nextID' = nextID + 1
    /\ \/ /\ readErr = "none"
          /\ pending' = pending \cup {nextID + 1}
          /\ call' = [call EXCEPT ![c] =
                 [pc |-> "registered", id |-> nextID + 1, method |-> method]]
       \/ /\ readErr # "none"
          /\ Return(c, "failed")
          /\ UNCHANGED pending
    /\ UNCHANGED <<channels, reader, handler, readErr, serverVars>>

Lock(c) ==
    /\ call[c].pc = "registered" /\ LockFree
    /\ call' = [call EXCEPT ![c].pc = "writing"]
    /\ UNCHANGED <<nextID, pending, channels, reader, handler, readErr, serverVars>>

\* The write returns when the app-server has taken the request, or with an error
\* when it is gone; removePending then.
Send(c) ==
    /\ call[c].pc = "writing"
    /\ \/ /\ alive
          /\ asked' = asked \cup {[id |-> call[c].id, caller |-> c,
                                   method |-> call[c].method]}
          /\ call' = [call EXCEPT ![c].pc = "waiting"]
          /\ UNCHANGED pending
       \/ /\ ~alive
          /\ pending' = pending \ {call[c].id}
          /\ Return(c, "failed")
          /\ UNCHANGED asked
    /\ UNCHANGED <<nextID, channels, reader, handler, readErr, answered, output,
                   prompts, alive>>

\* The branches of the select: a response, the context, the closed client.
CallAnswered(c) ==
    /\ call[c].pc = "waiting"
    /\ \E response \in channels :
          /\ response.id = call[c].id
          /\ channels' = channels \ {response}
          /\ Return(c, IF response.ok THEN "ok" ELSE "failed")
    /\ UNCHANGED <<nextID, pending, reader, handler, readErr, serverVars>>

CallCanceledKeepsPending(c) ==     \* mutant: no removePending
    /\ call[c].pc = "waiting"
    /\ Return(c, "failed")
    /\ UNCHANGED <<nextID, pending, channels, reader, handler, readErr, serverVars>>

CallCanceled(c) ==
    /\ call[c].pc = "waiting"
    /\ pending' = pending \ {call[c].id}
    /\ Return(c, "failed")
    /\ UNCHANGED <<nextID, channels, reader, handler, readErr, serverVars>>

CallClosed(c) ==
    /\ call[c].pc = "waiting"
    /\ readErr # "none"
    /\ Return(c, "failed")
    /\ UNCHANGED <<nextID, pending, channels, reader, handler, readErr, serverVars>>

SetNotificationHandler(h) == handler' = h

-----------------------------------------------------------------------------
(* readLoop, finish and Close *)

FinishTwice(err) ==                \* mutant: a second finish clears the error
    /\ readErr' = IF readErr = "none" THEN err ELSE "none"
    /\ pending' = {}

\* finish does its work once.  The map is replaced and readErr set under the
\* lock, and closed is closed after that: a call that sees one sees both.
Finish(err) ==
    IF readErr = "none" THEN readErr' = err /\ pending' = {}
                        ELSE UNCHANGED <<readErr, pending>>

\* The next line: the channel of a response is looked up and its id deleted
\* under the lock, and so is the handler of a notification.  An interactive request
\* is refused by readLoop itself.
Scan ==
    /\ reader = Scanning /\ output # << >>
    /\ output' = Tail(output)
    /\ LET line == Head(output) IN
       \/ /\ line.kind = "response"
          /\ reader' = IF line.id \in pending
                         THEN [pc |-> "deliver", id |-> line.id, ok |-> line.ok]
                         ELSE Scanning
          /\ pending' = pending \ {line.id}
       \/ /\ line.kind = "notification"
          /\ reader' = IF handler # NoHandler
                         THEN [pc |-> "handle", handler |-> handler,
                               note |-> line.note]
                         ELSE Scanning
          /\ UNCHANGED pending
       \/ /\ line.kind = "prompt"
          /\ reader' = [pc |-> "refuse"]
          /\ UNCHANGED pending
    /\ UNCHANGED <<nextID, channels, call, handler, readErr, asked, answered,
                   prompts, alive>>

\* The refusal is a write like any other; its error is ignored.
LockReader ==
    /\ reader.pc = "refuse" /\ LockFree
    /\ reader' = [pc |-> "writing"]
    /\ UNCHANGED <<nextID, pending, channels, call, handler, readErr, serverVars>>

Refused ==
    /\ reader.pc = "writing"
    /\ reader' = Scanning
    /\ UNCHANGED <<nextID, pending, channels, call, handler, readErr, serverVars>>

\* The channel holds one response; the reader waits if there is one already.
Deliver ==
    /\ reader.pc = "deliver"
    /\ \A response \in channels : response.id # reader.id
    /\ channels' = channels \cup {[id |-> reader.id, ok |-> reader.ok]}
    /\ reader' = Scanning
    /\ UNCHANGED <<nextID, pending, call, handler, readErr, serverVars>>

HandlerReturns ==
    /\ reader.pc = "handle"
    /\ reader' = Scanning
    /\ UNCHANGED <<nextID, pending, channels, call, handler, readErr, serverVars>>

ReaderStopsSilently ==             \* mutant: no finish at the end of the pipe
    /\ reader = Scanning
    /\ output = << >> /\ ~alive
    /\ reader' = [pc |-> "stopped"]
    /\ UNCHANGED <<nextID, pending, channels, call, handler, readErr, serverVars>>

\* A line that is no message, or the end of the pipe, stops the reader.
ReaderStops ==
    /\ reader = Scanning
    /\ output = << >> /\ ~alive
    /\ reader' = [pc |-> "stopped"]
    /\ Finish("stopped")
    /\ UNCHANGED <<nextID, channels, call, handler, serverVars>>

ReaderFails ==
    /\ reader = Scanning
    /\ reader' = [pc |-> "stopped"]
    /\ Finish("undecodable")
    /\ UNCHANGED <<nextID, channels, call, handler, serverVars>>

\* Close ends the process; what it wrote before may be read or lost.
Close ==
    /\ alive
    /\ Finish("closed")
    /\ alive' = FALSE
    /\ output' \in {output, << >>}
    /\ UNCHANGED <<nextID, channels, call, reader, handler, asked, answered, prompts>>

-----------------------------------------------------------------------------
(* The app-server *)

Say(line) == output' = Append(output, line)

Answer(request, ok) ==
    /\ alive /\ request.id \notin answered
    /\ answered' = answered \cup {request.id}
    /\ Say([kind |-> "response", id |-> request.id, ok |-> ok])
    /\ UNCHANGED <<clientVars, asked, prompts, alive>>

Notify(note) ==
    /\ alive
    /\ Say([kind |-> "notification", note |-> note])
    /\ UNCHANGED <<clientVars, asked, answered, prompts, alive>>

Prompt ==
    /\ alive /\ prompts < MaxPrompts
    /\ prompts' = prompts + 1
    /\ Say([kind |-> "prompt"])
    /\ UNCHANGED <<clientVars, asked, answered, alive>>

ServerStops ==
    /\ alive
    /\ alive' = FALSE
    /\ UNCHANGED <<clientVars, asked, answered, output, prompts>>

-----------------------------------------------------------------------------
ClientInit ==
    /\ nextID = 0 /\ pending = {} /\ channels = {}
    /\ call = [c \in Callers |-> Idle]
    /\ reader = Scanning /\ handler = NoHandler /\ readErr = "none"
    /\ asked = {} /\ answered = {} /\ output = << >>
    /\ prompts = 0 /\ alive = TRUE

vars == <<clientVars, serverVars>>

-----------------------------------------------------------------------------
(* Properties *)

\* Ids are distinct and every part of the client has its declared shape.
ClientTypeOK ==
    /\ nextID \in 0..MaxCalls
    /\ pending \subseteq 1..nextID
    /\ channels \subseteq [id : 1..nextID, ok : BOOLEAN]
    /\ \A c \in Callers : InCall(c) => call[c].id \in 1..nextID
    /\ \A c, d \in Callers :
          InCall(c) /\ InCall(d) /\ call[c].id = call[d].id => c = d
    /\ reader.pc \in {"scan", "deliver", "handle", "refuse", "writing", "stopped"}
    /\ handler \in Handlers \cup {NoHandler}
    /\ readErr \in {"none", "stopped", "undecodable", "closed"}

\* The map of calls holds what waits and nothing else: a call that was cancelled,
\* refused or overtaken by the end of the client leaves no entry behind, and a call
\* that waits on a client that has not finished can still be reached: its id is in
\* the map, or its response is on its way or in its channel.
CallsAreTracked ==
    /\ \A id \in pending : \E c \in Callers : InCall(c) /\ call[c].id = id
    /\ \A c \in Callers :
          InCall(c) /\ readErr = "none" =>
              \/ call[c].id \in pending
              \/ reader.pc = "deliver" /\ reader.id = call[c].id
              \/ \E response \in channels : response.id = call[c].id
=============================================================================
