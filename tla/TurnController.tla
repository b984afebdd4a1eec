--------------------------- MODULE TurnController ---------------------------
(***************************************************************************)
(* The turn controller (internal/turn/controller.go): at most one turn at  *)
(* a time, run by a goroutine of its own, against callers of Start,        *)
(* Interrupt, Snapshot and Close and against the deadline of the turn.     *)
(*                                                                         *)
(* What happens under Controller.mu is one step; what happens between two  *)
(* critical sections of the same goroutine (a message handed to the sink,  *)
(* a look at the context, the collection of the Git result) is a step of   *)
(* its own, so that every other goroutine can get in between.              *)
(*                                                                         *)
(* The runner is represented by what its callback may report and by what   *)
(* Run may return; AppServerRunner takes it apart.  Texts are abstracted   *)
(* to the sequence numbers of the item events that carried them; which     *)
(* text is too long for an item, and how many items are too long for a     *)
(* snapshot, is left open.                                                 *)
(***************************************************************************)
EXTENDS Naturals, Sequences, FiniteSets

CONSTANTS
    Traces,            \* trace ids of turn.start messages
    NoTrace,           \* the empty trace id: the agent is idle
    Items,             \* ids of the items of a turn
    LogLines,          \* capacity of the ring of recent output
    MaxReports         \* bound on the item and output events of a behaviour

ASSUME NoTraceAssumption == NoTrace \notin Traces
ASSUME LogLinesAssumption == LogLines \in Nat \ {0}
ASSUME MaxReportsAssumption == MaxReports \in Nat

VARIABLES
    traceID, turnID,   \* fields of Controller; turnID = NoTrace is ""
    ctx,               \* the context of each turn
    exec,              \* the goroutine of each turn, from Start to its return
    liveItems,         \* item -> what is stored of it (LiveItem)
    lastSequence,
    logs,              \* ring of recent output: the trace each line came from
    lastTerminal,      \* type of the last terminal message, or "none"
    published          \* history: every message handed to the sink

vars == <<traceID, turnID, ctx, exec, liveItems, lastSequence, logs,
          lastTerminal, published>>

snapshotVars == <<liveItems, lastSequence, logs, lastTerminal>>

TerminalTypes == {"turn.completed", "turn.failed", "turn.interrupted"}
ItemTypes == {"turn.item.started", "turn.item.delta", "turn.item.completed"}
StatusTypes == {"status.running", "status.idle"}
MessageTypes == TerminalTypes \cup ItemTypes \cup StatusTypes
                  \cup {"turn.started", "turn.output"}

\* item and seq are NoTrace and 0 for messages that carry no item.
Message == [type : MessageTypes, trace : Traces,
            item : Items \cup {NoTrace}, seq : 0..MaxReports]

Plain(type, t) == [type |-> type, trace |-> t, item |-> NoTrace, seq |-> 0]

\* What is stored of an item: the event that created it, which is its place in the
\* list, the events its content reflects, and whether that content was cut.
LiveItem == [since : 0..MaxReports, events : SUBSET (1..MaxReports), cut : BOOLEAN]
Unknown == [since |-> 0, events |-> {}, cut |-> FALSE]

\* Controller.emit
Emit(message) == published' = Append(published, message)

Pc(t) == exec[t].pc
Goto(t, state) == exec' = [exec EXCEPT ![t] = state]
EmitNext(t, message) == Goto(t, [pc |-> "emit", msg |-> message])

-----------------------------------------------------------------------------
(* Start *)

NoItems == [i \in Items |-> Unknown]

StartWithoutCheck(t) ==            \* mutant: no ErrBusy
    /\ Pc(t) = "none"
    /\ traceID' = t /\ turnID' = NoTrace
    /\ ctx' = [ctx EXCEPT ![t] = "live"]
    /\ liveItems' = NoItems /\ lastSequence' = 0
    /\ logs' = << >> /\ lastTerminal' = "none"
    /\ Goto(t, [pc |-> "starting"])
    /\ UNCHANGED published

StartKeepsOutput(t) ==             \* mutant: no logs.Reset
    /\ Pc(t) = "none"
    /\ traceID = NoTrace
    /\ traceID' = t /\ turnID' = NoTrace
    /\ ctx' = [ctx EXCEPT ![t] = "live"]
    /\ liveItems' = NoItems /\ lastSequence' = 0
    /\ lastTerminal' = "none"
    /\ Goto(t, [pc |-> "starting"])
    /\ UNCHANGED <<logs, published>>

\* The check for a running turn and everything done before the unlock.  A
\* request that is invalid or finds the agent busy changes nothing.
Start(t) ==
    /\ Pc(t) = "none"
    /\ traceID = NoTrace
    /\ traceID' = t /\ turnID' = NoTrace
    /\ ctx' = [ctx EXCEPT ![t] = "live"]
    /\ liveItems' = NoItems /\ lastSequence' = 0
    /\ logs' = << >> /\ lastTerminal' = "none"
    /\ Goto(t, [pc |-> "starting"])
    /\ UNCHANGED published

\* Start emits the status before it lets execute run.
EmitRunning(t) ==
    /\ Pc(t) = "starting"
    /\ Emit(Plain("status.running", t))
    /\ Goto(t, [pc |-> "running"])
    /\ UNCHANGED <<traceID, turnID, ctx, snapshotVars>>

-----------------------------------------------------------------------------
(* The contexts: the first of deadline and cancellation decides *)

InterruptFreesSlot(q) ==           \* mutant: idle before the turn has ended
    /\ traceID # NoTrace
    /\ turnID = q
    /\ ctx' = [ctx EXCEPT ![traceID] = IF @ = "live" THEN "canceled" ELSE @]
    /\ traceID' = NoTrace /\ turnID' = NoTrace
    /\ UNCHANGED <<exec, snapshotVars, published>>

\* Interrupt compares the ids of the request with those of the current turn.
Interrupt(q) ==
    /\ traceID # NoTrace
    /\ turnID = q
    /\ ctx' = [ctx EXCEPT ![traceID] = IF @ = "live" THEN "canceled" ELSE @]
    /\ UNCHANGED <<traceID, turnID, exec, snapshotVars, published>>

\* Close, and the cancellation of the parent context at shutdown.
Close ==
    /\ traceID # NoTrace
    /\ ctx' = [ctx EXCEPT ![traceID] = IF @ = "live" THEN "canceled" ELSE @]
    /\ UNCHANGED <<traceID, turnID, exec, snapshotVars, published>>

\* The turn timeout.  Nobody cancels the context of a turn that has returned,
\* so its deadline may still pass later.
Deadline(t) ==
    /\ ctx[t] = "live"
    /\ ctx' = [ctx EXCEPT ![t] = "expired"]
    /\ UNCHANGED <<traceID, turnID, exec, snapshotVars, published>>

-----------------------------------------------------------------------------
(* The callback that execute gives the runner *)

\* EventStarted: the runner reports the turn first, and once.
TurnStarted(t) ==
    /\ Pc(t) = "running" /\ turnID = NoTrace
    /\ turnID' = IF traceID = t THEN t ELSE turnID
    /\ EmitNext(t, Plain("turn.started", t))
    /\ UNCHANGED <<traceID, ctx, snapshotVars, published>>

\* Ring.Add keeps the last LogLines lines.
RingAdd(ring, line) ==
    IF Len(ring) < LogLines THEN Append(ring, line)
                            ELSE Append(Tail(ring), line)

ReportTypes == ItemTypes \cup {"turn.output"}
Reports == {n \in DOMAIN published : published[n].type \in ReportTypes}
MayReport == Cardinality(Reports) < MaxReports

OutputsOf(t) == Cardinality({n \in DOMAIN published :
                    published[n] = Plain("turn.output", t)})

Output(t) ==
    /\ Pc(t) = "running" /\ turnID = t
    /\ MayReport
    /\ logs' = RingAdd(logs, t)
    /\ EmitNext(t, Plain("turn.output", t))
    /\ UNCHANGED <<traceID, turnID, ctx, liveItems, lastSequence, lastTerminal,
                   published>>

StoredItemKnownOnly(type, item, seq, cut) ==    \* mutant: no item for a first delta
    IF type = "turn.item.delta" /\ item = Unknown THEN item
    ELSE [since |-> IF item = Unknown THEN seq ELSE item.since,
          events |-> IF type = "turn.item.delta" THEN item.events \cup {seq} ELSE {seq},
          cut |-> cut]

StoredItemForgetsCut(type, item, seq, cut) ==   \* mutant: the mark is set anew
    LET skipped == type = "turn.item.delta" /\ item.cut IN
    [since |-> IF item = Unknown THEN seq ELSE item.since,
     events |-> IF skipped THEN item.events
                ELSE IF type = "turn.item.delta" THEN item.events \cup {seq} ELSE {seq},
     cut |-> cut]

\* storeStartedItem and storeCompletedItem replace the item by one that is whole or
\* was cut before; storeItemDelta adds to it, and cuts a text that has grown too long,
\* after which nothing is added.  An item that is not known yet is created by any of
\* them and keeps its place from then on.
StoredItem(type, item, seq, cut) ==
    LET skipped == type = "turn.item.delta" /\ item.cut IN
    [since |-> IF item = Unknown THEN seq ELSE item.since,
     events |-> IF skipped THEN item.events
                ELSE IF type = "turn.item.delta" THEN item.events \cup {seq} ELSE {seq},
     cut |-> cut \/ skipped]

ItemEventOldSequence(t, i, type) ==    \* mutant: emits the previous sequence
    /\ Pc(t) = "running" /\ turnID = t
    /\ traceID = t
    /\ MayReport
    /\ lastSequence' = lastSequence + 1
    /\ \E cut \in BOOLEAN :
          liveItems' = [liveItems EXCEPT
                           ![i] = StoredItem(type, @, lastSequence + 1, cut)]
    /\ EmitNext(t, [type |-> type, trace |-> t, item |-> i, seq |-> lastSequence])
    /\ UNCHANGED <<traceID, turnID, ctx, logs, lastTerminal, published>>

\* Store under the lock, emit after it.
ItemEvent(t, i, type) ==
    /\ Pc(t) = "running" /\ turnID = t
    /\ traceID = t
    /\ MayReport
    /\ lastSequence' = lastSequence + 1
    /\ \E cut \in BOOLEAN :
          liveItems' = [liveItems EXCEPT
                           ![i] = StoredItem(type, @, lastSequence + 1, cut)]
    /\ EmitNext(t, [type |-> type, trace |-> t, item |-> i,
                    seq |-> lastSequence + 1])
    /\ UNCHANGED <<traceID, turnID, ctx, logs, lastTerminal, published>>

EmitEvent(t) ==
    /\ Pc(t) = "emit"
    /\ Emit(exec[t].msg)
    /\ Goto(t, [pc |-> "running"])
    /\ UNCHANGED <<traceID, turnID, ctx, snapshotVars>>

-----------------------------------------------------------------------------
(* The end of execute *)

\* Run returns; with a live context and no error only after the turn started.
RunReturns(t, result) ==
    /\ Pc(t) = "running"
    /\ result = "ok" => turnID = t
    /\ Goto(t, [pc |-> "returned", result |-> result])
    /\ UNCHANGED <<traceID, turnID, ctx, snapshotVars, published>>

VerdictResultFirst(context, result) ==    \* mutant: success beats the context
    CASE result = "ok" -> "collect"
      [] context = "expired" /\ result # "ok" -> "turn.failed"
      [] context = "canceled" /\ result # "ok" -> "turn.interrupted"
      [] context = "live" /\ result = "interrupted" -> "turn.interrupted"
      [] context = "live" /\ result = "error" -> "turn.failed"

\* The switch over ctx.Err() and the error of Run, in its order.
Verdict(context, result) ==
    CASE context = "expired" -> "turn.failed"
      [] context = "canceled" \/ (context = "live" /\ result = "interrupted")
            -> "turn.interrupted"
      [] context = "live" /\ result = "error" -> "turn.failed"
      [] context = "live" /\ result = "ok" -> "collect"

Decide(t) ==
    /\ Pc(t) = "returned"
    /\ LET verdict == Verdict(ctx[t], exec[t].result) IN
       Goto(t, IF verdict = "collect" THEN [pc |-> "collect"]
                                      ELSE [pc |-> "terminal", type |-> verdict])
    /\ UNCHANGED <<traceID, turnID, ctx, snapshotVars, published>>

\* Git collection has a context of its own and may fail.
Collect(t) ==
    /\ Pc(t) = "collect"
    /\ \E type \in {"turn.completed", "turn.failed"} :
          Goto(t, [pc |-> "terminal", type |-> type])
    /\ UNCHANGED <<traceID, turnID, ctx, snapshotVars, published>>

EmitTerminalFallsThrough(t) ==     \* mutant: an interrupted turn is collected too
    /\ Pc(t) = "terminal"
    /\ Emit(Plain(exec[t].type, t))
    /\ Goto(t, IF exec[t].type = "turn.interrupted"
                  THEN [pc |-> "collect"]
                  ELSE [pc |-> "reset", type |-> exec[t].type])
    /\ UNCHANGED <<traceID, turnID, ctx, snapshotVars>>

EmitTerminal(t) ==
    /\ Pc(t) = "terminal"
    /\ Emit(Plain(exec[t].type, t))
    /\ Goto(t, [pc |-> "reset", type |-> exec[t].type])
    /\ UNCHANGED <<traceID, turnID, ctx, snapshotVars>>

ResetForgetsOutcome(t) ==          \* mutant: lastTerminal is not kept
    /\ Pc(t) = "reset"
    /\ traceID' = NoTrace /\ turnID' = NoTrace /\ liveItems' = NoItems
    /\ Goto(t, [pc |-> "idle"])
    /\ UNCHANGED <<lastTerminal, ctx, lastSequence, logs, published>>

ResetStartedOnly(t) ==             \* mutant: only a turn with an id is cleared
    /\ Pc(t) = "reset"
    /\ IF turnID = t
         THEN /\ traceID' = NoTrace /\ turnID' = NoTrace
              /\ liveItems' = NoItems
              /\ lastTerminal' = exec[t].type
         ELSE UNCHANGED <<traceID, turnID, liveItems, lastTerminal>>
    /\ Goto(t, [pc |-> "idle"])
    /\ UNCHANGED <<ctx, lastSequence, logs, published>>

Reset(t) ==
    /\ Pc(t) = "reset"
    /\ IF traceID = t
         THEN /\ traceID' = NoTrace /\ turnID' = NoTrace
              /\ liveItems' = NoItems
              /\ lastTerminal' = exec[t].type
         ELSE UNCHANGED <<traceID, turnID, liveItems, lastTerminal>>
    /\ Goto(t, [pc |-> "idle"])
    /\ UNCHANGED <<ctx, lastSequence, logs, published>>

EmitIdle(t) ==
    /\ Pc(t) = "idle"
    /\ Emit(Plain("status.idle", t))
    /\ Goto(t, [pc |-> "done"])
    /\ UNCHANGED <<traceID, turnID, ctx, snapshotVars>>

-----------------------------------------------------------------------------
(* Snapshot, under the read lock *)

FitUnmarked(n) ==                  \* mutant: items are left out without a mark
    [items |-> [i \in Items |-> IF liveItems[i].since <= n THEN Unknown ELSE liveItems[i]],
     truncated |-> FALSE]

\* fitLiveSnapshot leaves out the oldest items until the rest is small enough: those
\* that were created up to the event n, for an n that the sizes of the items decide.
Fit(n) ==
    [items |-> [i \in Items |-> IF liveItems[i].since <= n THEN Unknown ELSE liveItems[i]],
     truncated |-> \E i \in Items : liveItems[i].since \in 1..n]

Snapshots ==
    {[status |-> IF traceID = NoTrace THEN "idle" ELSE "running",
      traceID |-> traceID, turnID |-> turnID, recentOutput |-> logs,
      liveItems |-> Fit(n).items, lastSequence |-> lastSequence,
      liveItemsTruncated |-> Fit(n).truncated, lastTerminal |-> lastTerminal] :
     n \in 0..lastSequence}

-----------------------------------------------------------------------------
Init ==
    /\ traceID = NoTrace /\ turnID = NoTrace
    /\ ctx = [t \in Traces |-> "none"]
    /\ exec = [t \in Traces |-> [pc |-> "none"]]
    /\ liveItems = NoItems /\ lastSequence = 0
    /\ logs = << >> /\ lastTerminal = "none"
    /\ published = << >>

Next ==
    \/ \E t \in Traces :
          \/ Start(t) \/ EmitRunning(t)
          \/ Deadline(t)
          \/ TurnStarted(t) \/ Output(t) \/ EmitEvent(t)
          \/ \E i \in Items, type \in ItemTypes : ItemEvent(t, i, type)
          \/ \E result \in {"ok", "error", "interrupted"} : RunReturns(t, result)
          \/ Decide(t) \/ Collect(t) \/ EmitTerminal(t)
          \/ Reset(t) \/ EmitIdle(t)
    \/ \E q \in Traces \cup {NoTrace} : Interrupt(q)
    \/ Close

\* TurnTimeout is positive, and the runner returns once its context is done.
Fairness ==
    \A t \in Traces :
        /\ WF_vars(EmitRunning(t)) /\ WF_vars(Deadline(t)) /\ WF_vars(EmitEvent(t))
        /\ WF_vars(ctx[t] # "live" /\ RunReturns(t, "error"))
        /\ WF_vars(Decide(t)) /\ WF_vars(Collect(t)) /\ WF_vars(EmitTerminal(t))
        /\ WF_vars(Reset(t)) /\ WF_vars(EmitIdle(t))

Spec == Init /\ [][Next]_vars
FairSpec == Spec /\ Fairness

-----------------------------------------------------------------------------
(* Properties *)

\* States of the goroutine in which its turn owns the controller.
Owning == {"starting", "running", "emit", "returned", "collect", "terminal",
           "reset"}

\* Fields, goroutine states and messages are of their declared shape, and the trace
\* id under the lock and the goroutines agree: a turn is between Start and its reset
\* exactly when it is the one the controller names, so two turns never run at once.
TypeOK ==
    /\ traceID \in Traces \cup {NoTrace} /\ turnID \in {traceID, NoTrace}
    /\ ctx \in [Traces -> {"none", "live", "canceled", "expired"}]
    /\ DOMAIN exec = Traces
    /\ \A t \in Traces :
          /\ Pc(t) \in Owning \cup {"none", "idle", "done"}
          /\ Pc(t) \in Owning <=> traceID = t
    /\ liveItems \in [Items -> LiveItem]
    /\ lastSequence \in 0..MaxReports
    /\ logs \in Seq(Traces) /\ Len(logs) <= LogLines
    /\ lastTerminal \in TerminalTypes \cup {"none"}
    /\ published \in Seq(Message)

\* What one turn publishes starts with the running status, holds at most one
\* terminal message, and has nothing after that but the idle status, which comes last.
MessagesOf(t) == {n \in DOMAIN published : published[n].trace = t}
Framed(t) ==
    \A n \in MessagesOf(t) :
        /\ published[n].type = "status.running" <=> \A m \in MessagesOf(t) : n <= m
        /\ published[n].type \in TerminalTypes =>
              \A m \in MessagesOf(t) : n < m => published[m].type = "status.idle"
        /\ published[n].type = "status.idle" =>
              /\ \A m \in MessagesOf(t) : m <= n
              /\ \E m \in MessagesOf(t) : published[m].type \in TerminalTypes

\* The stream falls into the frames of the turns: each whole and with one outcome,
\* and, but for an idle status that comes late, never interleaved with another.
TurnsAreFramed ==
    /\ \A t \in Traces : Framed(t)
    /\ \A n, m, k \in DOMAIN published :
          /\ n < m /\ m < k
          /\ published[n].trace = published[k].trace
          /\ published[n].trace # published[m].trace
          => "status.idle" \in {published[m].type, published[k].type}

\* What was published of an item is in the snapshot, or replaced there by something
\* later, or missing behind a cut that the item is marked with, or the item is left out
\* of a list that is marked as truncated.
Covered(m, snapshot) ==
    LET item == snapshot.liveItems[m.item] IN
    /\ m.seq <= snapshot.lastSequence
    /\ \/ m.seq \in item.events
       \/ item # Unknown /\ \A k \in item.events : k > m.seq
       \/ item.cut /\ \A k \in item.events : k < m.seq
       \/ item = Unknown /\ snapshot.liveItemsTruncated

\* A client that takes a snapshot at any moment and applies the events behind its
\* lastSequence misses nothing that the snapshot does not mark as missing, and one that
\* follows the stream can tell whether it misses anything: item events come in the
\* order in which they were stored, with no sequence left out, and the snapshot is
\* never behind them.
ItemEventsOf(t) == {n \in MessagesOf(t) : published[n].type \in ItemTypes}
ClientsCanCatchUp ==
    \A t \in Traces : \A n \in ItemEventsOf(t) :
        /\ published[n].seq = Cardinality({k \in ItemEventsOf(t) : k <= n})
        /\ t = traceID => \A snapshot \in Snapshots : Covered(published[n], snapshot)

\* The recent output of a snapshot is the last lines of the turn it names, with
\* nothing of an earlier turn; while the agent is idle the snapshot carries the
\* outcome of the last turn, for clients that were away when it was published.
Added(t) == OutputsOf(t) + IF Pc(t) = "emit" /\ exec[t].msg.type = "turn.output"
                             THEN 1 ELSE 0
Ends == {n \in DOMAIN published : published[n].type \in TerminalTypes}
IsLastOutcome(type) ==
    IF Ends = {} THEN type = "none"
    ELSE \E n \in Ends : type = published[n].type /\ \A m \in Ends : m <= n
SnapshotIsOfItsTurn ==
    \A snapshot \in Snapshots :
        LET output == snapshot.recentOutput
            added == Added(snapshot.traceID)
        IN  IF snapshot.traceID # NoTrace
              THEN /\ \A n \in DOMAIN output : output[n] = snapshot.traceID
                   /\ Len(output) = IF added > LogLines THEN LogLines ELSE added
              ELSE IsLastOutcome(snapshot.lastTerminal)

\* An interrupt that finds its turn before Run has returned ends it as
\* interrupted, even when the deadline passes or the runner succeeds meanwhile.
InterruptTakesEffect ==
    \A t \in Traces :
        (ctx[t] = "canceled" /\ Pc(t) \in {"starting", "running", "emit"})
            ~> (Plain("turn.interrupted", t) \in {published[n] : n \in DOMAIN published})

\* Every turn that was started ends, is reported and frees the controller.
EveryTurnEnds ==
    \A t \in Traces :
        traceID = t ~> /\ traceID # t
                       /\ \E n \in DOMAIN published :
                             /\ published[n].trace = t
                             /\ published[n].type \in TerminalTypes

\* The goroutines implement the contract of the controller.
EndsOf(t) == {n \in DOMAIN published :
                 published[n].trace = t /\ published[n].type \in TerminalTypes}
LastEnd(t) == CHOOSE n \in EndsOf(t) : \A m \in EndsOf(t) : m <= n
OutcomeOf(t) ==
    IF EndsOf(t) # {} THEN published[LastEnd(t)].type
    ELSE IF Pc(t) = "none" THEN "none" ELSE "running"

Contract == INSTANCE TurnContract WITH
    Outcomes <- TerminalTypes, slot <- traceID,
    outcome <- [t \in Traces |-> OutcomeOf(t)]

KeepsTurnContract == Contract!ContractSpec
=============================================================================
