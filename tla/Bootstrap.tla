----------------------------- MODULE Bootstrap -----------------------------
(***************************************************************************)
(* The import of the history of the Codex projects                         *)
(* (internal/agent/service.go, runBootstrap; internal/durable/store.go,    *)
(* bootstrap_syncs), for one sync id; syncs do not share state.            *)
(*                                                                         *)
(* Every bootstrap.start message gets a goroutine.  The first to register  *)
(* loads a manifest of the inventory and sends it batch by batch, each     *)
(* after the acknowledgement of the one before, skipping what an earlier   *)
(* attempt has had acknowledged.  The last batch says whether the server   *)
(* may hide what the manifest does not contain (reconciliation).           *)
(*                                                                         *)
(* A checksum stands for what it is computed from: here it is the batch.   *)
(* An entry is a project without sessions, or a session with its detail.   *)
(* The detail is read when the session is sent, once in an attempt; that   *)
(* any manifest may be loaded includes what it will be.                    *)
(* The session with the relay is two queues that keep the order and may    *)
(* lose a message; RunDelivery takes it apart.                             *)
(***************************************************************************)
EXTENDS Integers, Sequences, FiniteSets

CONSTANTS
    Goroutines,        \* goroutines of bootstrap.start messages, used again
    NoGoroutine,
    Commands,          \* command ids of the start messages
    Manifests,         \* what the inventory may contain: sequences of entries
    EmptyProjects,     \* the entries that are a project without sessions
    OnConflict,        \* what the server does about a batch number it has with
                       \* another checksum: a subset of {"refuse", "replace"}
    EarlyTimeouts,     \* whether an answer may take longer than the timer
    MaxFaults,         \* bound on messages lost, failed calls, early timeouts
    MaxCrashes         \* bound on restarts of the process

ASSUME NoGoroutineAssumption == NoGoroutine \notin Goroutines
ASSUME ManifestsAssumption ==
    \A manifest \in Manifests :
        Len(manifest) \in Nat /\ DOMAIN manifest = 1..Len(manifest)
ASSUME OnConflictAssumption == OnConflict \subseteq {"refuse", "replace"}
ASSUME EarlyTimeoutsAssumption == EarlyTimeouts \in BOOLEAN

VARIABLES
    row,               \* bootstrap_syncs: command, watermark and status
    task,              \* the goroutine of each start
    waiter,            \* bootstrapAcks: the goroutine that has registered
    inbox,             \* the channel of each goroutine, of capacity 1
    batches, acks,     \* messages on their way to and from the server
    stored,            \* external: number -> batch, durable on the server
    reconciled,        \* external: what was stored when it reconciled
    refused,           \* history: the server has refused a batch
    faults, crashes

vars == <<row, task, waiter, inbox, batches, acks, stored, reconciled, refused,
          faults, crashes>>
serverVars == <<stored, reconciled, refused>>

NoRow == [command |-> "none", last |-> -1, status |-> "none"]
Free == [pc |-> "free"]

Pc(g) == task[g].pc
Goto(g, state) == task' = [task EXCEPT ![g] = state]

ReconciliationSafeAlways(last) == TRUE     \* mutant: resumed or not

\* bootstrapReconciliationSafe
ReconciliationSafe(last) == last < 0

\* The sessions among the first n entries.
Sessions(manifest, n) == Cardinality({k \in 1..n : manifest[k] \notin EmptyProjects})

\* Batch number n of a manifest, the final one behind the entries.
Batch(manifest, n, last) ==
    LET done == n = Len(manifest) IN
    [no |-> n, done |-> done, total |-> Sessions(manifest, Len(manifest)),
     processed |-> Sessions(manifest, IF done THEN n ELSE n + 1),
     entry |-> IF done THEN "none" ELSE manifest[n + 1],
     safe |-> done /\ ReconciliationSafe(last)]

Current(g) == Batch(task[g].manifest, task[g].next, task[g].last)

-----------------------------------------------------------------------------
(* runBootstrap *)

\* INSERT OR IGNORE, then the row as it is; another command is rejected.
PrepareBootstrap(g, command) ==
    /\ Pc(g) = "free"
    /\ row' = IF row = NoRow THEN [NoRow EXCEPT !.command = command,
                                                !.status = "running"]
                             ELSE row
    /\ Goto(g, IF row'.command = command
                 THEN [pc |-> "prepared", last |-> row'.last] ELSE Free)
    /\ UNCHANGED <<waiter, inbox, batches, acks, serverVars, faults, crashes>>

\* The second start of a sync at work is ignored.
Register(g) ==
    /\ Pc(g) = "prepared"
    /\ IF waiter = NoGoroutine
         THEN /\ waiter' = g
              /\ inbox' = [inbox EXCEPT ![g] = << >>]
              /\ Goto(g, [pc |-> "load", last |-> task[g].last])
         ELSE /\ Goto(g, Free)
              /\ UNCHANGED <<waiter, inbox>>
    /\ UNCHANGED <<row, batches, acks, serverVars, faults, crashes>>

EndsKeepsWaiter(g) == Goto(g, Free) /\ UNCHANGED waiter    \* mutant

\* Every return after that runs the deferred delete.
Ends(g) == Goto(g, Free) /\ waiter' = NoGoroutine

Fault == faults < MaxFaults /\ faults' = faults + 1

\* loadBootstrapSnapshot: all projects and their sessions, or an error.
Load(g) ==
    /\ Pc(g) = "load"
    /\ \/ /\ \E manifest \in Manifests :
                Goto(g, [pc |-> "send", last |-> task[g].last, next |-> 0,
                         manifest |-> manifest])
          /\ UNCHANGED <<waiter, faults>>
       \/ Fault /\ Ends(g)
    /\ UNCHANGED <<row, inbox, batches, acks, serverVars, crashes>>

NextBatch(g) ==
    IF Current(g).done THEN Ends(g)
    ELSE /\ Goto(g, [task[g] EXCEPT !.pc = "send", !.next = @ + 1])
         /\ UNCHANGED waiter

SkipsOneMore(g) ==                 \* mutant: off by one at the watermark
    Current(g).no <= task[g].last + 1

\* A batch that an earlier attempt has had acknowledged is not sent.
Skips(g) == Current(g).no <= task[g].last

Skip(g) ==
    /\ Pc(g) = "send" /\ Skips(g)
    /\ NextBatch(g)
    /\ UNCHANGED <<row, inbox, batches, acks, serverVars, faults, crashes>>

\* publish, which fails when the queue of the client is full.
Send(g) ==
    /\ Pc(g) = "send" /\ ~Skips(g)
    /\ \/ /\ batches' = Append(batches, Current(g))
          /\ Goto(g, [task[g] EXCEPT !.pc = "wait"])
          /\ UNCHANGED <<waiter, faults>>
       \/ /\ Fault /\ Ends(g)
          /\ UNCHANGED batches
    /\ UNCHANGED <<row, inbox, acks, serverVars, crashes>>

IsMyAckAny(g, ack) == TRUE         \* mutant: neither number nor checksum

IsMyAck(g, ack) == ack = Current(g)

\* AckBootstrap moves the watermark forward only.
AckBootstrap(batch) ==
    IF row.last < batch.no
      THEN row' = [row EXCEPT !.last = batch.no,
                      !.status = IF batch.done THEN "completed" ELSE "running"]
      ELSE UNCHANGED row

\* An acknowledgement of another batch is dropped; an error of the store is not
\* looked at.
Receive(g) ==
    /\ Pc(g) = "wait" /\ inbox[g] # << >>
    /\ inbox' = [inbox EXCEPT ![g] = << >>]
    /\ IF IsMyAck(g, inbox[g][1])
         THEN /\ \/ AckBootstrap(Current(g)) /\ UNCHANGED faults
                 \/ Fault /\ UNCHANGED row
              /\ NextBatch(g)
         ELSE UNCHANGED <<row, task, waiter, faults>>
    /\ UNCHANGED <<batches, acks, serverVars, crashes>>

Range(s) == {s[n] : n \in DOMAIN s}
InFlight(g) ==
    \/ Current(g) \in Range(batches) \/ Current(g) \in Range(acks)
    \/ inbox[g] # << >>

\* The timer of 30 seconds.  While the batch or its acknowledgement is on its
\* way it fires only if answers may be that late.
Timeout(g) ==
    /\ Pc(g) = "wait"
    /\ IF InFlight(g) THEN EarlyTimeouts /\ Fault ELSE UNCHANGED faults
    /\ Ends(g)
    /\ UNCHANGED <<row, inbox, batches, acks, serverVars, crashes>>

-----------------------------------------------------------------------------
(* Handle, the session and the server *)

\* bootstrap.durable_ack: to the registered goroutine, if its channel is empty.
HandleAck ==
    /\ acks # << >>
    /\ acks' = Tail(acks)
    /\ inbox' = IF waiter # NoGoroutine /\ inbox[waiter] = << >>
                  THEN [inbox EXCEPT ![waiter] = <<Head(acks)>>] ELSE inbox
    /\ UNCHANGED <<row, task, waiter, batches, serverVars, faults, crashes>>

ServerStores ==
    /\ batches # << >>
    /\ batches' = Tail(batches)
    /\ LET batch == Head(batches)
           conflict == batch.no \in DOMAIN stored /\ stored[batch.no] # batch
           store == [n \in DOMAIN stored \cup {batch.no} |->
                        IF n = batch.no THEN batch ELSE stored[n]]
       IN \/ /\ conflict => "replace" \in OnConflict
             /\ stored' = store
             /\ acks' = Append(acks, batch)
             /\ reconciled' = IF batch.safe /\ reconciled = << >>
                                THEN <<store>> ELSE reconciled
             /\ UNCHANGED refused
          \/ /\ conflict /\ "refuse" \in OnConflict
             /\ refused' = TRUE
             /\ UNCHANGED <<acks, stored, reconciled>>
    /\ UNCHANGED <<row, task, waiter, inbox, faults, crashes>>

\* A session breaks: what is on its way is lost, from some message on.
Lose ==
    /\ batches # << >> \/ acks # << >>
    /\ Fault
    /\ batches' = << >>
    /\ acks' = << >>
    /\ UNCHANGED <<row, task, waiter, inbox, serverVars, crashes>>

Crash ==
    /\ crashes < MaxCrashes
    /\ crashes' = crashes + 1
    /\ task' = [g \in Goroutines |-> Free]
    /\ waiter' = NoGoroutine
    /\ inbox' = [g \in Goroutines |-> << >>]
    /\ batches' = << >> /\ acks' = << >>
    /\ UNCHANGED <<row, serverVars, faults>>

-----------------------------------------------------------------------------
Init ==
    /\ row = NoRow
    /\ task = [g \in Goroutines |-> Free]
    /\ waiter = NoGoroutine
    /\ inbox = [g \in Goroutines |-> << >>]
    /\ batches = << >> /\ acks = << >>
    /\ stored = << >> /\ reconciled = << >> /\ refused = FALSE
    /\ faults = 0 /\ crashes = 0

Start(g) == \E command \in Commands : PrepareBootstrap(g, command)

Next ==
    \/ \E g \in Goroutines :
          \/ Start(g) \/ Register(g) \/ Load(g) \/ Skip(g) \/ Send(g)
          \/ Receive(g) \/ Timeout(g)
    \/ HandleAck \/ ServerStores \/ Lose \/ Crash

Finished == \E n \in DOMAIN stored : stored[n].done

\* Goroutines are scheduled, the session delivers, and the server repeats the
\* start while it has no final batch and nobody works on the sync.
Fairness ==
    /\ \A g \in Goroutines :
          /\ WF_vars(Register(g)) /\ WF_vars(Load(g)) /\ WF_vars(Skip(g))
          /\ WF_vars(Send(g)) /\ WF_vars(Receive(g)) /\ WF_vars(Timeout(g))
    /\ WF_vars(~Finished /\ waiter = NoGoroutine
                 /\ \E g \in Goroutines : Start(g))
    /\ WF_vars(HandleAck) /\ WF_vars(ServerStores)

Spec == Init /\ [][Next]_vars
FairSpec == Spec /\ Fairness

-----------------------------------------------------------------------------
(* Properties *)

\* Rows, goroutines and channels have their declared shape, the watermark is a batch
\* number of some manifest, and the registered goroutine is the only one that loads,
\* sends or waits.
TypeOK ==
    /\ row.last = -1 \/ \E manifest \in Manifests : row.last \in 0..Len(manifest)
    /\ row.status \in {"none", "running", "completed"}
    /\ waiter \in Goroutines \cup {NoGoroutine}
    /\ \A g \in Goroutines :
          /\ Pc(g) \in {"free", "prepared", "load", "send", "wait"}
          /\ Pc(g) \in {"load", "send", "wait"} <=> waiter = g
          /\ Len(inbox[g]) <= 1
    /\ reconciled = << >> \/ Len(reconciled) = 1

\* What the server has is a prefix: the watermark never claims more than is durable
\* there, whatever was lost, repeated, restarted or loaded anew in between, and a batch,
\* the final one too, becomes durable behind one for every number before it.
ServerHasPrefix ==
    /\ 0..row.last \subseteq DOMAIN stored
    /\ \A n \in DOMAIN stored : 0..n \subseteq DOMAIN stored

\* When the server is told that it may hide what it was not told of, what it has
\* stored for the sync is one manifest, whole and of one load, and nothing else, so
\* that a session of an earlier manifest is not hidden by mistake.
ReconciledFromOneManifest ==
    \A k \in DOMAIN reconciled :
        \E m \in Manifests : reconciled[k] = [n \in 0..Len(m) |-> Batch(m, n, -1)]

\* A sync that was started completes in the end, although sessions break, calls
\* fail and the process restarts now and then.
SyncCompletes == row.status = "running" ~> Finished

\* The same as far as the code provides for it: not when the server refuses a batch
\* that has changed between two loads, and not when a resumed sync takes its final
\* batch for one that was acknowledged.
FinalIsSkipped ==
    \E g \in Goroutines : Pc(g) = "send" /\ Skips(g) /\ Current(g).done

SyncCompletesUnlessShrunk ==
    row.status = "running" ~> Finished \/ refused \/ FinalIsSkipped
=============================================================================
