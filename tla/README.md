# Mac agent: models, checks and proofs

This directory holds TLA+ models of the Mac agent (Go, `src/`), the TLC runs
that check them, and theorems about them that TLAPS proves. The Mac agent is a
single process that connects to a relay over WebSocket, receives commands
(`turn.start`, `turn.interrupt`, `bootstrap.start`, queries), runs one Codex
turn at a time through a local `codex app-server`, and streams what happens
back, through a durable outbox in SQLite, until a server has confirmed it.

Contents: [the system](#the-system), [the modules](#the-modules),
[the runs](#the-runs), [bounds](#bounds), [fairness](#fairness),
[what is proved](#what-is-proved), [where code and docs part](#where-code-and-docs-part),
[what is not modelled](#what-is-not-modelled), [the plan](#the-plan).

## The system

| Part | Source | State | Operations |
| --- | --- | --- | --- |
| durable store | `internal/durable/store.go` | tables `agent_runs` (command, payload hash, next sequence, acknowledged sequence), `result_outbox`, `bootstrap_syncs`; one SQLite file in WAL mode, a pool of connections | `PrepareRun`, `AppendEvent`, `Pending`, `DurableAck`, `Cancel`, `PrepareBootstrap`, `AckBootstrap` |
| agent service | `internal/agent/service.go` | waiters of running bootstraps; otherwise stateless | `Handle`, `InitialMessages`, `StartDurableReplay`, `runBootstrap` |
| relay client | `internal/relay/client.go` | bounded outbound queue, the session | `Publish`, `Run`/`runSession`, `readLoop`, `writeLoop` |
| turn controller | `internal/turn/controller.go`, `internal/buffer/ring.go` | the current trace, thread and turn ids, cancel function, live items and their sequence, last terminal message, ring of recent output | `Start`, `Interrupt`, `Close`, `Snapshot`, `execute` |
| Codex turn runner | `internal/runner/appserver.go` | per `Run`: a channel of 512 notifications, the summary | `Run` |
| app-server client | `internal/codexapp/client.go` | map of pending calls, notification handler, closed flag | `Call`, `readLoop`, `Close`, `SetNotificationHandler` |
| inventory | `internal/inventory/service.go` | a cache of previews that all listings share | `Projects`, `Threads` with its pool of workers, `ReadThread`, `ExecutionProfiles` |
| workspace catalog | `internal/workspace/catalog.go` | none: it reads the state file of Codex Desktop at each request | `List`, `Resolve`, `MatchPath` |
| source reader | `internal/source/reader.go` | none | `Read` |
| Git result | `internal/result/git.go` | none | `Collect` |
| item normalisation | `internal/codexitem` | none | conversions |
| process, configuration, protocol, command line | `internal/codexapp/process.go`, `config`, `protocol`, `cmd/agent` | none of their own | start, parse, encode, wire |

How they meet. `relay.Client` reads one message at a time and calls
`Service.Handle` in its read goroutine. `turn.start` becomes a row in the store
and an `agent.run_accepted` event, then `Controller.Start`, which emits the
running status and leaves a goroutine behind. That goroutine calls the runner;
the runner calls the app-server client and follows notifications that the
client's read goroutine puts into the runner's channel. Every message of the
turn goes to a *sink* in the service, which appends the durable kinds to the
store and hands them to `Publish`. A ticker publishes the whole outbox again
every two seconds, and each new session starts with the outbox. The server
acknowledges a prefix of each run; `DurableAck` releases it.

What is hard, and tests hardly reach:

* four goroutines publish into one queue that drops when it is full, and three
  append to or release from one outbox, with deferred SQLite transactions;
* the process may die between any two steps and the start is delivered again;
* messages arrive late, repeatedly, or never; sessions break at any point;
* the deadline of a turn, an interrupt, the end of the turn and the next start
  race for the fields of one controller;
* one read goroutine serves every app-server call and also runs the handler of
  the turn, so that a full channel stops everybody;
* the reader of a session handles a message before it reads the next, pongs
  included, and the first messages of a session are put together while the turn
  goes on;
* a resumed bootstrap compares numbers of two different inventories;
* a read goroutine and a bootstrap list sessions at once over one cache, with
  workers that are answered in any order;
* files, roots, projects and the working tree change between the look and the use.

What makes each part correct, in a sentence: the store hands out each sequence
once and releases only what was acknowledged; the delivery loses nothing that
was recorded and starts no command twice; the controller runs one turn at a time
and reports each with one outcome inside its frame; the runner passes on all of
its own turn's items and always returns; the client answers every call and
leaks none; the relay client always comes back to a working session, handles one
message at a time, and leaves the relay with the last word about a turn; a
bootstrap never claims more than the server has and never lets it
reconcile against a mixture of manifests; a listing returns, with previews that
are no older than it says; what is cut is cut at the far end; no project or
file outside the allowed roots is ever returned; and the result of a turn is
whole, or an error. `PROJECT.json` lists the hazards line
by line with the properties that watch over them.

## The modules

| Module | Models | Used by |
| --- | --- | --- |
| `DurableStore` | the store at the granularity of its methods: each is one atomic action | `StoreTx` implements it, `RunDelivery` extends it |
| `StoreTx` | the same methods as SQLite transactions over several connections: a deferred `BEGIN`, the first read taking a snapshot, the upgrade of the write that may be refused, commit | refines `DurableStore` (`AtomicStore`) |
| `ReliableLog` | what delivery promises of events with a sequence: a set of those recorded, each retained until it is durable | abstract |
| `RunDelivery` | `Handle` for `turn.start` and acknowledgements, the sink, the replay ticker, `Publish`, sessions, crashes | refines `ReliableLog` |
| `TurnContract` | what a caller of the controller may rely on: a slot and an outcome for each turn | abstract |
| `TurnController` | `Start`, `Interrupt`, `Close`, `execute` and its callback, `Snapshot` | refines `TurnContract` |
| `AppServerClient` | `Call` with its blocking `write` under `writeMu`, `readLoop` with its refusal of interactive requests, `finish`, `Close`, against an app-server that may leave its input unread, stop or write rubbish | extended by `AppServerRunner` |
| `AppServerRunner` | `AppServer.Run` on top of the client, with the Codex turns as the environment | |
| `Bootstrap` | `runBootstrap`, `sendBootstrapBatch`, the waiter, `bootstrap_syncs` | |
| `SessionContract` | what the agent relies on from its relay client: sessions follow one another, and one message at a time is handled inside one | abstract |
| `RelaySession` | `Run`, `runSession`, `readLoop`, `writeLoop`, `InitialMessages`, `drainOutbound`, with the turn as far as the relay is told of it | refines `SessionContract` |
| `Inventory` | `Threads` and `latestMessagePreview`: the channel of jobs, the workers, the cache | |
| `ThreadDetail` | `ReadThread` and `fitThreadDetail` | |
| `SourceReader` | `Read` and `sourceWindow`, with a file that changes | |
| `Workspace` | `Catalog.List` and `allowedProjectRoots`, `MatchPath`, `projectOwner`, `resolveProjectFile` | |
| `GitResult` | `CollectGit`: the search for repositories, status and diff of one after the other, `parsePorcelainZ`, the cut, with a tree that is edited meanwhile | |
| `DurableStore_proofs`, `StoreTx_proofs`, `RunDelivery_proofs`, `TurnController_proofs`, `AppServerRunner_proofs`, `Bootstrap_proofs`, `GitResult_proofs` | theorems about the module of the name | |
| `Serving_proofs` | theorems about `RelaySession`, `Inventory`, `SourceReader`, `ThreadDetail` and `Workspace`, and that they hold of the run that puts these together; its lemmas about loops serve `GitResult_proofs` too | |
| `MC...` | definitions for TLC: symmetry sets and values of constants; `MCServing` puts `RelaySession` to `GitResult` into one run | |

Correspondence. In `DurableStore` a row of `agent_runs` is
`agentRuns[run]`, with `next` for `next_agent_sequence` and `acked` for
`last_durable_sequence`; a row of `result_outbox` is a record of run, sequence
and type. `StoreTx` adds for each connection what it has read and which version
of the database that was; SQLite refuses the upgrade of a transaction whose
snapshot is no longer current (`SQLITE_BUSY_SNAPSHOT`) and, at once, one that
would have to wait for a writer while it holds a read (`SQLITE_BUSY`).

In `RunDelivery` each goroutine is a variable whose `pc` names the place
between two shared accesses: `handler` (the read goroutine in `Handle`), `exec`
(the turn with its sink), `replay` (the ticker) and `conn`/`initial` (the relay
client). Events are records of run, sequence and type; types that behave alike
share a name (`turn.event` for the four kinds of item and output messages).
Payload hashes are the payloads. The server is the set `durable`, and it may
acknowledge a sequence once it has the prefix up to it. `agent.status` and the
answers to queries are not durable and are left out.

Two kinds of message about a run go out *without* an `agent_sequence`, recorded or
not, and have the sequence 0 in the model (`Notice`): the copy of the last terminal
message that `InitialMessages` adds when the agent is idle (`service.go:122`), and
the `turn.rejected` of `reject` (`service.go:216` and `:229`), which no row stands
behind. What the server has got of these is `told`. So a server does learn of ends
that `AppendEvent` refused, and the properties say so: under a sequence it has only
what was recorded, and whichever way it learns of the end of a run, it is what the
turn ended with. `LoadInitial` reads controller and outbox in one step;
`RelaySession` takes these two reads apart.

In `TurnController` what happens under `Controller.mu` is one step and
everything between two critical sections is a step of its own; `exec[t].pc`
says where the goroutine of turn `t` is. The text of an item is the set of sequence
numbers of the events it contains; it has a mark if it was cut, as `appendLiveDelta`
does behind 24 KiB, and a snapshot leaves out the oldest items and is marked
`liveItemsTruncated` when they exceed 180 KiB, as `fitLiveSnapshot` does. Sizes are
not in the model: which text is too long, and how many items are, is left open
(`Snapshots` has every choice), so what is shown holds for any two limits.
`published` is the history of `emit`.
`Interrupt(q)` stands for a request with the ids of turn `q` (`NoTrace` for an
empty turn id).

In `AppServerClient` a call has an id and a place (`registered` before it has
`writeMu`, `writing` with it, `waiting` in the select); `channels` are the response
channels that hold something; `reader` is the read goroutine, which needs `writeMu`
too when it refuses an interactive request (`prompt`). A write returns when the
app-server has taken the bytes or is gone, and there is neither a context nor a
deadline for it (`client.go:411`). In
`AppServerRunner` the phases of a `Run` are its calls in order; thread and turn
ids are represented by the `Run` that asked for them, and pages of a list are
one call.

In `Bootstrap` a checksum is what it is computed from, so comparing checksums
is comparing batches; the session is two queues that keep the order and may
lose what they hold. An entry of a manifest is a project without sessions or a
session with its detail. The code reads a detail when it is about to send the
session, once in an attempt; the model lets the choice of the manifest include
what it will be. The totals of a batch count sessions only, so that manifests of
different lengths may agree in them.

`RelaySession` is the other half of `RunDelivery`: there the events matter and a
session is a place they go through, here the session matters. `main` is the
goroutine of `Run`, `reader` and `writer` are the two loops, and `Returned` is
what they have sent into the channel of errors. A connection is `up`, `broken`
(the next read or write fails) or `silent` (nothing gets through and only a ping
finds out). A pong arrives while the reader reads and not otherwise, as the
library demands. Of the messages those remain that say whether a run is at work;
`agent.status` and `turn.snapshot` are both `Running`. `RunDelivery` lets its
handler run only while it wants to; that a session ends only after its handler is
what `KeepsSessionContract` shows of the code. `Begin` is the step from opening
the store to `Run`.

In `Inventory` a text of a session is its number and `dates` gives its second; a
session in a listing is `left`, then in the hands of a worker (`lookup`, `fetch`,
`store`), then `done` with its text or with `Fallback`; a conversation without text
among its last turns has the fallback cached like a text. In `ThreadDetail` and
`SourceReader` texts and lines are their lengths, so that cutting is subtraction
and the limits are exact, but for the up to three bytes more that a cut gives away
so as not to split a character. `history` is what `normalizeTurn` makes of the turns,
with its own cuts and marks in it; `marks` are those that `ReadThread` and
`fitThreadDetail` set, and `clipped` says that title or preview was cut. In `Workspace` a path is a sequence of names and
`Canonical` says where it leads, for those that exist, and `Directories` which of
these places are directories; matching texts of paths
becomes matching prefixes of sequences. `AllowRoot` is one round of the loop of
`allowedProjectRoots` and `ListProject` the rest of a round of `List`; the position
in both loops and the roots found so far are in `catalog`. `List` reads the state
file once and looks at nothing else that may change but the directories, which
are taken to stay while it runs.

In `GitResult` Git is external: `dirty` is what it knows of each repository, and an
entry of its status is a code and a path, an origin an entry that stands for the
misreading of it. `refused` stands for a `rev-parse` that exits with an error inside
of a repository: that is no failure of the result, the code goes on to the walk
below the working directory and may well return nothing (`git.go:78`). Only what is
neither staged nor untracked has a patch, since the code asks for `git diff` without
`--cached`. Files are a set, which is what sorting them means here, and a patch is a sequence of characters and of runs of bytes that
are no characters, with their widths, so that the cut and what `strings.ToValidUTF8`
puts in the place of such a run are exact.

Definitions marked `mutant` are the plausible bugs the properties are held
against: each replaces the definition below it, and the property listed with it
in `PROJECT.json` must then fail.

## The runs

`tlc -config X.cfg MC....tla`. Times are for two workers.

| Run | What it asks | Distinct states, time |
| --- | --- | --- |
| `StoreTx.cfg` | two runs, two commands, three connections: reads stay current until commit, the outbox of a run is its unacknowledged suffix, only acknowledged rows leave it, and the transactions implement the atomic store | 1.8 M, 105 s |
| `RunDelivery.cfg` | two runs and two commands, redelivery, one broken session, one crash, one refused append: nothing recorded is lost or altered, no command runs twice, `ReliableLog` is implemented | 2.0 M, 60 s |
| `RunDeliveryLive.cfg` | one run of three events, three starts, a queue of one, a broken session, a crash: the record is well formed, recorded events arrive and an accepted run is closed | 464 k, 135 s |
| `RunDeliveryOversized.cfg` | violation, see below | |
| `RunDeliveryBusy.cfg` | violation, see below | |
| `TurnController.cfg` | two turns with every race of start, interrupt, close, deadline and end, and two reports between them: frames, snapshots, outcomes; `TurnContract` is implemented; every turn ends, an interrupted one as interrupted | 623 k, 125 s |
| `AppServerRunner.cfg` | two Runs that create threads, the Codex turn of the first possibly still running, every outcome of a turn, the end of the process or of the client or a line of rubbish: no item is missed, no call leaks or is forgotten | 8.6 M, 170 s |
| `AppServerRunnerLive.cfg` | a Run that checks a profile and resumes a thread, and a call of the inventory, with an app-server that makes an interactive request, reads its input when it likes, is silent or stops: Run, reader and call all come back, as long as the app-server does not cease to read while it lives | 852 k, 200 s |
| `AppServerRunnerOrphan.cfg` | violation, see below | |
| `Bootstrap.cfg` | two goroutines, an inventory that grows, shrinks or changes in place, late answers, lost messages, a restart, a server that refuses conflicts: prefix, one manifest, and completion where the code provides for it | 1.2 M, 95 s |
| `BootstrapShrinks.cfg` | violation, see below | |
| `Serving.cfg` | the six parts that serve the relay: sessions with breaks, silence and slow handlers; two listings over one cache; windows of a changing file; sessions too large for a message; nested, linked and repeated roots; results of turns over an edited tree | 1.0 M, 190 s |

`Serving.cfg` checks six modules in one run. They share no state, so a behaviour
of the run is a behaviour of one of them, chosen by the variable `part`, while
the others stay as they begin: the states of the run are the sum of theirs, and
a fairness condition of a part that has not begun has no step to ask for.

`CHECK_DEADLOCK FALSE` is set where the system really stops: the turns, calls,
starts and faults of the instance are used up, or the server has nothing more
to ask. `StoreTx` never stops and is checked for deadlock. `DurableStore` has no
run of its own, and neither has `AppServerClient`: the first is checked through
`StoreTx` and `RunDelivery`, the second with the Runs that call it.

Five properties carry most of the weight. `KeepsReliableLog` relates the
outbox, the queue, the session and the server over crashes. `KeepsTurnContract`
and `TurnsAreFramed` relate what is published to who owned the controller.
`NothingMissed` relates what Codex has produced to what a `Run` has passed on,
although the handler, the answer to `turn/start` and the notifications race.
`EndIsTheLastWord` follows a turn over sessions: the snapshot is taken before the
outbox is read and both before the queue is written, so the order in which
`runSession` drains, asks and writes decides whether the relay is left with a
turn that has long ended; draining *behind* `InitialMessages`, which looks as
good, breaks it. `ReconciledFromOneManifest` relates everything the server holds
to one load of an inventory that may change between any two.

## Bounds

Bounds are constants named `Max...`, used in guards only. They are small, and
enough for the cases that matter:

* two runs, turns, `Run`s or bootstrap goroutines: every race in the code is
  between one and the next, because the controller admits one turn and a sync
  one goroutine;
* a queue of one or two and a channel of one (512 in the code): full, not full,
  and one message in the hands of a sender that waits;
* a ring of one line and two lines of output: not full, full, overwritten; two
  reports (items or lines) in a behaviour are one pair of events of one item, or
  one report in each of two turns;
* three sequences in a run (`RunDeliveryLive.cfg`): accepted, one event, one
  terminal event, or accepted, terminal and one that must not come behind it; so the
  record of a run is checked there, `RunRecordWellFormed`. A fourth would only repeat
  the middle one. With two runs (`RunDelivery.cfg`) two
  sequences, accepted and the end, leave room for every interleaving of the runs;
* two starts in `RunDelivery.cfg`, of one run, of two, or of two commands, and three
  in `RunDeliveryLive.cfg`, so that one is delivered again behind a crash and one
  once more; two outcomes, so that another end than the right one would be noticed;
* two types of events (`Appended`) in `StoreTx.cfg`, one terminal: the store tells
  no others apart;
* `Endings` names how the client of the app-server may end in a run, and `Outcomes`
  how a turn may; `AppServerRunner.cfg` has all of both with five calls and no
  interactive request, `AppServerRunnerLive.cfg` has one interactive request, the
  end of the process and six calls, as many as a Run with a profile and a known
  thread makes with its interrupt, and the one of the inventory besides;
* three connections: one that writes, one that reads behind it, one that waits;
* one crash, one or two broken sessions, one or two faults: after a crash the
  process is in a state in which the next crash finds nothing new but the store,
  whose states are all reached in `StoreTx.cfg`;
* manifests of up to two entries, one of them a project without sessions: growing,
  shrinking, and changing in place, with and without a change of the totals;
* in `Serving.cfg` one connection that breaks or goes silent, two turns and a
  queue of two: the end of one turn, the start of the next and a session in
  between; two listings, two sessions, one worker each and a cache of one, so that
  each store evicts what another listing may look for, and one new text; files of
  up to four lines of 0, 1 or 3 bytes with a limit of two, a focus from before the
  first line to behind the last; up to two turns of up to two items; a root with
  a nested root, a link inside, a link out of it, one that leads nowhere and a file;
  an order of the projects that repeats one and, on the way, omits the others;
  six trees of seven directories, with and without a `rev-parse` that is refused, up
  to two changes in each repository, one with a byte that is no character, one edit
  during the collection, and a limit between the diff of one repository and of two.

The numbers of the theorems are not bounded.

## Fairness

Weak fairness of the goroutines' next steps everywhere: the Go scheduler runs a
goroutine that can run, and a `select` with two ready branches takes each of
them in the end. Beyond that:

* `Deadline` (`TurnController`) and `ContextEnds` (`AppServerRunner`) are fair
  because `config.Validate` demands a positive `TurnTimeout`; the runner returns
  once its context is done, which `CallersReturn` shows of the real runner.
* `AckProgress` (`RunDelivery`): the server acknowledges what it has. This is
  the server's duty, and without it the outbox is kept for ever.
* `ReplayTick` is fair under `SlowTicks`: the ticker comes every two seconds, and
  between two ticks an open session writes what is queued. Without the
  assumption the ticker could fill the queue of one at each tick before the
  event that matters, for ever.
* `Dial`: the client retries for ever. Nothing is assumed of a session's length
  but that disconnections are finite in number in a run.
* `Timeout` (`Bootstrap`): the 30-second timer fires when nothing is on its way;
  with `EarlyTimeouts` it may also fire too early. The server repeats
  `bootstrap.start` while it has no final batch.
* Nothing is assumed of the app-server in `AppServerRunner` except that, while
  it lives, it answers the inventory (for the call in `CallersReturn`), and that it
  does not stop reading its input for ever while it lives: `InputIsRead`, which is
  not fairness but the hypothesis of `CallersReturn`. The code does not provide for
  it, see the observations below.
* `RelaySession`: pings come round and the library gives an answer or an error
  after half an interval. `WriteNext` is strongly fair, because the `select` of
  the writer takes its ready branches at random, and a queue that is never empty
  for long is served however often the ticker fires. Handlers return, that is, the
  app-server answers or its process ends; see the observations below. The network
  breaks a connection at most `MaxBreaks` times.
* `Inventory`: a request for a preview ends after `latestPreviewTimeout`, three
  seconds, so each worker comes through, and fairness is demanded per caller
  only.

## What is proved

For all values of the constants; the only assumptions are the named `ASSUME`s
of the modules, and of `BootstrapReconcilesOneManifest` the hypothesis that the
server refuses what differs from the batch it has (`"replace" \notin OnConflict`),
which its runs assume too and without which the property fails (see the
observations below).

| Theorem | Says |
| --- | --- |
| `StoreTyping` | the type invariant of the store |
| `StoreUnackedSuffix` | the outbox of a run is exactly its sequences above the watermark, each once |
| `StoreReleasesOnlyAcked` | a row leaves the outbox only when it was acknowledged; watermarks and counters never go back |
| `TxTyping` | the type invariant of the transactions |
| `TxReadsStayCurrent` | a connection that holds the write lock has read the current state, so that what it writes is computed from it |
| `TxImplementsStore` | every behaviour of `StoreTx` is one of `DurableStore` |
| `DeliveryLosesNothing` | an event `AppendEvent` recorded is in the outbox or at the server, whatever queue, sessions and process do |
| `DeliverySequencesUnique` | under a sequence the server has only what was recorded, and never two events under one; what it is told without a sequence of the end of a run, recorded or not, is what the turn ended with, so it never learns of two ends |
| `DeliveryStartsOnce` | no run is started twice and no command starts two runs, redelivery and crashes included |
| `DeliveryKeepsReliableLog` | every behaviour of `RunDelivery` is one of `ReliableLog`, for the events with a sequence; the messages without one are no part of the log |
| `DeliveryRecordsWellFormed` | the record of a run begins with accepted and ends with the first event that closes it, although two goroutines append |
| `DeliveryTyping` | the type invariant of the composition, the capacity of the queue included |
| `TurnTyping` | the type invariant of the controller: at most one turn owns it, the one whose trace id is under the lock, and the ring and the sequences keep their limits |
| `TurnKeepsContract` | every behaviour of `TurnController` is one of `TurnContract` |
| `TurnsFramed` | the stream falls into the frames of the turns, each with one outcome and, but for a late idle status, never interleaved |
| `TurnClientsCatchUp` | the item events of a turn are published in the order of their sequence with none left out, and what a snapshot of the turn lacks of them is marked as cut or left out, wherever the two limits of size cut |
| `TurnSnapshots` | the recent output of a snapshot is the last lines of the turn it names, and that of an idle agent carries the outcome of the last turn |
| `ClientTracksCalls` | an entry of the client's map has a call that waits for it, and a call that waits can be reached, however calls, answers, deadlines and the death of the process overlap |
| `RunnerTyping` | the type invariant of client and Runs: no channel takes more than it holds, and a handler that is set is that of an active Run |
| `RunnerMissesNothing` | what a Run passes on is of its own turn and, while its context is live, in order and without a gap; if the turn ends well it is everything |
| `BootstrapTyping` | the type invariant of the import: one goroutine at most is at work, and the server reconciles once |
| `BootstrapServerHasPrefix` | what the server has is a prefix of what it was sent and the watermark is behind it, whatever is lost, late, repeated or restarted |
| `BootstrapReconcilesOneManifest` | what a server that refuses has when it reconciles is one manifest, whole and of one load |
| `SessionReaderIsInside` | outside the loops of a session the reader has not begun or has returned |
| `SessionKeepsContract` | every behaviour of `RelaySession` is one of `SessionContract` |
| `PreviewsAreCurrent` | no listing returns a preview older than the date it gives the session, whatever other listings store in whatever order |
| `ServingTyping` | the type invariants of sessions and listings, with the capacity of the queue, the number of workers and the size of the cache |
| `WindowsHoldFocus` | a window fits and holds the line in focus; it is the whole file if that fits, and otherwise the widest that fits of those centred on the focus, within the lines asked for |
| `DetailsKeepNewest` | what is returned of a session is its newest turns, or the newest items of the last, or the newest changes of its last item, or these with their texts cut; with one more it would have been too large; the marks say at which level something is missing, and the whole is marked also for a title or preview that was cut |
| `CatalogIsAllowed` | only different directories inside the allowed roots are projects, only files inside them can be read, and no project that has an allowed root is missing |
| `OwnerStaysClosest` | a session belongs to the first project it is assigned to, or else to the first of those with the longest root around its directory, and to none only if there is none |
| `ResultsAreWhole` | the result of a turn is of the repository that Git tells around the working directory, or of those found below it; it names every file that was changed there all the time, and nothing else; its diff has the patch of each in one piece, with replacements for bytes that are no characters, unless it is marked as cut, and exceeds the limit by two bytes at most for each replacement |

The argument for the store: `OutboxIsUnackedSuffix` together with the type
invariant is inductive. Each method has an *effect lemma* that says what it does
to one row (the domain, the row that changes, the rows that do not), and the
invariance proof is a case split over the methods that uses these lemmas only.
For the transactions, `ReadStillCurrent` is the strengthening: a connection
that has upgraded saw the version that is current, because others cannot commit
while it holds the lock and a stale upgrade is refused. Hence the commit of a
connection is the atomic action of the store on the current tables, and every
other step leaves the committed tables alone.

For delivery, none of the properties is inductive, and the invariant adds what
they rest on in three parts. `Recorded` carries the store's own invariant along
with two facts about the history: each recorded event has a sequence below its
run's counter, so the next one is new; and an event that is not in the outbox is
durable. An acknowledgement keeps the second because the server has *some* event
under each sequence it confirms, and by uniqueness that is the recorded one.
`InTransit` says that whatever is in the queue, in a session's initial messages
or in the hands of a goroutine is a copy of a recorded event, or has no sequence, so
nothing else can be written under one. For what has none, `EndInv` follows the end of
a run: a turn hands one terminal message to its sink, once; the controller keeps that
one, and neither the record nor what the server was told has another. `StartsOnce`
follows a command: a run the handler is about to start has a row and was not
started; rows have different commands; a crash takes the intention to start away but
leaves the row. The proof has one lemma per
operation on `Recorded`, one lemma per handler, and for the refinement one lemma
per action of `ReliableLog`.

For the record of a run, `AppendersInOrder` says who may append to it: the handler
while the run is fresh, the handler or the turn, never both, while it is open, and
nobody once it is closed. That is inductive because the handler gives its right up
in the step that starts the turn, and a turn gives it up with its terminal event,
whether or not that was recorded. The types need nothing but what `InTransit` says
of the places and that a full queue takes no more.

For the controller, the invariant says where the goroutine of each turn is: the
turn between its start and its reset is the one whose trace id is under the lock,
and a turn has published its end exactly when its goroutine is behind the terminal
message. The first makes `Start` of the code safe, because no other goroutine is in
the part that writes the fields; the second makes an outcome final, which is what
the contract asks. The numbers of item events need a bound on the reports, the one
that is about to be published included. The frames add two facts (`FrameInv`): a
turn has published something exactly when it is behind its running status
(`Placed`), and behind a message of the turn that owns the controller others
publish only their idle status (`OwnerSpeaks`). The second is what a new owner
finds when it starts, because it has not published yet.

That clients can catch up rests on what lies between the lock and the queue: an
event is stored under the lock and published behind it, so what is stored of a turn
is what was published and the one event in the hands of its goroutine, and that one
has the next sequence. `Held` says where an event is that was given a number: in its
item, replaced there by a later one, or behind the cut of an item that is marked. A
snapshot leaves out whole items, from the oldest on, and says so if it does. The ring
is cleared by the start and holds the last lines of the owner, the one in hand
included. For the outcome of an idle snapshot the
invariant follows the last end in the stream: it is that of the goroutine that is
about to reset the controller, and after the reset it is `lastTerminal`, because
between two ends in the stream there is always a reset.

For the client, `CallsAreTracked` needs to know where an id can be. Ids are handed
out once; an id that left the map for its response is with the reader, then in the
channel of its call, and in the map no more; and once `finish` has set the error of
the reader, the map is empty, so that a call that registers later is refused by
the same lock.

For the runner, the argument follows the items: those in the channel of a `Run`, the
one in the hands of the reader, and those in the pipe, one behind the other, have
consecutive numbers behind those that were passed on, the end of the turn comes
last, and the number of the last is how many were produced. What could break the
chain is a notification without a handler, or under the handler of another `Run`;
so the invariant also says in which phases a turn exists, and that in those the
handler is the one of its `Run`. The code sets the handler before it asks for the
turn, which is the step this depends on.

For the bootstrap, a batch is sent only when the server has everything before it,
and the server loses nothing. So every place that holds a number, whether it is
the row, a goroutine, a message, or an answer in a channel, vouches for the numbers
below it, and this is inductive whatever the server does about conflicts. The
reconciled manifest needs more: a goroutine that began without a watermark vouches
that what is stored below its number is its *own* manifest, since its sync sent all of
it and a server that refuses would have stopped it at the first difference. A
goroutine that resumes cannot vouch for that; but its final batch is not marked
safe, since it was loaded behind a watermark, and that is what the theorem turns on.

For the session, a step of the reader is a step of the contract only inside a
session, so `ReaderIsInside` is all that the refinement needs, and it is
inductive because `runSession` waits for both errors before it returns.

For the previews, the invariant says of every text, wherever it is, for which
date it is good: an entry of the cache for the date it is filed under, a text on
its way into the cache for the date of its listing. It is inductive because the
dates of a listing lie in the past, so the newest text is good for them whenever
it is fetched, and because a text stays as good as it is when a session gets
another. That an older answer may overwrite a newer one does no harm: it is filed
under its own, older date. The bounds of the type invariant count: a worker that
takes a session was idle, and the cache evicts before it takes one more.

A window is narrowed line by line at the side that reaches further from the focus, and
the invariant says that it stays centred and that none of the wider centred windows
fits: what is left when it fits is the widest of these (`WindowSince`). It need not be the
widest of all windows around the focus: of lines of 3, 0 and 1 bytes, with the second
in focus and a limit of 2, the code answers with the second alone, although it would
fit with the third. A session is fitted turn by turn, then item by item, then change
by change, and the invariant says that what is left is an end of the history at that
level, that everything above was needed to be dropped, and, again, what was too large
before the last step. Neither needs to know how sizes are computed; only that the
texts are cut at the end of the fitting.

For the catalog, the invariant says of the roots found so far that they are allowed,
come from the paths walked so far, and are not empty if one of these is allowed, and
of the projects that they have different first roots. A file of a project is
inside the directory one of its roots leads to, that is inside an allowed root, and
to be inside is transitive (`WithinIsTransitive`). This is about where a path leads at
the time of the check; the model has no links that change meanwhile.

`ServingTyping` is a theorem of the run that puts the parts together: its behaviours
are behaviours of each part, so that the theorems about the parts hold of the run.

The last two theorems are about what loops compute. `MatchPath`, `projectOwner`, the
walk over the directories, `parsePorcelainZ`, the joined diff and its width are folds
over lists in the model, as they are loops in the code. A fold is a function on the
sets of positions that are done with; `FoldExists` shows that there is one, and
`LoopOf` that it holds, for the positions up to each, what the loop has computed
there. Both go by induction, which is stated of a set, not of a formula
(`SetInduction`, from the fact that every set of numbers has a least). Behind that a
loop has an invariant like a state machine (`LoopKeeps`): `MatchPath` has the longest
of the roots it has seen, `projectOwner` the first of the best projects.

For the result of a turn there are five such facts (`GitResult_proofs`). The walk
has found what is expected of the directories it has seen, each once, and has skipped
what hides the rest (`WalkFinds`): since a directory comes before what is in it, a
directory that is in the way has been seen before what it hides. What Git prints of
the changes is read as their files, because each origin follows the entry that
announces it (`StatusNames`). The diff of a repository has the patch of each of its
changes in one piece (`DiffIs`). Two repositories that are expected have no path in
common, because neither is inside the other (`PathsDiffer`), so what is appended for
one repository does not tear what is there of another. The cut stays within the
limit (`CutIs`), and the replacements that follow it change no piece but runs of bytes
that are no characters, each into three bytes (`ValidIs`, `ValidStands`,
`ValidWidth`). The invariant says of what a
collection has gathered that it is whole for every repository but those still to do,
and of an edit that it only takes something out of what was there all the time.

The assumptions on the constants of these parts: paths are lists of names; `WalkDir`
goes in lexical order, so a directory comes before what is in it (`DirOrderAssumption`);
a character of UTF-8 has one to four bytes, a run of bytes that are none does not
follow another and does not begin a patch, and a repository has finitely many changes
(`ChangesAssumption`).

Model-checked only: the liveness properties, `EndIsTheLastWord`, `SessionComesBack` and
`ListingReturns` among them, because the proof system has no rules for `ENABLED` and
so none for fairness. Everything else that the passing runs check, the refinements and
the action property `ReleasesOnlyAcked` included, is a theorem.

## Where code and docs part

Each of these is a run that must find its violation.

* `RunDeliveryOversized`: an event too large for one message ends every session
  that writes it and stays first in the outbox; nothing behind it arrives.
* `RunDeliveryBusy`: an append refused by SQLite loses the event; a turn can end
  without its end being recorded or published in the session that goes on. A later
  session that finds the agent idle may still carry the end, without a sequence.
* `AppServerRunnerOrphan`: a deadline or interrupt during `turn/start` leaves a
  Codex turn running beside the next.
* `BootstrapShrinks`: a sync that resumes over a smaller inventory skips its
  final batch and never completes.

Some observations have no run, since no document fixes what should happen.

* `execute` frees the slot before it emits the idle status (`controller.go:266`),
  so the running status of the next turn can come first and the stale idle status
  stays the last one streamed. `TurnsAreFramed` therefore allows the idle status,
  and nothing else, to come late.
* The idle status is not durable. When the queue is full it is refused and nobody
  repeats it before the next session; `EndIsTheLastWord` excuses exactly that
  (`idleDropped`).
* A query waits for the app-server without a timeout (`service.go:173`). While it
  waits the session can be given up by the writer, but `runSession` waits for the
  reader, so an app-server that is alive and silent keeps the agent from
  reconnecting. `SessionComesBack` assumes that handlers return. An app-server
  that has died lets every query fail, and the agent stays connected.
* A write to the app-server takes no context and holds `writeMu` (`client.go:411`). An
  app-server that lives and does not read its input keeps that caller, every other
  caller that comes to write, and the read goroutine, if it has an interactive request
  to refuse (`client.go:388`), and with it every answer: no deadline of a turn, no
  three seconds of an interrupt or a preview bounds that. `CallersReturn` and
  `ListingReturns` are about an app-server that reads. The call that lists the
  sessions (`ListThreads`, `service.go:91`) has no timeout either; it is one step of
  `Inventory`, so `ListingReturns` begins behind its answer and says nothing of an
  app-server that does not give one.
* The backoff counts attempts from the first failure of the process and never
  starts over (`client.go:71`), so a session that breaks late is dialled again
  after a pause of up to the longest delay.
* A write to a silent connection has no timeout of its own; in the model a write
  ends at once, and it is the ping that finds the silence.
* Sessions are dated in seconds. A text that arrives in the second of the cached
  one is not shown until the session is updated again; `PreviewIsCurrent` compares
  dates, as the code does.
* `Read` looks at the size and reads the file afterwards (`reader.go:60` and
  `:70`). A file that grows in between is read although it exceeds the limit of
  1 MiB that `src/README.md:108` names, and `ModifiedAt` is then older than the
  content. The answer is right for what was read, which is what
  `WindowHoldsFocus` shows, and small in any case.
* The result of a turn names staged changes but has no patch of them
  (`git.go:54` asks for the diff against the index), and it is not of one moment: a
  file edited between the status and the diff can have a patch and no name. A
  directory that cannot be listed is skipped, but one that cannot be searched fails
  the whole collection, and the turn with it (`git.go:110`). `ResultIsWhole` is
  about what stayed as it was.
* A server of the bootstrap that took the later of two batches of one number,
  instead of refusing it, could be given an old batch again by a repetition in
  flight, and would then reconcile a mixture. `Bootstrap.cfg` has a server that
  refuses (`OnConflict`).

## What is not modelled

* `project.list` (how many sessions each project has and which of them run) and
  execution profiles: one request, one answer; they count and copy. They share
  the reader of the app-server client, which `CallersReturn` covers, and hold up
  the session like any query.
* The catalog of a single Git project (`workspace.New` with one directory): it
  keeps one project and has no state.
* The table of names of sensitive files: a list of texts.
* The conversion of items: sequential code over JSON; items are opaque in the
  models, and so is the result of a turn outside `GitResult`.
* The length of pauses and backoffs, encoding, configuration, logging, process
  start, scripts.
* The relay and the run server: external, modelled from how the agent uses them.

## The plan

Done: store and transactions, delivery, the controller, the runner on the client,
bootstrap, sessions, and what serves the queries; and theorems for every safety
property that the passing runs check. What is left, in this order:

1. Composition of `TurnController` with `AppServerRunner`: that the runner returns
   once its context is done is assumed by the one and shown of the other.
2. `project.list`: the counts under a changing set of projects.
