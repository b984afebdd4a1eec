----------------------------- MODULE Inventory -----------------------------
(***************************************************************************)
(* The listing of a project's sessions with a preview of the newest        *)
(* message of each (internal/inventory/service.go, Threads and             *)
(* latestMessagePreview).                                                  *)
(*                                                                         *)
(* A listing hands its sessions to a pool of workers over a channel        *)
(* without a buffer.  A worker takes the preview from a cache that all     *)
(* listings share, or asks the app-server for it, outside the lock.  Two   *)
(* listings may be at work at once: one in the read goroutine of the relay *)
(* session, one in the goroutine of a bootstrap.                           *)
(*                                                                         *)
(* A text of a session is represented by its number.  Sessions are dated   *)
(* in seconds, so that texts in a row may have one date.                   *)
(***************************************************************************)
EXTENDS Integers, Sequences, FiniteSets

CONSTANTS
    Callers,           \* goroutines that list
    Threads,           \* sessions of the project
    Workers,           \* latestPreviewWorkers
    CacheSize,         \* latestPreviewCacheSize
    MaxUpdates         \* bound on changes of the sessions

ASSUME ThreadsAssumption == IsFiniteSet(Threads)
ASSUME WorkersAssumption == Workers \in Nat \ {0}
ASSUME CacheSizeAssumption == CacheSize \in Nat \ {0}

VARIABLES
    dates,             \* external: of each session, the dates of its texts
    listing,           \* the call of each caller, with the dates ListThreads gave
    job,               \* of each listing, how far each of its sessions is
    cache,             \* previewCache: session -> date and text
    updates

inventoryVars == <<dates, listing, job, cache, updates>>

Fallback == -1         \* what the session began with, where no newer text is found
DateOf(t, text) == IF text > 0 THEN dates[t][text] ELSE 0
UpdatedAt(t) == DateOf(t, Len(dates[t]))

NoListing == [pc |-> "idle", dates |-> << >>]
Left == [pc |-> "left"]
Done(text) == [pc |-> "done", text |-> text]
With(f, k, v) == [x \in DOMAIN f \cup {k} |-> IF x = k THEN v ELSE f[x]]
Without(f, k) == [x \in DOMAIN f \ {k} |-> f[x]]

\* A session gets a new text: in this second or in a later one.
Update(t) ==
    /\ updates < MaxUpdates
    /\ updates' = updates + 1
    /\ \E later \in {0, 1} :
          dates' = [dates EXCEPT ![t] = Append(@, UpdatedAt(t) + later)]
    /\ UNCHANGED <<listing, job, cache>>

-----------------------------------------------------------------------------
(* Threads *)

\* ListThreads; which of the sessions belong to the project is Workspace's matter.
List(c) ==
    /\ listing[c].pc = "idle"
    /\ \E owned \in SUBSET Threads :
          /\ listing' = [listing EXCEPT ![c] =
                 [pc |-> "jobs", dates |-> [t \in owned |-> UpdatedAt(t)]]]
          /\ job' = [job EXCEPT ![c] = [t \in owned |-> Left]]
    /\ UNCHANGED <<dates, cache, updates>>

Min2(a, b) == IF a < b THEN a ELSE b

WorkerCountOneLess(n) ==           \* mutant: a listing of one gets no worker
    IF n = 0 THEN 0 ELSE Min2(Workers, n - 1)

WorkerCount(n) == Min2(Workers, n)

Owned(c) == DOMAIN job[c]
In(c, pcs) == {t \in Owned(c) : job[c][t].pc \in pcs}
AtWork(c) == In(c, {"lookup", "fetch", "store"})

\* jobs <- index: the caller waits until one of its workers takes it.
Feed(c, t) ==
    /\ t \in In(c, {"left"})
    /\ Cardinality(AtWork(c)) < WorkerCount(Cardinality(Owned(c)))
    /\ job' = [job EXCEPT ![c][t] = [pc |-> "lookup"]]
    /\ UNCHANGED <<dates, listing, cache, updates>>

AllFed(c) == In(c, {"left"}) = {}                      \* mutant: no Wait

\* close(jobs) and workers.Wait.
AllDone(c) == In(c, {"left"}) = {} /\ AtWork(c) = {}

Return(c) ==
    /\ listing[c].pc = "jobs" /\ AllDone(c)
    /\ listing' = [listing EXCEPT ![c].pc = "returned"]
    /\ UNCHANGED <<dates, job, cache, updates>>

\* What was returned is in the hands of the caller, which may list again.
Forget(c) ==
    /\ listing[c].pc = "returned"
    /\ listing' = [listing EXCEPT ![c] = NoListing]
    /\ job' = [job EXCEPT ![c] = << >>]
    /\ UNCHANGED <<dates, cache, updates>>

-----------------------------------------------------------------------------
(* latestMessagePreview *)

Becomes(c, t, state) == job' = [job EXCEPT ![c][t] = state]

HitAnyDate(c, t) == t \in DOMAIN cache                 \* mutant

Hit(c, t) == t \in DOMAIN cache /\ cache[t].date = listing[c].dates[t]

Lookup(c, t) ==
    /\ t \in In(c, {"lookup"})
    /\ Becomes(c, t, IF Hit(c, t) THEN Done(cache[t].text) ELSE [pc |-> "fetch"])
    /\ UNCHANGED <<dates, listing, cache, updates>>

\* ListLatestTurns with the newest text there is, unless none of these turns has one.
Fetch(c, t) ==
    /\ t \in In(c, {"fetch"})
    /\ \E text \in {Len(dates[t]), Fallback} :
          Becomes(c, t, [pc |-> "store", text |-> text])
    /\ UNCHANGED <<dates, listing, cache, updates>>

\* An error, or the three seconds have passed: nothing is cached.
FetchFails(c, t) ==
    /\ t \in In(c, {"fetch"})
    /\ Becomes(c, t, Done(Fallback))
    /\ UNCHANGED <<dates, listing, cache, updates>>

WithRoomBehindLimit ==             \* mutant: off by one at the limit
    IF Cardinality(DOMAIN cache) > CacheSize
      THEN {Without(cache, k) : k \in DOMAIN cache} ELSE {cache}

\* Any entry goes when the cache is full, even the one to be replaced.
WithRoom ==
    IF Cardinality(DOMAIN cache) >= CacheSize
      THEN {Without(cache, k) : k \in DOMAIN cache} ELSE {cache}

Store(c, t) ==
    /\ t \in In(c, {"store"})
    /\ \E room \in WithRoom :
          cache' = With(room, t, [date |-> listing[c].dates[t],
                                  text |-> job[c][t].text])
    /\ Becomes(c, t, Done(job[c][t].text))
    /\ UNCHANGED <<dates, listing, updates>>

-----------------------------------------------------------------------------
InventoryInit ==
    /\ dates = [t \in Threads |-> << >>]
    /\ listing = [c \in Callers |-> NoListing]
    /\ job = [c \in Callers |-> << >>]
    /\ cache = << >>
    /\ updates = 0

Work(c, t) ==
    Feed(c, t) \/ Lookup(c, t) \/ Fetch(c, t) \/ FetchFails(c, t) \/ Store(c, t)

InventoryNext ==
    \/ \E t \in Threads : Update(t)
    \/ \E c \in Callers :
          \/ List(c) \/ Return(c) \/ Forget(c)
          \/ \E t \in Threads : Work(c, t)

\* Goroutines are scheduled, and a request for a preview ends after three seconds.
InventoryFairness ==
    \A c \in Callers : WF_inventoryVars(Return(c) \/ \E t \in Threads : Work(c, t))

InventorySpec == InventoryInit /\ [][InventoryNext]_inventoryVars
FairInventorySpec == InventorySpec /\ InventoryFairness

-----------------------------------------------------------------------------
(* Properties *)

\* The variables have their types, no listing has more workers than it may, and the
\* cache never outgrows its limit.
InventoryTypeOK ==
    /\ \A c \in Callers :
          /\ listing[c].pc \in {"idle", "jobs", "returned"}
          /\ Owned(c) = DOMAIN listing[c].dates
          /\ Cardinality(AtWork(c)) <= Workers
    /\ DOMAIN cache \subseteq Threads /\ Cardinality(DOMAIN cache) <= CacheSize

\* A listing that has returned has a preview for each of its sessions, and none is
\* older than the date the listing gives the session: whatever other listings put
\* into the cache, in whatever order they were answered.
PreviewIsCurrent ==
    \A c \in Callers :
        listing[c].pc = "returned" =>
            \A t \in Owned(c) :
                /\ job[c][t].pc = "done"
                /\ \/ job[c][t].text = Fallback
                   \/ DateOf(t, job[c][t].text) >= listing[c].dates[t]

\* A listing comes back although it waits for a worker with each session, and the
\* workers for an app-server that may not answer.
ListingReturns ==
    \A c \in Callers : []<>(listing[c].pc # "jobs")
=============================================================================
