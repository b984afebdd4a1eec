---------------------------- MODULE ReliableLog ----------------------------
(***************************************************************************)
(* What the agent promises the server about the events of its runs, with   *)
(* no connection, queue or process in sight: an event that was recorded is *)
(* retained until it is durable on the server, nothing that was not        *)
(* recorded is ever delivered under a sequence, and one sequence of a run  *)
(* names one event.  Messages without a sequence are no part of the log:   *)
(* they may report what the store has refused, nobody retains them, and    *)
(* the server cannot acknowledge them.                                     *)
(***************************************************************************)
EXTENDS Integers

CONSTANT Events    \* records with at least the fields run and seq

VARIABLES
    log,         \* events recorded so far
    retained,    \* events kept for another delivery
    durable      \* events the server has

logVars == <<log, retained, durable>>

SameKey(e, f) == e.run = f.run /\ e.seq = f.seq

\* An event is recorded under a key of its own.
Record(e) ==
    /\ \A f \in log : ~ SameKey(e, f)
    /\ log' = log \cup {e}
    /\ retained' = retained \cup {e}
    /\ UNCHANGED durable

Deliver(e) ==
    /\ e \in log
    /\ durable' = durable \cup {e}
    /\ UNCHANGED <<log, retained>>

\* Only what the server has may be given up.
Release(E) ==
    /\ E \subseteq durable
    /\ retained' = retained \ E
    /\ UNCHANGED <<log, durable>>

LogInit == log = {} /\ retained = {} /\ durable = {}

LogNext ==
    \/ \E e \in Events : Record(e) \/ Deliver(e)
    \/ \E E \in SUBSET retained : Release(E)

LogSpec == LogInit /\ [][LogNext]_logVars
=============================================================================
