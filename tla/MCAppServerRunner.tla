------------------------- MODULE MCAppServerRunner -------------------------
(* Runs that create a thread, or that check a profile and resume a thread. *)
EXTENDS AppServerRunner, TLC

RunSymmetry == Permutations(Runs)

NewThreads == {[profile |-> FALSE, thread |-> FALSE]}
KnownThreads == {[profile |-> TRUE, thread |-> TRUE]}
=============================================================================
