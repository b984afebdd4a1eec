---------------------------- MODULE TurnContract ----------------------------
(***************************************************************************)
(* What the turn controller promises its callers, with no goroutines: one  *)
(* turn owns the agent at a time, its outcome is reported once while it    *)
(* still owns the agent, and only then may the next turn begin.            *)
(***************************************************************************)
CONSTANTS Traces, Outcomes, NoTrace

VARIABLES
    slot,       \* the trace that owns the agent, or NoTrace
    outcome     \* per trace: "none", "running", or how it ended

contractVars == <<slot, outcome>>

Begin(t) ==
    /\ slot = NoTrace /\ outcome[t] = "none"
    /\ slot' = t
    /\ outcome' = [outcome EXCEPT ![t] = "running"]

Report(t, o) ==
    /\ slot = t /\ outcome[t] = "running"
    /\ outcome' = [outcome EXCEPT ![t] = o]
    /\ UNCHANGED slot

Leave(t) ==
    /\ slot = t /\ outcome[t] \in Outcomes
    /\ slot' = NoTrace
    /\ UNCHANGED outcome

ContractInit ==
    /\ slot = NoTrace
    /\ outcome = [t \in Traces |-> "none"]

ContractNext ==
    \E t \in Traces : Begin(t) \/ Leave(t) \/ \E o \in Outcomes : Report(t, o)

ContractSpec == ContractInit /\ [][ContractNext]_contractVars
=============================================================================
