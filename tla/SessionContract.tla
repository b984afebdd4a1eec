-------------------------- MODULE SessionContract --------------------------
(***************************************************************************)
(* What the rest of the agent relies on from its relay client: sessions    *)
(* follow one another, messages of the relay are handled one at a time and *)
(* inside a session, and no session begins before the last handler is      *)
(* through.                                                                *)
(***************************************************************************)
VARIABLES
    session,    \* "down", "opening" (what is pending is written) or "up"
    handling    \* whether a message of the relay is being handled

sessionContractVars == <<session, handling>>

Open == /\ session = "down" /\ ~handling
        /\ session' = "opening" /\ UNCHANGED handling

Serve == /\ session = "opening"
         /\ session' = "up" /\ UNCHANGED handling

Leave == /\ session # "down" /\ ~handling
         /\ session' = "down" /\ UNCHANGED handling

Handle == /\ session = "up" /\ ~handling
          /\ handling' = TRUE /\ UNCHANGED session

Return == handling /\ handling' = FALSE /\ UNCHANGED session

SessionContractInit == session = "down" /\ handling = FALSE
SessionContractNext == Open \/ Serve \/ Leave \/ Handle \/ Return
SessionContractSpec ==
    SessionContractInit /\ [][SessionContractNext]_sessionContractVars
=============================================================================
