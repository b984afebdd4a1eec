------------------------- MODULE MCTurnController -------------------------
(* Two turns, one after the other, against interrupts and deadlines.  No    *)
(* symmetry: the run checks liveness too.                                   *)
EXTENDS TurnController
=============================================================================
