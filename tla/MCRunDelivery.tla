--------------------------- MODULE MCRunDelivery ---------------------------
(* Delivery with short queues, so that a publish often finds them full. *)
EXTENDS RunDelivery, TLC

CommandSymmetry == Permutations(Commands)
=============================================================================
