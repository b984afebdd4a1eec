----------------------------- MODULE MCStoreTx -----------------------------
(* Three connections whose transactions overlap. *)
EXTENDS StoreTx, TLC

StoreSymmetry ==
    Permutations(Conns) \cup Permutations(Runs) \cup Permutations(Commands)
=============================================================================
