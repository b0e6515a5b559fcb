------------------------------ MODULE MCStore ------------------------------
(* Small instances of TsedgeStore. *)
EXTENDS TsedgeStoreContract, TLC

Symmetry == Permutations(Series)
=============================================================================
