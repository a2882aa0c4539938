---- MODULE MCAlloyDBCartStore ----
(* Instances of AlloyDBCartStore for TLC.                                     *)
EXTENDS AlloyDBCartStore, TLC

Symmetry == Permutations(Calls)
=============================================================================
