-------------------------- MODULE MCProfileUpdates --------------------------
(* Instances of ProfileUpdates for TLC. *)
EXTENDS ProfileUpdates, TLC

MCSymmetry == Permutations(Tab) \union Permutations(Edit)
=============================================================================
