------------------------------ MODULE MCSnull ------------------------------
(* Symmetry for the run of Snull: the two interfaces are alike. *)
EXTENDS Snull, TLC

DevSymmetry == Permutations(Devs)
=============================================================================
