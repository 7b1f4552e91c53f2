------------------------------- MODULE MCLdt -------------------------------
(* Model values and symmetry for the runs of Ldt. *)
EXTENDS Ldt, TLC

CONSTANTS r1, r2, w1, w2, b0, b1

UserSymmetry == Permutations(Readers) \cup Permutations(Writers)
=============================================================================
