----------------------------- MODULE MCXvSched -----------------------------
(* Instances of XvSched for TLC. *)
EXTENDS XvSched, TLC

(* CPUs are compared for equality only. *)
Symmetry == Permutations(CPUs)
=============================================================================
