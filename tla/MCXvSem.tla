------------------------------ MODULE MCXvSem ------------------------------
(* Instances of XvSem for TLC. *)
EXTENDS XvSem
=============================================================================
