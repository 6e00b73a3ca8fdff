------------------------------ MODULE MCXvProc ------------------------------
(* Instances of XvProc; the constants are in the cfg. *)
EXTENDS XvProc
=============================================================================
