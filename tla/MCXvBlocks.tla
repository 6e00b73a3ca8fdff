----------------------------- MODULE MCXvBlocks -----------------------------
(* Instances of XvBlocks; the constants are in the cfg. *)
EXTENDS XvBlocks
=============================================================================
