----------------------------- MODULE MCCopyTree -----------------------------
(* Instances of CopyTree for TLC. *)
EXTENDS CopyTree
=============================================================================
