----------------------------- MODULE MCLockFile -----------------------------
(* LockFile with the constants of MCLockFile.cfg. *)
EXTENDS LockFile
=============================================================================
