------------------------------ MODULE MCXvInode ------------------------------
(* Instances of XvInode for TLC. *)
EXTENDS XvInode, TLC

(* Opening for writing with O_WRONLY alone, and creating. *)
TwoOpenModes == {{"O_WRONLY"}, {"O_CREATE", "O_RDWR"}}
ReadOnly == {{"r"}}

(* Neither processes nor names are compared except for equality. *)
Symmetry == Permutations(Procs) \union Permutations(Names)
=============================================================================
