--------------------------- MODULE MCBufferedFile ---------------------------
(* BufferedFile with the constants of the MCBufferedFile*.cfg files. *)
EXTENDS BufferedFile
=============================================================================
