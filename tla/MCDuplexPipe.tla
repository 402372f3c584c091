---------------------------- MODULE MCDuplexPipe ----------------------------
(* Chunks of three bytes, pipes that hold two of them, files of up to two     *)
(* chunks and a short one.                                                     *)
EXTENDS DuplexPipe
=============================================================================
