--------------------------- MODULE MCSharedMemory ---------------------------
(* Chunks of two bytes: a file of four or five bytes has a full, a last and a  *)
(* short chunk, and every place a NUL or a "quit" can have in them.            *)
EXTENDS SharedMemory
=============================================================================
