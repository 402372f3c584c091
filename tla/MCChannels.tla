----------------------------- MODULE MCChannels -----------------------------
(* Transfers: chunks of two bytes, files of up to two chunks, a queue of one  *)
(* message, a FIFO of one chunk and a byte, two runs on one queue.  Tokens:   *)
(* two clients with three requests each, four descriptors, one kill of the    *)
(* server.                                                                    *)
EXTENDS Channels
=============================================================================
