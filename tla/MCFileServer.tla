---------------------------- MODULE MCFileServer ----------------------------
(* One file of two pieces, more than a FIFO holds, and a name without a file.  *)
EXTENDS FileServer, TLC

CONSTANTS c1, c2, t1, t2, doc, none

TwoNames == (doc :> 2) @@ (none :> -1)
GetTwice == (c1 :> 2) @@ (c2 :> 1)
=============================================================================
