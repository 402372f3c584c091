---------------------------- MODULE FileTransfer ----------------------------
(***************************************************************************)
(* What the homework asks of every pair of programs that passes a file     *)
(* from one process to another (src/task_2/task_2.md, src/task_3/task.txt, *)
(* src/task_5/task.txt): the receiver's output grows along the file, never *)
(* differs from it, and the transfer ends when the output is the file.  A  *)
(* transfer may fail, but only before anything has been received; one that *)
(* has ended may be followed by another.  When a transfer comes to its end *)
(* is different in every pair of programs, and stated there.               *)
(***************************************************************************)
EXTENDS Integers, Sequences

VARIABLES
  file,      \* what is to be received
  received,  \* the output so far
  outcome    \* "copying", "ended" or "failed"

ftVars == <<file, received, outcome>>

FTInit ==
  /\ received = <<>>
  /\ outcome = "copying"

Receive ==
  /\ outcome = "copying"
  /\ \E n \in Len(received) + 1 .. Len(file) : received' = SubSeq(file, 1, n)
  /\ UNCHANGED <<file, outcome>>

End ==
  /\ outcome = "copying"
  /\ received = file
  /\ outcome' = "ended"
  /\ UNCHANGED <<file, received>>

Fail ==
  /\ outcome = "copying"
  /\ received = <<>>
  /\ outcome' = "failed"
  /\ UNCHANGED <<file, received>>

(* The programs are started again on a file of any contents. *)
Again ==
  /\ outcome = "ended"
  /\ outcome' = "copying"
  /\ received' = <<>>

FTNext == Receive \/ End \/ Fail \/ Again

FTSpec == FTInit /\ [][FTNext]_ftVars
=============================================================================
