--------------------------- MODULE SignalTransfer ---------------------------
(***************************************************************************)
(* src/task_5/tiazhelkov.ve: sig_snd passes a file to sig_rcv by signals.  *)
(* It announces its pid as the value of a SIGINT, then sends packages of   *)
(* up to three bytes and their length as the values of SIGUSR1, waiting    *)
(* with pause() for a SIGINT of the receiver after each, and ends with     *)
(* SIGUSR2.  The receiver's handlers set globals that its loop looks at    *)
(* after every pause().                                                    *)
(*                                                                         *)
(* The kernel keeps one pending signal of a kind for a process: a second   *)
(* one is dropped together with its value.  A handler runs at any time     *)
(* after its signal was sent, and pause() returns after all handlers that  *)
(* are due have run; a handler that ran before pause() is no reason for    *)
(* pause() to return.  Only the two programs send signals.                 *)
(***************************************************************************)
EXTENDS Integers, Sequences

CONSTANTS
  MAX_BUFF_SIZE,   \* bytes of one fread
  MaxSize          \* bound: bytes of the file

ASSUME SignalAssumption == MAX_BUFF_SIZE \in Nat \ {0} /\ MaxSize \in Nat

VARIABLES
  size,      \* bytes of the file
  spc,       \* where the sender is
  pos,       \* bytes it has sent
  ack,       \* a SIGINT is pending at the sender
  rpc,       \* where the receiver is
  pending,   \* the signals pending at the receiver
  queued,    \* the value of the pending SIGUSR1
  woken,     \* a handler has run during the receiver's pause()
  SND_PID,   \* has the receiver the sender's pid
  VAL, WRITE, END,   \* its other globals
  n,         \* (int) VAL[3] as the second argument of fwrite
  out        \* what it has written

senderVars   == <<size, spc, pos, ack>>
kernelVars   == <<pending, queued>>
receiverVars == <<rpc, woken, SND_PID, VAL, WRITE, END, n, out>>
vars == <<senderVars, kernelVars, receiverVars>>

Least(a, b) == IF a <= b THEN a ELSE b

(* A package: its bytes are numbers from .. from + len - 1 of the file. *)
Package == [from : 0 .. MaxSize, len : 0 .. 3]

TypeOK ==
  /\ size \in 0 .. MaxSize
  /\ spc \in {"start", "send", "sent", "pause", "done"}
  /\ pos \in 0 .. size
  /\ ack \in BOOLEAN
  /\ rpc \in {"start", "back", "pause", "test", "write", "clear", "end", "ack", "last", "done", "killed"}
  /\ pending \subseteq {"INT", "USR1", "USR2"}
  /\ queued \in Package
  /\ woken \in BOOLEAN /\ SND_PID \in BOOLEAN /\ WRITE \in BOOLEAN /\ END \in BOOLEAN
  /\ VAL \in Package
  /\ n \in 0 .. 3
  /\ out \in Seq(Package)

NoBytes == [from |-> 0, len |-> 0]

Init ==
  /\ size \in 0 .. MaxSize
  /\ spc = "start" /\ pos = 0 /\ ack = FALSE
  /\ rpc = "start" /\ woken = FALSE
  /\ pending = {} /\ queued = NoBytes
  /\ SND_PID = FALSE /\ VAL = NoBytes /\ WRITE = FALSE /\ END = FALSE
  /\ n = 0 /\ out = <<>>

ReceiverExists == rpc \notin {"done", "killed"}

(* kill and sigqueue to a process that is no more fail; nobody looks. *)
SendSignal(s) == pending' = IF ReceiverExists THEN pending \cup {s} ELSE pending

---------------------------------------------------------------------------
(* sig_snd *)

SndPid ==
  /\ spc = "start" /\ spc' = "send"
  /\ SendSignal("INT")
  /\ UNCHANGED <<size, pos, ack, queued, receiverVars>>

(* The package that begins at byte p: three bytes, or what the buffer of the  *)
(* current fread still holds.                                                 *)
PackageAt(p) ==
  LET left == Least(size - p, MAX_BUFF_SIZE - (p % MAX_BUFF_SIZE))
  IN  [from |-> p, len |-> Least(3, left)]

SendPackage ==
  /\ spc = "send" /\ pos < size
  /\ spc' = "sent"
  /\ SendSignal("USR1")
  /\ queued' = IF "USR1" \in pending THEN queued ELSE PackageAt(pos)
  /\ pos' = pos + PackageAt(pos).len
  /\ UNCHANGED <<size, ack, receiverVars>>

(* A mutant of EnterPause: no acknowledgement is waited for. *)
EnterPause_Skipped ==
  /\ spc = "sent" /\ spc' = "send"
  /\ UNCHANGED <<size, pos, ack, kernelVars, receiverVars>>

EnterPause ==
  /\ spc = "sent" /\ spc' = "pause"
  /\ UNCHANGED <<size, pos, ack, kernelVars, receiverVars>>

SendEnd ==
  /\ spc = "send" /\ pos = size
  /\ spc' = "done"
  /\ SendSignal("USR2")
  /\ UNCHANGED <<size, pos, ack, queued, receiverVars>>

(* The empty handler of the sender runs; it ends a pause(), and nothing else. *)
HandleAck ==
  /\ ack /\ spc # "done"
  /\ ack' = FALSE
  /\ spc' = IF spc = "pause" THEN "send" ELSE spc
  /\ UNCHANGED <<size, pos, kernelVars, receiverVars>>

SenderStep == SndPid \/ SendPackage \/ EnterPause \/ SendEnd \/ HandleAck

---------------------------------------------------------------------------
(* sig_rcv *)

Configure ==
  /\ rpc = "start" /\ pending = {}
  /\ rpc' = "back"
  /\ UNCHANGED <<senderVars, kernelVars, woken, SND_PID, VAL, WRITE, END, n, out>>

(* The pid is printed before the handlers are installed (24, 25): a signal    *)
(* that comes in between ends the receiver.                                   *)
Killed ==
  /\ rpc = "start" /\ pending # {}
  /\ rpc' = "killed"
  /\ pending' = {}
  /\ UNCHANGED <<senderVars, queued, woken, SND_PID, VAL, WRITE, END, n, out>>

Delivered(s) ==
  /\ s \in pending
  /\ rpc # "start" /\ ReceiverExists
  /\ pending' = pending \ {s}
  /\ woken' = (woken \/ rpc = "pause")
  /\ UNCHANGED <<senderVars, queued, rpc, n, out>>

sigint_handler == Delivered("INT") /\ SND_PID' = TRUE /\ UNCHANGED <<VAL, WRITE, END>>

sigusr1_handler ==
  /\ Delivered("USR1")
  /\ VAL' = queued /\ WRITE' = TRUE
  /\ UNCHANGED <<SND_PID, END>>

sigusr2_handler == Delivered("USR2") /\ END' = TRUE /\ UNCHANGED <<SND_PID, VAL, WRITE>>

(* rcv_file's loop calls pause(): a handler that ran since the handlers were  *)
(* installed, or since the last acknowledgement, does not end this one.       *)
WaitForSignal ==
  /\ rpc = "back" /\ rpc' = "pause"
  /\ UNCHANGED <<senderVars, kernelVars, woken, SND_PID, VAL, WRITE, END, n, out>>

PauseReturns ==
  /\ rpc = "pause" /\ woken /\ pending = {}
  /\ rpc' = "test" /\ woken' = FALSE
  /\ UNCHANGED <<senderVars, kernelVars, SND_PID, VAL, WRITE, END, n, out>>

(* The loop reads WRITE and the length, copies VAL, resets WRITE; a    *)
(* handler may run between any two of these.                                  *)
TestWrite ==
  /\ rpc = "test"
  /\ IF WRITE THEN rpc' = "write" /\ n' = VAL.len ELSE rpc' = "end" /\ UNCHANGED n
  /\ UNCHANGED <<senderVars, kernelVars, woken, SND_PID, VAL, WRITE, END, out>>

Write ==
  /\ rpc = "write" /\ rpc' = "clear"
  /\ out' = Append(out, [from |-> VAL.from, len |-> n])
  /\ UNCHANGED <<senderVars, kernelVars, woken, SND_PID, VAL, WRITE, END, n>>

(* A mutant of Clear: WRITE is not reset. *)
Clear_Forgotten ==
  /\ rpc = "clear" /\ rpc' = "end"
  /\ UNCHANGED <<senderVars, kernelVars, woken, SND_PID, VAL, WRITE, END, n, out>>

Clear ==
  /\ rpc = "clear" /\ rpc' = "end"
  /\ WRITE' = FALSE
  /\ UNCHANGED <<senderVars, kernelVars, woken, SND_PID, VAL, END, n, out>>

TestEnd ==
  /\ rpc = "end"
  /\ rpc' = IF END THEN "last" ELSE "ack"
  /\ UNCHANGED <<senderVars, kernelVars, woken, SND_PID, VAL, WRITE, END, n, out>>

(* kill(SND_PID, SIGINT); the next pause() is a step of its own.  After the   *)
(* last one main ends.                                                        *)
Acknowledge ==
  /\ rpc \in {"ack", "last"}
  /\ rpc' = IF rpc = "ack" THEN "back" ELSE "done"
  /\ ack' = (ack \/ (SND_PID /\ spc # "done"))
  /\ pending' = IF rpc = "last" THEN {} ELSE pending
  /\ UNCHANGED <<size, spc, pos, queued, woken, SND_PID, VAL, WRITE, END, n, out>>

ReceiverStep ==
  \/ Configure \/ Killed
  \/ sigint_handler \/ sigusr1_handler \/ sigusr2_handler
  \/ WaitForSignal \/ PauseReturns \/ TestWrite \/ Write \/ Clear \/ TestEnd \/ Acknowledge

Next == SenderStep \/ ReceiverStep

(* Both processes are scheduled, and a pending signal is delivered.           *)
Spec == Init /\ [][Next]_vars /\ WF_vars(SenderStep) /\ WF_vars(ReceiverStep)

---------------------------------------------------------------------------
Written == 1 .. Len(out)

(* Whatever signals are dropped, overtaken or handled in the middle of the    *)
(* loop, no package is written twice and none after a later one.              *)
InOrder == \A i, j \in Written : i < j => out[i].from < out[j].from

(* Packages are lost, because the SIGINT that carries the pid is acknowledged  *)
(* like a package and the sender runs ahead.  But it is never more than one   *)
(* package ahead: of two in a row the receiver writes at least one.           *)
After(p) == p + PackageAt(p).len

LossIsLone ==
  /\ \A i \in Written :
       LET before == IF i = 1 THEN 0 ELSE After(out[i - 1].from)
       IN  out[i].from \in {before, After(before)}
  /\ rpc = "done" =>
       LET rest == IF out = <<>> THEN 0 ELSE After(out[Len(out)].from)
       IN  After(rest) = size

(* The inductive invariant behind InOrder: what is written, what is in VAL    *)
(* and still to be written, what is queued and what is sent follow each other *)
(* in the file.  At "clear" a set WRITE is about to be lost, with its VAL.    *)
Unwritten == rpc = "write" \/ (WRITE /\ rpc # "clear")

OrderInv ==
  /\ \A i \in Written : out[i].from <= VAL.from /\ out[i].from < pos
  /\ Unwritten => \A i \in Written : out[i].from < VAL.from
  /\ Unwritten \/ WRITE => VAL.from < pos
  /\ "USR1" \in pending =>
       /\ queued.from < pos
       /\ \A i \in Written : out[i].from < queued.from
       /\ Unwritten \/ WRITE => VAL.from < queued.from
  /\ spc = "start" => pending = {} /\ ~WRITE /\ rpc # "write" /\ out = <<>>

IInv == TypeOK /\ OrderInv /\ InOrder

---------------------------------------------------------------------------
(* What the assignment says, the code does not do.                            *)

(* task.txt:1, "pass a file between two processes": the transfer goes on to   *)
(* its end.  A sender that waits in pause() for a package to be acknowledged  *)
(* gets the acknowledgement, unless the receiver was killed by a signal that  *)
(* came before it had installed its handlers.                                 *)
TransferGoesOn == spc = "pause" ~> (spc # "pause" \/ rpc = "killed")
=============================================================================
