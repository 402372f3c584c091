---------------------------- MODULE MessageQueue ----------------------------
(***************************************************************************)
(* src/task_3/mq_posix: the server creates a POSIX message queue and waits *)
(* for messages; the client opens it, sends every chunk of input.txt with  *)
(* one byte more, whatever lies behind it, and ends with "quit".  Nobody   *)
(* unlinks the queue: what a run leaves in it is there for the next one.   *)
(***************************************************************************)
EXTENDS ChunkTransfer

CONSTANTS
  MAXMSG,  \* mq_maxmsg
  NoQueue, \* there is no queue of that name
  MaxRuns  \* bound: the programs are started that often

ASSUME QueueAssumption ==
  MAXMSG \in Nat \ {0} /\ MaxRuns \in Nat \ {0} /\ NoQueue \notin Seq(Seq(Byte))

VARIABLES
  queue,   \* the messages of the queue; NoQueue before the server has made it
  spare,   \* spare[n]: the byte that lies behind the n-th chunk
  old,     \* what was in the queue when this run began
  run

queueVars == <<queue, spare, old, run>>

Quit   == <<"QUIT", "NUL">>
Spares == [1 .. (MaxLength + SIZE - 1) \div SIZE -> Byte]

QueueInit ==
  /\ queue = NoQueue /\ spare \in Spares
  /\ old = <<>> /\ run = 1

(* mq_open without O_CREAT fails as long as there is no queue. *)
ClientOpen ==
  /\ cpc = "start"
  /\ cpc' = IF queue = NoQueue THEN "failed" ELSE "send"
  /\ UNCHANGED <<file, pos, spc, out, queueVars>>

(* mq_send waits for a place in the queue. *)
HasRoom == Len(queue) < MAXMSG

ClientSend ==
  /\ cpc = "send" /\ HasRoom /\ ~AtEof
  /\ queue' = Append(queue, Append(Read, spare[Nth]))
  /\ pos' = pos + Len(Read)
  /\ UNCHANGED <<file, cpc, spc, out, spare, old, run>>

ClientQuit ==
  /\ cpc = "send" /\ HasRoom /\ AtEof
  /\ queue' = Append(queue, Quit)
  /\ cpc' = "done"
  /\ UNCHANGED <<file, pos, spc, out, spare, old, run>>

(* O_CREAT: the queue is made, or is the one that is there. *)
ServerOpen ==
  /\ spc = "start" /\ spc' = "receive"
  /\ queue' = IF queue = NoQueue THEN <<>> ELSE queue
  /\ UNCHANGED <<file, pos, cpc, out, spare, old, run>>

(* strcmp(buf, "quit") == 0, and a mutant that compares four bytes only. *)
IsQuit_Prefix(m) == m[1] = "QUIT"
IsQuit(m)        == m[1] = "QUIT" /\ m[2] = "NUL"

ServerReceive ==
  /\ spc = "receive" /\ queue # <<>>
  /\ queue' = Tail(queue)
  /\ IF IsQuit(Head(queue))
     THEN spc' = "done" /\ out' = out
     ELSE spc' = spc /\ out' = out \o Head(queue)
  /\ UNCHANGED <<file, pos, cpc, spare, old, run>>

(* Both programs are started again once both have ended. *)
NextRun ==
  /\ cpc = "done" /\ spc = "done" /\ run < MaxRuns
  /\ run' = run + 1
  /\ file' \in File /\ spare' \in Spares /\ pos' = 0
  /\ cpc' = "start" /\ spc' = "start" /\ out' = <<>>
  /\ old' = queue /\ queue' = queue

QueueClient == ClientOpen \/ ClientSend \/ ClientQuit
QueueServer == ServerOpen \/ ServerReceive

---------------------------------------------------------------------------
(* What the server is to receive in this run: what was left for it, and what  *)
(* the client sends.                                                          *)
Messages ==
  old \o [n \in 1 .. Len(Chunks(file)) |-> Append(Chunks(file)[n], spare[n])] \o <<Quit>>

Ends(m) == m[1] = "QUIT" /\ m[2] = "NUL"

(* The message that ends the server, and the bytes of the first n messages.   *)
QuitAt ==
  CHOOSE n \in 1 .. Len(Messages) : Ends(Messages[n]) /\ \A k \in 1 .. n - 1 : ~Ends(Messages[k])

Joined(ms) ==
  LET bytes[n \in 0 .. Len(ms)] == IF n = 0 THEN <<>> ELSE bytes[n - 1] \o ms[n]
  IN  bytes

QueueDelivers == Joined(Messages)[QuitAt - 1]
QueueLeaves   == Len(Messages) - QuitAt

(* The invariant behind it: how many messages have been handed to the queue   *)
(* in this run, with those it began with, and that the queue holds them but   *)
(* for the first r, whose bytes are the output.                               *)
Handed ==
  Len(old) + CASE cpc = "done" -> Len(Chunks(file)) + 1
               [] cpc # "done" /\ AtEof -> Len(Chunks(file))
               [] OTHER -> pos \div SIZE

Taken(r) ==
  /\ r <= Handed
  /\ queue = NoQueue => Handed = 0 /\ spc = "start" /\ cpc \in {"start", "failed"}
  /\ queue # NoQueue => queue = SubSeq(Messages, r + 1, Handed)
  /\ spc = "done" => r = QuitAt /\ out = QueueDelivers
  /\ spc # "done" => out = Joined(Messages)[r] /\ \A k \in 1 .. r : ~Ends(Messages[k])

MessageInv ==
  /\ old \in Seq(Seq(Byte))
  /\ cpc \in {"start", "failed"} => pos = 0
  /\ cpc = "failed" => old = <<>> /\ spc # "done"
  /\ \E r \in 0 .. Len(Messages) : Taken(r)
=============================================================================
