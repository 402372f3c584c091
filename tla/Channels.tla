------------------------------ MODULE Channels ------------------------------
(***************************************************************************)
(* The programs of task_3 that talk through a queue or a FIFO.  Nothing    *)
(* connects them: a behaviour is one of MessageQueue, of FifoTransfer or   *)
(* of TokenService.  The two transfers implement FileTransfer.             *)
(***************************************************************************)
EXTENDS MessageQueue, FifoTransfer, TokenService

VARIABLE kind   \* "mq", "fifo" or "tokens"

transferVars == <<chunkVars, queueVars, fifoVars>>
vars == <<kind, transferVars, tokenVars>>

(* The data of the programs that do not run are of no interest. *)
Init ==
  /\ kind \in {"mq", "fifo", "tokens"}
  /\ ChunkInit /\ QueueInit /\ FifoInit /\ TokenInit
  /\ kind # "fifo" => rest = "NUL"
  /\ kind # "mq" => \A n \in DOMAIN spare : spare[n] = "NUL"
  /\ kind = "tokens" => file = <<>>

Queue(A)  == kind = "mq" /\ A /\ UNCHANGED <<kind, fifoVars, tokenVars>>
Fifo(A)   == kind = "fifo" /\ A /\ UNCHANGED <<kind, queueVars, tokenVars>>
Tokens(A) == kind = "tokens" /\ A /\ UNCHANGED <<kind, transferVars>>

Client == Queue(QueueClient) \/ Fifo(FifoWriter)
Server == Queue(QueueServer) \/ Fifo(FifoReader)

Next == Client \/ Server \/ Queue(NextRun) \/ Tokens(TokenStep)

(* The kernel schedules the programs; nobody has to start one again, and the  *)
(* clients of the token server need not ask.                                  *)
Spec ==
  /\ Init /\ [][Next]_vars
  /\ WF_vars(Client) /\ WF_vars(Server)
  /\ WF_vars(Tokens(Service)) /\ \A c \in Asker : WF_vars(Tokens(GetToken(c)))

TypeOK ==
  /\ file \in File /\ pos \in 0 .. Len(file) /\ out \in Seq(Byte)
  /\ cpc \in {"start", "opening", "send", "write", "done", "failed"}
  /\ spc \in {"start", "opening", "receive", "read", "done"}
  /\ spare \in Spares
  /\ queue # NoQueue => queue \in Seq(Seq(Byte)) /\ Len(queue) <= MAXMSG
  /\ fifo \in Seq(Byte) /\ Len(fifo) <= Capacity /\ buf \in [1 .. SIZE -> Byte]
  /\ asks \in Seq(Asker) /\ serving \in Asker \cup {"nobody"}
  /\ own \in [Asker -> Seq(Nat)] /\ linked \subseteq Asker
  /\ opened \in 0 .. Descriptors /\ token \in Nat \ {0}
  /\ svc \in {"off", "on"} /\ given \in Seq(Asker \X Nat)
  /\ apc \in [Asker -> {"start", "ask", "wait", "failed", "done", "killed"}]

---------------------------------------------------------------------------
(* The output grows along what the programs make of the file and is that when *)
(* the server ends: for the queue the messages up to the first that reads     *)
(* "quit", each with its spare byte and those left by the last run first; for *)
(* the FIFO the file, but for a last chunk that reads "quit".                 *)
Delivered == IF kind = "mq" THEN QueueDelivers ELSE FifoDelivers

Transfer == INSTANCE FileTransfer WITH
              file     <- Delivered,
              received <- out,
              outcome  <- CASE spc = "done"   -> "ended"
                            [] cpc = "failed" -> "failed"
                            [] OTHER          -> "copying"

TransferImplemented == Transfer!FTSpec

(* The test for "quit" ends the reader with the last chunk only, so that the  *)
(* writer never writes to a FIFO without a reader (SIGPIPE, fifo_writer.c:37), *)
(* although the FIFO does not keep the chunks apart.                          *)
NoBrokenPipe == kind = "fifo" /\ spc = "done" => AtEof /\ fifo = <<>>

(* The programs end, whoever starts first, once the client has its channel:   *)
(* the server always, the client unless more messages than the queue holds    *)
(* stay behind one that reads "quit".                                         *)
BothEnd ==
  /\ cpc \in {"send", "write"} ~> spc = "done"
  /\ cpc = "write" ~> cpc = "done"
  /\ (cpc = "send" /\ QueueLeaves <= MAXMSG) ~> cpc = "done"

(* The tokens of one run of the server are 1, 2, 3 and so on, whatever fails. *)
TokensInARow ==
  /\ token = Len(given) + 1
  /\ \A k \in 1 .. Len(given) : given[k][2] = k

(* A client has one request or answer under way while it waits and none       *)
(* otherwise, so that the token it reads answers what it has asked last and   *)
(* no queue fills.  One that was killed may leave an answer behind.           *)
UnderWay(c) ==
  Cardinality({k \in 1 .. Len(asks) : asks[k] = c}) + Len(own[c]) + (IF serving = c THEN 1 ELSE 0)

OneUnderWay ==
  \A c \in Asker : UnderWay(c) <= 1 /\ (UnderWay(c) = 1 => apc[c] \in {"wait", "killed"})

(* A request is answered, also one that a killed server has left in the       *)
(* queue, unless the server is killed with it or has no descriptor left.      *)
Answered ==
  \A c \in Asker :
    (svc = "on" /\ kills = MaxKills /\ UnderWay(c) = 1 /\ apc[c] = "wait")
      ~> (apc[c] # "wait" \/ opened = Descriptors)
=============================================================================
