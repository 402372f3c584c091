----------------------------- MODULE ClusterNet -----------------------------
(***************************************************************************)
(* The machines of the Monte Carlo cluster of task_8 and the network       *)
(* between them, as the two programs use it:                               *)
(*                                                                         *)
(*  - UDP port 8123: one broadcast "Hello" from the server and one         *)
(*    datagram with its number of cores from every worker.  A datagram     *)
(*    may be lost (also because nobody has bound the port yet), delayed,   *)
(*    overtaken and, MaxDup times in all, duplicated.                      *)
(*  - TCP port 8123: one connection per entry of the server's worker       *)
(*    table.  A connection carries one task down and one double up; each   *)
(*    is written by one write() and is smaller than a segment, so neither  *)
(*    is ever split.                                                       *)
(*                                                                         *)
(* The kernel and the network are not code of the repository: their state  *)
(* is modelled from how src/task_8/tiazhelkov.ve/src/server.c and worker.c *)
(* use it.                                                                 *)
(***************************************************************************)
EXTENDS Integers, FiniteSets

CONSTANTS
  Hosts,        \* the machines that run the worker program
  Cores,        \* Cores[h]: MAX_CORES of the worker built for machine h
  MaxCores,     \* an upper bound of Cores
  MaxWorkers,   \* MAX_WORKERS, the size of the server's worker table
  MainPoints,   \* num_or_points of the task to be divided
  MaxDup,       \* bound: how many datagrams the network duplicates
  MayCrash,     \* the machines whose worker may be killed
  NoHost        \* the content of a table entry that is not in use

(* worker.c defines MAX_CORES 8, server.c MAX_WORKERS 10 and 100000 points:  *)
(* there are at least as many points as cores a full table can announce.     *)
ASSUME ClusterAssumption ==
  /\ MaxCores \in Nat \ {0}
  /\ Cores \in [Hosts -> 1 .. MaxCores]
  /\ MaxWorkers \in Nat \ {0}
  /\ MainPoints \in Nat
  /\ MaxWorkers * MaxCores <= MainPoints
  /\ MaxDup \in Nat
  /\ MayCrash \subseteq Hosts
  /\ NoHost \notin Hosts

VARIABLES
  hello,        \* the machines the broadcast is still under way to
  replies,      \* replies[h]: copies of h's core count on their way
  dups,         \* how many datagrams have been duplicated
  listening,    \* the machines whose TCP port accepts connections
  peer,         \* peer[i]: the machine at the other end of connection i
  link,         \* link[i]: the state of connection i, seen by the server
  down,         \* down[i]: the task in the worker's receive buffer, if any
  up,           \* up[i]: the answer in the server's receive buffer, if any
  serverClosed  \* the server process has ended and its sockets are closed

netVars == <<hello, replies, dups, listening, peer, link, down, up, serverClosed>>

Slots == 1 .. MaxWorkers   \* entries of the worker table, and their sockets

(* A task names the strips it covers: the main task's x-range is cut into as *)
(* many strips as there are cores, strip k being tasks[k].  An answer is the *)
(* task whose integral it is.                                                *)
Task == [from: Nat, to: Nat, points: Nat]

LinkState == {"none", "queued", "open", "fin", "rst"}

NetTypeOK ==
  /\ hello \subseteq Hosts
  /\ replies \in [Hosts -> Nat]
  /\ dups \in 0 .. MaxDup
  /\ listening \subseteq Hosts
  /\ peer \in [Slots -> Hosts \cup {NoHost}]
  /\ link \in [Slots -> LinkState]
  /\ down \in [Slots -> SUBSET Task]
  /\ up \in [Slots -> SUBSET Task]
  /\ serverClosed \in BOOLEAN

NetInit ==
  /\ hello = {}
  /\ replies = [h \in Hosts |-> 0]
  /\ dups = 0
  /\ listening = {}
  /\ peer = [i \in Slots |-> NoHost]
  /\ link = [i \in Slots |-> "none"]
  /\ down = [i \in Slots |-> {}]
  /\ up = [i \in Slots |-> {}]
  /\ serverClosed = FALSE

---------------------------------------------------------------------------
(* What the network does by itself. *)

LoseHello(h) ==
  /\ h \in hello
  /\ hello' = hello \ {h}
  /\ UNCHANGED <<replies, dups, listening, peer, link, down, up, serverClosed>>

LoseReply(h) ==
  /\ replies[h] > 0
  /\ replies' = [replies EXCEPT ![h] = @ - 1]
  /\ UNCHANGED <<hello, dups, listening, peer, link, down, up, serverClosed>>

DuplicateReply(h) ==
  /\ replies[h] > 0
  /\ dups < MaxDup
  /\ dups' = dups + 1
  /\ replies' = [replies EXCEPT ![h] = @ + 1]
  /\ UNCHANGED <<hello, listening, peer, link, down, up, serverClosed>>

NetStep == \E h \in Hosts : LoseHello(h) \/ LoseReply(h) \/ DuplicateReply(h)

---------------------------------------------------------------------------
(* What the sockets do for the two programs. *)

(* select() reports connection i: recv() would not block. *)
Readable(i) == up[i] # {} \/ link[i] \in {"fin", "rst"}

(* Connections waiting in h's backlog, and the one accept() takes: the oldest. *)
Backlog(h)     == {i \in Slots : peer[i] = h /\ link[i] = "queued"}
IsOldest(i, h) == \A j \in Backlog(h) : i <= j

(* The process on h ends while it serves connection j (0: none): the kernel   *)
(* resets what waits in the backlog, resets j if it holds unread data and     *)
(* otherwise closes it in order.                                              *)
Served(j) == {i \in Slots : i = j /\ link[i] = "open"}

CloseSockets(h, j) ==
  LET reset == Backlog(h) \cup {i \in Served(j) : down[i] # {}}
  IN  /\ listening' = listening \ {h}
      /\ link' = [i \in Slots |-> IF i \in reset THEN "rst"
                                  ELSE IF i \in Served(j) THEN "fin" ELSE link[i]]
=============================================================================
