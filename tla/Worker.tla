------------------------------- MODULE Worker -------------------------------
(***************************************************************************)
(* src/task_8/tiazhelkov.ve/src/worker.c: the program of one machine.  It  *)
(* waits for one invitation on UDP, answers with its number of cores, only *)
(* then opens its TCP port, serves one connection and exits.               *)
(*                                                                         *)
(* wpc says which blocking call (or which step of main) the worker of a    *)
(* machine is at.  The sleeps of the program give other processes time to  *)
(* act, which any of them may do at any moment here, so they are no steps. *)
(***************************************************************************)
EXTENDS ClusterNet

VARIABLES
  wpc,   \* wpc[h]: where the worker of machine h is
  job,   \* job[h]: the connection it has accepted, 0 before
  todo   \* todo[h]: what it has read from it: a task, or nothing yet

workerVars == <<wpc, job, todo>>

WorkerPhase == {"off", "recvfrom", "sendto", "listen", "accept", "read",
                "compute", "write", "close", "exit", "crashed"}

Stopped(h) == wpc[h] \in {"exit", "crashed"}

(* "struct Task task = {}" is what sscanf leaves when read() gave 0 bytes. *)
ZeroTask == [from |-> 0, to |-> 0, points |-> 0]

(* square_of_one_square divides by the points of one of the Cores[h] threads: *)
(* (long long)(points / n_threads) is 0 when there are fewer points.          *)
NotANumber(h, t) == t.points < Cores[h]

WorkerTypeOK ==
  /\ wpc \in [Hosts -> WorkerPhase]
  /\ job \in [Hosts -> Slots \cup {0}]
  /\ todo \in [Hosts -> SUBSET Task]

WorkerInit ==
  /\ wpc = [h \in Hosts |-> "off"]
  /\ job = [h \in Hosts |-> 0]
  /\ todo = [h \in Hosts |-> {}]

---------------------------------------------------------------------------
Go(h, from, to) == wpc[h] = from /\ wpc' = [wpc EXCEPT ![h] = to]

(* main up to recvfrom(): UDP port 8123 is bound. *)
Start(h) ==
  /\ Go(h, "off", "recvfrom")
  /\ UNCHANGED <<job, todo, netVars>>

(* The invitation arrives; where it came from is where the reply will go. *)
RecvInvite(h) ==
  /\ Go(h, "recvfrom", "sendto")
  /\ h \in hello
  /\ hello' = hello \ {h}
  /\ UNCHANGED <<job, todo, replies, dups, listening, peer, link, down, up, serverClosed>>

(* The number of cores goes back, and both UDP sockets are closed. *)
SendCores(h) ==
  /\ Go(h, "sendto", "listen")
  /\ replies' = [replies EXCEPT ![h] = @ + 1]
  /\ UNCHANGED <<job, todo, hello, dups, listening, peer, link, down, up, serverClosed>>

(* socket, bind, listen: from here on connect() succeeds. *)
Listen(h) ==
  /\ Go(h, "listen", "accept")
  /\ listening' = listening \cup {h}
  /\ UNCHANGED <<job, todo, hello, replies, dups, peer, link, down, up, serverClosed>>

Accept(h) ==
  /\ Go(h, "accept", "read")
  /\ \E i \in Backlog(h) :
       /\ IsOldest(i, h)
       /\ job' = [job EXCEPT ![h] = i]
       /\ link' = [link EXCEPT ![i] = "open"]
  /\ UNCHANGED <<todo, hello, replies, dups, listening, peer, down, up, serverClosed>>

(* read() gives the task the server has sent... *)
ReadTask(h) ==
  /\ Go(h, "read", "compute")
  /\ down[job[h]] # {}
  /\ todo' = [todo EXCEPT ![h] = down[job[h]]]
  /\ down' = [down EXCEPT ![job[h]] = {}]
  /\ UNCHANGED <<job, hello, replies, dups, listening, peer, link, up, serverClosed>>

(* ... or 0 bytes, when the server has ended without sending any: the worker *)
(* goes on with a task of zeros.                                             *)
ReadNothing(h) ==
  /\ Go(h, "read", "compute")
  /\ down[job[h]] = {}
  /\ serverClosed
  /\ todo' = [todo EXCEPT ![h] = {ZeroTask}]
  /\ UNCHANGED <<job, netVars>>

(* monte_carlo(task, MAX_CORES), the whole of MonteCarlo.tla. *)
Compute(h) ==
  /\ Go(h, "compute", "write")
  /\ UNCHANGED <<job, todo, netVars>>

WriteAnswer(h) ==
  /\ Go(h, "write", "close")
  /\ up' = IF serverClosed THEN up ELSE [up EXCEPT ![job[h]] = todo[h]]
  /\ UNCHANGED <<job, todo, hello, replies, dups, listening, peer, link, down, serverClosed>>

(* Both sockets are closed and main returns after this one connection. *)
CloseAndExit(h) ==
  /\ Go(h, "close", "exit")
  /\ CloseSockets(h, job[h])
  /\ UNCHANGED <<job, todo, hello, replies, dups, peer, down, up, serverClosed>>

(* The process is killed, in whatever it does. *)
Crash(h) ==
  /\ h \in MayCrash
  /\ wpc[h] # "off" /\ ~Stopped(h)
  /\ wpc' = [wpc EXCEPT ![h] = "crashed"]
  /\ CloseSockets(h, job[h])
  /\ UNCHANGED <<job, todo, hello, replies, dups, peer, down, up, serverClosed>>

---------------------------------------------------------------------------
(* What the program does once it runs. *)
WorkerRuns(h) ==
  \/ RecvInvite(h) \/ SendCores(h) \/ Listen(h) \/ Accept(h)
  \/ ReadTask(h) \/ ReadNothing(h) \/ Compute(h) \/ WriteAnswer(h) \/ CloseAndExit(h)

WorkerStep == \E h \in Hosts : Start(h) \/ WorkerRuns(h) \/ Crash(h)
=============================================================================
