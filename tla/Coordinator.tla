---------------------------- MODULE Coordinator ----------------------------
(***************************************************************************)
(* src/task_8/tiazhelkov.ve/src/server.c: the program that owns the work.  *)
(* It invites the workers by a UDP broadcast, collects their core counts   *)
(* for five seconds, cuts the task into one strip per core, connects to    *)
(* every worker of its table, sends each its part and gathers the answers  *)
(* with select().                                                          *)
(*                                                                         *)
(* The process is sequential: spc says which function it is in, and k is   *)
(* the variable i of that function's loop over the table (from 1 here).    *)
(* Time is not modelled: a window or a timeout may elapse at any moment at *)
(* which the code is waiting for it.                                       *)
(***************************************************************************)
EXTENDS ClusterNet

VARIABLES
  spc,             \* the function the server is in
  k,               \* its loop variable
  num_of_workers,  \* entries of the worker table in use
  workers,         \* workers[i]: the machine registered in entry i (ip, num_of_cores)
  total,           \* num_of_cores of split_tasks, the number of strips
  result,          \* result[i]: {} while the entry holds an uninitialised double
  readSet,         \* the fd_set of gather_results
  responses,       \* responsesReceived
  gaveUp           \* gather_results has left its loop by the timeout's break

serverVars == <<spc, k, num_of_workers, workers, total, result, readSet, responses, gaveUp>>

ServerPhase == {"invite", "bind", "collect", "split", "connect", "send",
                "select", "scan", "done", "failed"}

Running  == spc \notin {"done", "failed"}
Used     == 1 .. num_of_workers
Received == {i \in Slots : result[i] # {}}

ServerTypeOK ==
  /\ spc \in ServerPhase
  /\ k \in 1 .. MaxWorkers + 1
  /\ num_of_workers \in 0 .. MaxWorkers
  /\ workers \in [Slots -> Hosts \cup {NoHost}]
  /\ total \in Nat
  /\ result \in [Slots -> SUBSET Task]
  /\ readSet \subseteq Slots
  /\ responses \in 0 .. MaxWorkers
  /\ gaveUp \in BOOLEAN

(* newWorker of rcv_ip_from_workers is an uninitialised stack variable, so a *)
(* fresh entry's result is garbage: there is no answer in it.                *)
ServerInit ==
  /\ spc = "invite"
  /\ k = 1
  /\ num_of_workers = 0
  /\ workers = [i \in Slots |-> NoHost]
  /\ total = 0
  /\ result = [i \in Slots |-> {}]
  /\ readSet = {}
  /\ responses = 0
  /\ gaveUp = FALSE

---------------------------------------------------------------------------
(* A loop "for (i = 0; i < num_of_workers; ++i)" is in phase p at entry k, or *)
(* has come to its end and goes on with phase q.                              *)
LoopBody(p) == spc = p /\ k <= num_of_workers
LoopNext    == k' = k + 1 /\ spc' = spc
LoopEnd(p, q) ==
  /\ spc = p
  /\ k > num_of_workers
  /\ spc' = q
  /\ k' = 1

(* send_invite_to_workers: one broadcast, to every machine of the subnet. *)
SendInvite ==
  /\ spc = "invite"
  /\ hello' = Hosts
  /\ spc' = "bind"
  /\ UNCHANGED <<k, num_of_workers, workers, total, result, readSet, responses, gaveUp,
                 replies, dups, listening, peer, link, down, up, serverClosed>>

(* rcv_ip_from_workers, up to its loop: the port is bound only now, after    *)
(* the broadcast.                                                            *)
BindReceiveSocket ==
  /\ spc = "bind"
  /\ spc' = "collect"
  /\ UNCHANGED <<k, num_of_workers, workers, total, result, readSet, responses, gaveUp, netVars>>

(* A mutant of ReceiveReply: the last entry of a full table is overwritten.   *)
ReceiveReply_Overwrites(h) ==
  /\ spc = "collect"
  /\ replies[h] > 0
  /\ replies' = [replies EXCEPT ![h] = @ - 1]
  /\ num_of_workers' = IF num_of_workers < MaxWorkers THEN num_of_workers + 1 ELSE MaxWorkers
  /\ workers' = [workers EXCEPT ![num_of_workers'] = h]
  /\ UNCHANGED <<spc, k, total, result, readSet, responses, gaveUp,
                 hello, dups, listening, peer, link, down, up, serverClosed>>

(* One datagram: its sender becomes a new entry, unless the table is full.   *)
(* Nothing tells a second copy of a datagram from the first.                 *)
ReceiveReply(h) ==
  /\ spc = "collect"
  /\ replies[h] > 0
  /\ replies' = [replies EXCEPT ![h] = @ - 1]
  /\ IF num_of_workers < MaxWorkers
     THEN /\ num_of_workers' = num_of_workers + 1
          /\ workers' = [workers EXCEPT ![num_of_workers + 1] = h]
     ELSE UNCHANGED <<num_of_workers, workers>>
  /\ UNCHANGED <<spc, k, total, result, readSet, responses, gaveUp,
                 hello, dups, listening, peer, link, down, up, serverClosed>>

(* Five seconds have elapsed. *)
WindowCloses ==
  /\ spc = "collect"
  /\ spc' = "split"
  /\ UNCHANGED <<k, num_of_workers, workers, total, result, readSet, responses, gaveUp, netVars>>

(* A mutant of AddCores: "=" where the code has "+=". *)
AddCores_Overwrites ==
  /\ LoopBody("split")
  /\ total' = Cores[workers[k]]
  /\ LoopNext
  /\ UNCHANGED <<num_of_workers, workers, result, readSet, responses, gaveUp, netVars>>

(* split_tasks: the strips are as many as the announced cores. *)
AddCores ==
  /\ LoopBody("split")
  /\ total' = total + Cores[workers[k]]
  /\ LoopNext
  /\ UNCHANGED <<num_of_workers, workers, result, readSet, responses, gaveUp, netVars>>

SplitDone ==
  /\ LoopEnd("split", "connect")
  /\ UNCHANGED <<num_of_workers, workers, total, result, readSet, responses, gaveUp, netVars>>

(* establish_connections: connect() to entry k; a refused connection ends    *)
(* the server, and with it all its sockets.                                  *)
ConnectOK ==
  /\ LoopBody("connect")
  /\ workers[k] \in listening
  /\ peer' = [peer EXCEPT ![k] = workers[k]]
  /\ link' = [link EXCEPT ![k] = "queued"]
  /\ LoopNext
  /\ UNCHANGED <<num_of_workers, workers, total, result, readSet, responses, gaveUp,
                 hello, replies, dups, listening, down, up, serverClosed>>

(* A mutant of ConnectFails: the server stops, but keeps its sockets open. *)
ConnectFails_Leaks ==
  /\ LoopBody("connect")
  /\ workers[k] \notin listening
  /\ spc' = "failed"
  /\ UNCHANGED <<k, num_of_workers, workers, total, result, readSet, responses, gaveUp, netVars>>

ConnectFails ==
  /\ LoopBody("connect")
  /\ workers[k] \notin listening
  /\ spc' = "failed"
  /\ serverClosed' = TRUE
  /\ UNCHANGED <<k, num_of_workers, workers, total, result, readSet, responses, gaveUp,
                 hello, replies, dups, listening, peer, link, down, up>>

(* A mutant of ConnectDone: the loop may leave out the last entry. *)
ConnectDone_OffByOne ==
  /\ spc = "connect" /\ k >= num_of_workers
  /\ spc' = "send" /\ k' = 1
  /\ UNCHANGED <<num_of_workers, workers, total, result, readSet, responses, gaveUp, netVars>>

ConnectDone ==
  /\ LoopEnd("connect", "send")
  /\ UNCHANGED <<num_of_workers, workers, total, result, readSet, responses, gaveUp, netVars>>

(* A mutant of FirstStrip: counted from 1. *)
FirstStrip_FromOne(i) == i

(* send_task.  FirstStrip is its task_number, which no statement advances.   *)
FirstStrip(i) == 0

(* A mutant of TaskFor: the points of one strip for all of a worker's strips. *)
TaskFor_OneShare(i) ==
  [from   |-> FirstStrip(i),
   to     |-> FirstStrip(i) + Cores[workers[i]],
   points |-> MainPoints \div total]

TaskFor(i) ==
  LET cores == Cores[workers[i]]
  IN  [from   |-> FirstStrip(i),
       to     |-> FirstStrip(i) + cores,
       points |-> (MainPoints \div total) * cores]

(* write() to connection k.  A worker that is gone does not get the task: if *)
(* the connection was reset, write() reports that and recv() will see the end *)
(* of the stream.                                                            *)
SendTask ==
  /\ LoopBody("send")
  /\ \/ /\ link[k] \in {"queued", "open"}
        /\ down' = [down EXCEPT ![k] = {TaskFor(k)}]
        /\ UNCHANGED link
     \/ /\ link[k] = "rst"
        /\ link' = [link EXCEPT ![k] = "fin"]
        /\ UNCHANGED down
     \/ /\ link[k] \in {"none", "fin"}
        /\ UNCHANGED <<down, link>>
  /\ LoopNext
  /\ UNCHANGED <<num_of_workers, workers, total, result, readSet, responses, gaveUp,
                 hello, replies, dups, listening, peer, up, serverClosed>>

(* The end of send_task and the start of gather_results: every socket is put *)
(* into the set once, before the loop.                                       *)
SendDone ==
  /\ LoopEnd("send", "select")
  /\ readSet' = Used
  /\ responses' = 0
  /\ UNCHANGED <<num_of_workers, workers, total, result, gaveUp, netVars>>

---------------------------------------------------------------------------
(* gather_results *)

(* select() returns: it leaves only the ready sockets in the set. *)
Select ==
  /\ spc = "select"
  /\ responses < num_of_workers
  /\ \E i \in readSet : Readable(i)
  /\ readSet' = {i \in readSet : Readable(i)}
  /\ spc' = "scan"
  /\ k' = 1
  /\ UNCHANGED <<num_of_workers, workers, total, result, responses, gaveUp, netVars>>

(* select() returns 0 after five seconds without a ready socket in the set.  *)
(* The loop is left, the garbage and the answers are added up, main returns. *)
Timeout ==
  /\ spc = "select"
  /\ responses < num_of_workers
  /\ \A i \in readSet : ~Readable(i)
  /\ gaveUp' = TRUE
  /\ spc' = "done"
  /\ serverClosed' = TRUE
  /\ UNCHANGED <<k, num_of_workers, workers, total, result, readSet, responses,
                 hello, replies, dups, listening, peer, link, down, up>>

(* The loop's condition fails: the answers are added up, main returns. *)
GatherDone ==
  /\ spc = "select"
  /\ responses >= num_of_workers
  /\ spc' = "done"
  /\ serverClosed' = TRUE
  /\ UNCHANGED <<k, num_of_workers, workers, total, result, readSet, responses, gaveUp,
                 hello, replies, dups, listening, peer, link, down, up>>

(* A mutant of RecvAnswer: answers are packed in the order they arrive. *)
RecvAnswer_Packed ==
  /\ LoopBody("scan")
  /\ k \in readSet
  /\ up[k] # {}
  /\ result' = [result EXCEPT ![responses + 1] = up[k]]
  /\ responses' = responses + 1
  /\ readSet' = readSet \ {k}
  /\ up' = [up EXCEPT ![k] = {}]
  /\ LoopNext
  /\ UNCHANGED <<num_of_workers, workers, total, gaveUp,
                 hello, replies, dups, listening, peer, link, down, serverClosed>>

(* recv() gives a double: it is stored and the socket leaves the set. *)
RecvAnswer ==
  /\ LoopBody("scan")
  /\ k \in readSet
  /\ up[k] # {}
  /\ result' = [result EXCEPT ![k] = up[k]]
  /\ responses' = responses + 1
  /\ readSet' = readSet \ {k}
  /\ up' = [up EXCEPT ![k] = {}]
  /\ LoopNext
  /\ UNCHANGED <<num_of_workers, workers, total, gaveUp,
                 hello, replies, dups, listening, peer, link, down, serverClosed>>

(* A mutant of RecvClosed: the socket stays in the set. *)
RecvClosed_NotCleared ==
  /\ LoopBody("scan")
  /\ k \in readSet
  /\ up[k] = {}
  /\ link[k] = "fin"
  /\ LoopNext
  /\ UNCHANGED <<num_of_workers, workers, total, result, readSet, responses, gaveUp, netVars>>

(* recv() gives 0, the end of the stream: the socket leaves the set, uncounted. *)
RecvClosed ==
  /\ LoopBody("scan")
  /\ k \in readSet
  /\ up[k] = {}
  /\ link[k] = "fin"
  /\ readSet' = readSet \ {k}
  /\ LoopNext
  /\ UNCHANGED <<num_of_workers, workers, total, result, responses, gaveUp, netVars>>

(* recv() fails with a reset: the socket stays in the set; the next recv() *)
(* on it gives 0.                                                          *)
RecvError ==
  /\ LoopBody("scan")
  /\ k \in readSet
  /\ up[k] = {}
  /\ link[k] = "rst"
  /\ link' = [link EXCEPT ![k] = "fin"]
  /\ LoopNext
  /\ UNCHANGED <<num_of_workers, workers, total, result, readSet, responses, gaveUp,
                 hello, replies, dups, listening, peer, down, up, serverClosed>>

SkipUnset ==
  /\ LoopBody("scan")
  /\ k \notin readSet
  /\ LoopNext
  /\ UNCHANGED <<num_of_workers, workers, total, result, readSet, responses, gaveUp, netVars>>

ScanDone ==
  /\ LoopEnd("scan", "select")
  /\ UNCHANGED <<num_of_workers, workers, total, result, readSet, responses, gaveUp, netVars>>

---------------------------------------------------------------------------
ServerStep ==
  \/ SendInvite \/ BindReceiveSocket
  \/ \E h \in Hosts : ReceiveReply(h)
  \/ WindowCloses
  \/ AddCores \/ SplitDone
  \/ ConnectOK \/ ConnectFails \/ ConnectDone
  \/ SendTask \/ SendDone
  \/ Select \/ Timeout \/ GatherDone
  \/ RecvAnswer \/ RecvClosed \/ RecvError \/ SkipUnset \/ ScanDone
=============================================================================
