------------------------------ MODULE Cluster ------------------------------
(***************************************************************************)
(* The whole of task_8: one server, its workers and the network, and what  *)
(* a run of them may and may not do.                                       *)
(***************************************************************************)
EXTENDS Coordinator, Worker

vars == <<netVars, serverVars, workerVars>>

Init == NetInit /\ ServerInit /\ WorkerInit

Next ==
  \/ ServerStep /\ UNCHANGED workerVars
  \/ WorkerStep /\ UNCHANGED serverVars
  \/ NetStep /\ UNCHANGED <<serverVars, workerVars>>

(* The operating system schedules the server and every started worker; the   *)
(* five-second limits of both loops of the server do elapse.  Nothing obliges *)
(* anybody to start a worker, or the network to deliver, lose or duplicate.   *)
Fairness ==
  /\ WF_vars(ServerStep /\ UNCHANGED workerVars)
  /\ \A h \in Hosts : WF_vars(WorkerRuns(h) /\ UNCHANGED serverVars)

Spec == Init /\ [][Next]_vars /\ Fairness

---------------------------------------------------------------------------
TypeOK == NetTypeOK /\ ServerTypeOK /\ WorkerTypeOK

(* Every answer received is the integral of the very part that was sent over  *)
(* that connection, although connections, table entries and machines are only *)
(* tied together by the order of accept().  Unless the loop of gather_results *)
(* was left by the timeout, all that it then adds up (server.c:304-306) are   *)
(* such answers.  After a timeout it also adds the results of the entries     *)
(* that have not answered, which were never written.                          *)
AnswerIntegrity ==
  /\ \A i \in Received : i \in Used /\ result[i] = {TaskFor(i)}
  /\ spc = "done" /\ ~gaveUp => \A i \in Used : result[i] = {TaskFor(i)}

(* An answer is counted once: responsesReceived is the number of entries that *)
(* hold an answer, whatever order, repetition or failure recv() reports.      *)
EachAnswerCountedOnce == responses = Cardinality(Received)

(* If the loop of gather_results ends by its own condition and not by the     *)
(* timeout, every worker of the table has answered (server.c:302).            *)
CompleteUnlessTimeout == spc = "done" /\ ~gaveUp => Received = Used

(* No answer that is added up is 0.0/0.0: a worker that read end-of-file      *)
(* instead of a task computes one, but never for a server that still adds.    *)
NoNaNSummed == \A i \in Received : \A t \in result[i] : ~NotANumber(workers[i], t)

(* send_task reads tasks[task_number + cores - 1] inside the array that       *)
(* split_tasks allocated, and the points it hands out were there to be given. *)
StripsWithinTask ==
  spc = "send" => \A i \in Used :
    /\ 0 < TaskFor(i).to /\ TaskFor(i).to <= total
    /\ TaskFor(i).points <= MainPoints

(* With one worker the strip arithmetic is right: a run that does not time    *)
(* out returns the integral over the whole range.                             *)
OneWorkerIsRight ==
  spc = "done" /\ ~gaveUp /\ num_of_workers = 1 =>
    \A t \in result[1] : t.from = 0 /\ t.to = total

TableKept ==
  /\ \A i \in Used : i <= num_of_workers' /\ workers'[i] = workers[i]
  /\ \A i \in Received : result'[i] = result[i]

(* The table only grows, and an answer that is in it stays: no late reply,    *)
(* second copy or reset overwrites either.                                    *)
TableOnlyGrows == [][TableKept]_vars

---------------------------------------------------------------------------
(* A worker with a connection ends too: either the task comes or the server   *)
(* goes away.                                                                 *)
ServedWorkerEnds == \A h \in Hosts : wpc[h] = "read" ~> Stopped(h)

(* When the server has returned from main, no worker it had registered is     *)
(* left waiting in accept() for ever.                                         *)
NoWorkerLeftBehind ==
  \A h \in Hosts : (spc = "done" /\ \E i \in Used : workers[i] = h) ~> Stopped(h)

---------------------------------------------------------------------------
(* The cluster as one round of ScatterGather: forming until every worker of   *)
(* the table is connected, and ended the way gather_results has left its loop. *)
RoundPhase ==
  CASE spc \in {"invite", "bind", "collect", "split", "connect"} -> "forming"
    [] spc \in {"send", "select", "scan"}                         -> "gathering"
    [] spc = "failed"                                             -> "aborted"
    [] spc = "done"                         -> IF gaveUp THEN "partial" ELSE "complete"

Round == INSTANCE ScatterGather WITH
           Capacity <- MaxWorkers, phase <- RoundPhase, members <- Used, collected <- Received

(* The detailed cluster implements the round: joins, answers and ends come in *)
(* the round's order, a partial end really misses an answer (server.c:274-277 *)
(* against 302), and the round ends whatever is lost, crashes or comes twice. *)
RoundImplemented == Round!SGSpec

(* Its safety part, every step of the cluster a step of the round or none. *)
RoundSteps == Round!SGSafety

---------------------------------------------------------------------------
(* What the assignment and comments say, the code does not do.                *)

(* server.c:275 reports "No additional responses received": when the loop is  *)
(* left by the timeout, no registered worker's answer is waiting in a socket. *)
TimeoutMeansSilence == gaveUp => \A i \in Used : up[i] = {}
=============================================================================
