-------------------------- MODULE ClusterInvariant --------------------------
(***************************************************************************)
(* The inductive invariant behind the safety properties of the cluster.    *)
(*                                                                         *)
(* The thread through it: connection i carries one task down and one       *)
(* answer up.  At any moment that unit of work is in one place only - not  *)
(* yet sent, in the worker's buffer, in the hands of the one worker that   *)
(* accepted i, in the server's buffer, or in result[i] - and it is always  *)
(* the work of TaskFor(i), which is fixed before the first is sent.        *)
(***************************************************************************)
EXTENDS Cluster

Forming == {"invite", "bind", "collect", "split", "connect"}

(* The loop variables, the table and the socket state of every phase. *)
PhaseInv ==
  /\ serverClosed <=> spc \in {"done", "failed"}
  /\ gaveUp => spc = "done"
  /\ spc \in {"bind", "collect", "invite"} => k = 1 /\ total = 0
  /\ spc \in {"invite", "bind", "collect", "split"} => \A i \in Slots : link[i] = "none"
  /\ spc = "connect" => \A i \in Slots : i >= k => link[i] = "none"
  /\ spc \in Forming \cup {"send"} => responses = 0 /\ \A i \in Slots : result[i] = {}

(* An entry in use names a machine. *)
TableInv == \A i \in Used : workers[i] \in Hosts

(* The entries whose cores split_tasks has added up. *)
Added == CASE spc \in {"invite", "bind", "collect"} -> 0
           [] spc = "split"                         -> k - 1
           [] OTHER                                 -> num_of_workers

(* total is large enough for every strip and small enough for every point. *)
TotalInv ==
  /\ Added <= num_of_workers
  /\ \A i \in Slots : i <= Added => Cores[workers[i]] <= total
  /\ total <= Added * MaxCores
  /\ Added = 1 => total = Cores[workers[1]]

(* Connection i has not got its task yet. *)
Unsent(i) == spc \in Forming \/ (spc = "send" /\ k <= i)

(* A worker's connection is one made to it and not in the backlog any more. *)
JobInv ==
  \A h \in Hosts :
    /\ wpc[h] \in {"read", "compute", "write", "close"} => job[h] \in Slots
    /\ job[h] \in Slots => peer[job[h]] = h /\ link[job[h]] \notin {"none", "queued"}

(* The unit of work of a connection is in one place only. *)
OnePlaceInv ==
  /\ \A i \in Slots :
       /\ Unsent(i) => down[i] = {} /\ up[i] = {}
       /\ link[i] \in {"none", "queued"} => up[i] = {} /\ result[i] = {}
       /\ down[i] # {} => up[i] = {} /\ result[i] = {}
       /\ up[i] # {} => result[i] = {}
  /\ \A h \in Hosts : job[h] \in Slots =>
       /\ Unsent(job[h]) => wpc[h] \in {"read", "crashed"}
       /\ down[job[h]] # {} => wpc[h] \in {"read", "crashed"}
       /\ wpc[h] \in {"read", "compute", "write"} => up[job[h]] = {} /\ result[job[h]] = {}

(* Whatever is on its way over connection i is the work of entry i. *)
WorkInv ==
  /\ \A i \in Slots :
       /\ down[i] # {} => down[i] = {TaskFor(i)}
       /\ up[i] # {} => up[i] = {TaskFor(i)}
       /\ result[i] # {} => result[i] = {TaskFor(i)}
       /\ result[i] # {} => i <= num_of_workers
  /\ \A h \in Hosts : wpc[h] \in {"compute", "write"} =>
       serverClosed \/ todo[h] = {TaskFor(job[h])}

(* The inductive invariant: no step of the server, a worker or the network,  *)
(* from a state in which every unit of work is in one place, leaves it.      *)
IInv ==
  /\ TypeOK
  /\ PhaseInv
  /\ TableInv
  /\ TotalInv
  /\ JobInv
  /\ OnePlaceInv
  /\ WorkInv
  /\ EachAnswerCountedOnce
  /\ CompleteUnlessTimeout
=============================================================================
