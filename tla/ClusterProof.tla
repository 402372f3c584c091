---------------------------- MODULE ClusterProof -----------------------------
(*****************************************************************************)
(* What holds of the cluster of task_8 for every value of its constants: the *)
(* safety properties of Cluster, and that the cluster implements the round   *)
(* of ScatterGather. Everything rests on the inductive invariant.            *)
(*****************************************************************************)
EXTENDS ClusterInvariant, FiniteSetTheorems, TLAPS

(* The entries of the worker table that hold an answer (workers[i].result)    *)
(* are finitely many, at most MAX_WORKERS.                                    *)
LEMMA ReceivedFinite ==
  ASSUME ServerTypeOK
  PROVE  /\ Received \subseteq Slots
         /\ IsFiniteSet(Received)
         /\ Cardinality(Received) \in 0 .. MaxWorkers
<1>1. IsFiniteSet(Slots) /\ Cardinality(Slots) = MaxWorkers
  BY FS_Interval, ClusterAssumption DEF Slots
<1>2. Received \subseteq Slots
  BY DEF Received
<1> QED
  BY <1>1, <1>2, FS_Subset, FS_CardinalityType, ClusterAssumption

(* If entry i has no answer yet, an answer in it makes one more, and          *)
(* responsesReceived still does not exceed the table.                         *)
LEMMA OneMoreAnswer ==
  ASSUME ServerTypeOK, EachAnswerCountedOnce,
         NEW i \in Slots, result[i] = {}
  PROVE  /\ responses + 1 <= MaxWorkers
         /\ Cardinality(Received \cup {i}) = responses + 1
<1>1. IsFiniteSet(Slots) /\ Cardinality(Slots) = MaxWorkers
  BY FS_Interval, ClusterAssumption DEF Slots
<1>2. Received \cup {i} \subseteq Slots /\ i \notin Received
  BY DEF Received
<1>3. Cardinality(Received \cup {i}) = responses + 1
  BY <1>2, ReceivedFinite, FS_AddElement DEF EachAnswerCountedOnce
<1>4. Cardinality(Received \cup {i}) <= Cardinality(Slots)
  BY <1>1, <1>2, FS_Subset
<1> QED
  BY <1>1, <1>3, <1>4

(* Once split_tasks has gone through the table, what send_task composes for   *)
(* an entry in use is a task: it divides by a number of cores that is not     *)
(* zero.                                                                      *)
LEMMA TaskForType ==
  ASSUME ServerTypeOK, TableInv, TotalInv, Added = num_of_workers,
         NEW i \in Used
  PROVE  TaskFor(i) \in Task
<1>1. i \in Slots /\ workers[i] \in Hosts
  BY ClusterAssumption DEF ServerTypeOK, TableInv, Used, Slots
<1>2. Cores[workers[i]] \in 1 .. MaxCores
  BY <1>1, ClusterAssumption
<1>3. total \in Nat \ {0}
  BY <1>1, <1>2, ClusterAssumption DEF TotalInv, ServerTypeOK, Used
<1>4. MainPoints \div total \in Nat
  BY <1>3, ClusterAssumption
<1>5. (MainPoints \div total) * Cores[workers[i]] \in Nat
  BY <1>2, <1>4, ClusterAssumption
<1> QED
  BY <1>2, <1>5, ClusterAssumption DEF TaskFor, FirstStrip, Task

(* Types: losing and duplicating datagrams keep the types of every variable.  *)
LEMMA NetType ==
  ASSUME TypeOK, NetStep, UNCHANGED <<serverVars, workerVars>>
  PROVE  TypeOK'
<1>1. ServerTypeOK' /\ WorkerTypeOK'
  BY DEF TypeOK, ServerTypeOK, WorkerTypeOK, serverVars, workerVars
<1>2. PICK h \in Hosts : LoseHello(h) \/ LoseReply(h) \/ DuplicateReply(h)
  BY DEF NetStep
<1>3. CASE LoseHello(h)
  BY <1>1, <1>3 DEF LoseHello, TypeOK, NetTypeOK
<1>4. CASE LoseReply(h)
  BY <1>1, <1>4 DEF LoseReply, TypeOK, NetTypeOK
<1>5. CASE DuplicateReply(h)
  BY <1>1, <1>5, ClusterAssumption DEF DuplicateReply, TypeOK, NetTypeOK
<1> QED
  BY <1>2, <1>3, <1>4, <1>5

(* Types: every step of worker.c keeps them, given that a worker that reads   *)
(* or writes has an accepted connection.                                      *)
LEMMA WorkerType ==
  ASSUME TypeOK, JobInv, WorkerStep, UNCHANGED serverVars
  PROVE  TypeOK'
<1> USE ClusterAssumption DEF TypeOK, NetTypeOK, WorkerTypeOK, netVars, Slots
<1>0. ServerTypeOK'
  BY DEF ServerTypeOK, serverVars
<1>1. PICK h \in Hosts : Start(h) \/ WorkerRuns(h) \/ Crash(h)
  BY DEF WorkerStep
<1>2. CASE Start(h) \/ RecvInvite(h)
  BY <1>0, <1>2 DEF Start, RecvInvite, Go, WorkerPhase
<1>3. CASE SendCores(h)
  BY <1>0, <1>3 DEF SendCores, Go, WorkerPhase
<1>3a. CASE Listen(h)
  BY <1>0, <1>3a DEF Listen, Go, WorkerPhase
<1>3b. CASE Compute(h)
  BY <1>0, <1>3b DEF Compute, Go, WorkerPhase
<1>4. CASE Accept(h)
  BY <1>0, <1>4 DEF Accept, Backlog, LinkState, Go, WorkerPhase
<1>5. CASE ReadTask(h)
  BY <1>0, <1>5 DEF ReadTask, Go, JobInv, WorkerPhase
<1>5a. CASE ReadNothing(h) 
  BY <1>0, <1>5a DEF ReadNothing, Go, ZeroTask, Task, WorkerPhase
<1>6. CASE WriteAnswer(h)
  BY <1>0, <1>6 DEF WriteAnswer, Go, JobInv, WorkerPhase
<1>7. CASE CloseAndExit(h) \/ Crash(h)
  BY <1>0, <1>7 DEF CloseAndExit, Crash, CloseSockets, LinkState, Go, WorkerPhase
<1> QED
  BY <1>1, <1>2, <1>3, <1>3a, <1>3b, <1>4, <1>5, <1>5a, <1>6, <1>7 DEF WorkerRuns

(* Types: every step of server.c keeps them; responsesReceived stays within   *)
(* the table because no entry is answered twice.                              *)
LEMMA ServerType ==
  ASSUME TypeOK, TableInv, TotalInv, OnePlaceInv, EachAnswerCountedOnce,
         ServerStep, UNCHANGED workerVars
  PROVE  TypeOK'
<1> USE DEF TypeOK, NetTypeOK, ServerTypeOK, ServerPhase, netVars
<1>0. WorkerTypeOK'
  BY DEF WorkerTypeOK, workerVars
<1>k. /\ k <= num_of_workers => k \in Slots /\ k \in Used /\ k + 1 \in 1 .. MaxWorkers + 1
      /\ 1 \in 1 .. MaxWorkers + 1
      /\ Used \subseteq Slots
  BY ClusterAssumption DEF Slots, Used
<1>1. CASE SendInvite
  BY <1>0, <1>1 DEF SendInvite
<1>2. CASE BindReceiveSocket
  BY <1>0, <1>2 DEF BindReceiveSocket
<1>3. ASSUME NEW h \in Hosts, ReceiveReply(h) PROVE TypeOK'
  <2>1. NetTypeOK'
    BY <1>3 DEF ReceiveReply
  <2>2. num_of_workers' \in 0 .. MaxWorkers /\ workers' \in [Slots -> Hosts \cup {NoHost}]
    BY <1>3, ClusterAssumption DEF ReceiveReply
  <2> QED
    BY <1>0, <1>3, <2>1, <2>2 DEF ReceiveReply
<1>4. CASE WindowCloses
  BY <1>0, <1>4 DEF WindowCloses
<1>5. CASE AddCores
  BY <1>0, <1>k, <1>5, ClusterAssumption DEF AddCores, LoopBody, LoopNext, TableInv
<1>6. CASE SplitDone
  BY <1>0, <1>k, <1>6 DEF SplitDone, LoopEnd
<1>7. CASE ConnectOK
  BY <1>0, <1>k, <1>7 DEF ConnectOK, LoopBody, LoopNext, LinkState
<1>8. CASE ConnectFails
  BY <1>0, <1>8 DEF ConnectFails
<1>9. CASE ConnectDone
  BY <1>0, <1>k, <1>9 DEF ConnectDone, LoopEnd
<1>10. CASE SendTask
  <2>1. spc = "send" /\ k \in Used
    BY <1>k, <1>10 DEF SendTask, LoopBody
  <2>2. TaskFor(k) \in Task
    BY <2>1, TaskForType DEF Added
  <2> QED
    BY <1>0, <1>k, <1>10, <2>1, <2>2 DEF SendTask, LoopBody, LoopNext, LinkState
<1>11. CASE SendDone
  BY <1>0, <1>k, <1>11, ClusterAssumption DEF SendDone, LoopEnd
<1>12. CASE Select
  BY <1>0, <1>k, <1>12 DEF Select
<1>13. CASE Timeout
  BY <1>0, <1>13 DEF Timeout
<1>14. CASE GatherDone
  BY <1>0, <1>14 DEF GatherDone
<1>15. CASE RecvAnswer
  <2>1. k \in Slots /\ result[k] = {}
    BY <1>k, <1>15 DEF RecvAnswer, LoopBody, OnePlaceInv
  <2>2. responses + 1 <= MaxWorkers
    BY <2>1, OneMoreAnswer
  <2> QED
    BY <1>0, <1>k, <1>15, <2>1, <2>2, ClusterAssumption DEF RecvAnswer, LoopBody, LoopNext
<1>16. CASE RecvClosed
  BY <1>0, <1>k, <1>16 DEF RecvClosed, LoopBody, LoopNext
<1>17. CASE RecvError
  BY <1>0, <1>k, <1>17 DEF RecvError, LoopBody, LoopNext, LinkState
<1>18. CASE SkipUnset
  BY <1>0, <1>k, <1>18 DEF SkipUnset, LoopBody, LoopNext
<1>19. CASE ScanDone
  BY <1>0, <1>k, <1>19 DEF ScanDone, LoopEnd
<1> QED
  BY <1>1, <1>2, <1>3, <1>4, <1>5, <1>6, <1>7, <1>8, <1>9, <1>10, <1>11, <1>12, <1>13, <1>14, <1>15,
     <1>16, <1>17, <1>18, <1>19 DEF ServerStep

(* What the server can rely on between its own steps: workers and network     *)
(* leave its variables alone, and do not touch a connection it has not made.  *)
LEMMA OthersFrame ==
  ASSUME TypeOK, \/ WorkerStep /\ UNCHANGED serverVars
                 \/ NetStep /\ UNCHANGED <<serverVars, workerVars>>
  PROVE  /\ UNCHANGED <<serverVars, serverClosed, peer>>
         /\ \A i \in Slots : link[i] = "none" => link'[i] = "none"
<1>1. CASE NetStep /\ UNCHANGED <<serverVars, workerVars>>
  BY <1>1 DEF NetStep, LoseHello, LoseReply, DuplicateReply
<1>2. CASE WorkerStep /\ UNCHANGED serverVars
  <2>1. PICK h \in Hosts : Start(h) \/ WorkerRuns(h) \/ Crash(h)
    BY <1>2 DEF WorkerStep
  <2>2. CASE Accept(h)
    BY <1>2, <2>2 DEF Accept, Backlog, TypeOK, NetTypeOK
  <2>3. CASE CloseAndExit(h) \/ Crash(h)
    BY <1>2, <2>3 DEF CloseAndExit, Crash, CloseSockets, Backlog, Served
  <2>4. CASE Start(h) \/ RecvInvite(h) \/ SendCores(h) \/ Listen(h)
    BY <1>2, <2>4 DEF Start, RecvInvite, SendCores, Listen, netVars
  <2>5. CASE ReadTask(h) \/ ReadNothing(h) \/ Compute(h) \/ WriteAnswer(h)
    BY <1>2, <2>5 DEF ReadTask, ReadNothing, Compute, WriteAnswer, netVars
  <2> QED
    BY <2>1, <2>2, <2>3, <2>4, <2>5 DEF WorkerRuns
<1> QED
  BY <1>1, <1>2

(* The phases of main in server.c: every step keeps what is known of the loop *)
(* variable, the sockets and the results in each phase.                       *)
LEMMA PhaseStep ==
  ASSUME TypeOK, PhaseInv, [Next]_vars
  PROVE  PhaseInv'
<1> USE DEF PhaseInv, Forming
<1>0. CASE UNCHANGED vars
  BY <1>0 DEF vars, netVars, serverVars
<1>1. CASE \/ WorkerStep /\ UNCHANGED serverVars
           \/ NetStep /\ UNCHANGED <<serverVars, workerVars>>
  BY <1>1, OthersFrame DEF serverVars
<1>2. CASE ServerStep /\ UNCHANGED workerVars
  <2>1. CASE SendInvite
    BY <2>1 DEF SendInvite
  <2>2. CASE BindReceiveSocket
    BY <2>2 DEF BindReceiveSocket, netVars
  <2>3. ASSUME NEW h \in Hosts, ReceiveReply(h) PROVE PhaseInv'
    BY <2>3 DEF ReceiveReply
  <2>4. CASE WindowCloses
    BY <2>4 DEF WindowCloses, netVars
  <2>5. CASE AddCores
    BY <2>5 DEF AddCores, LoopBody, LoopNext, netVars
  <2>6. CASE SplitDone
    BY <2>6 DEF SplitDone, LoopEnd, netVars
  <2>7. CASE ConnectOK
    BY <2>7 DEF ConnectOK, LoopBody, LoopNext, Slots, TypeOK, NetTypeOK, ServerTypeOK
  <2>8. CASE ConnectFails
    BY <2>8 DEF ConnectFails, LoopBody
  <2>9. CASE ConnectDone
    BY <2>9 DEF ConnectDone, LoopEnd, netVars
  <2>10. CASE SendTask
    BY <2>10 DEF SendTask, LoopBody, LoopNext
  <2>11. CASE SendDone
    BY <2>11 DEF SendDone, LoopEnd, netVars
  <2>12. CASE Select
    BY <2>12 DEF Select, netVars
  <2>13. CASE Timeout
    BY <2>13 DEF Timeout
  <2>14. CASE GatherDone
    BY <2>14 DEF GatherDone
  <2>15. CASE RecvAnswer
    BY <2>15 DEF RecvAnswer, LoopBody, LoopNext
  <2>16. CASE RecvClosed
    BY <2>16 DEF RecvClosed, LoopBody, LoopNext, netVars
  <2>17. CASE RecvError
    BY <2>17 DEF RecvError, LoopBody, LoopNext
  <2>18. CASE SkipUnset
    BY <2>18 DEF SkipUnset, LoopBody, LoopNext, netVars
  <2>19. CASE ScanDone
    BY <2>19 DEF ScanDone, LoopEnd, netVars
  <2> QED
    BY <1>2, <2>1, <2>2, <2>3, <2>4, <2>5, <2>6, <2>7, <2>8, <2>9, <2>10, <2>11, <2>12, <2>13,
       <2>14, <2>15, <2>16, <2>17, <2>18, <2>19 DEF ServerStep
<1> HIDE DEF PhaseInv, Forming
<1> QED
  BY <1>0, <1>1, <1>2 DEF Next

(* Only rcv_ip_from_workers writes the table.                                 *)
LEMMA TableFrame ==
  ASSUME [Next]_vars
  PROVE  (\E h \in Hosts : ReceiveReply(h)) \/ UNCHANGED <<num_of_workers, workers>>
  BY DEF vars, serverVars, Next, ServerStep, 
     SendInvite, BindReceiveSocket, WindowCloses,
     AddCores, SplitDone, ConnectOK, ConnectFails, ConnectDone, SendTask, SendDone, Select, Timeout,
     GatherDone, RecvAnswer, RecvClosed, RecvError, SkipUnset, ScanDone

(* Every step keeps the entries in use naming a machine.                      *)
LEMMA TableStep ==
  ASSUME TypeOK, TableInv, [Next]_vars
  PROVE  TableInv'
<1>1. ASSUME NEW h \in Hosts, ReceiveReply(h) PROVE TableInv'
  BY <1>1, ClusterAssumption DEF ReceiveReply, TableInv, Used, TypeOK, ServerTypeOK, Slots
<1>2. CASE UNCHANGED <<num_of_workers, workers>>
  BY <1>2 DEF TableInv, Used
<1> QED
  BY <1>1, <1>2, TableFrame

(* The strips are counted in split_tasks and never again.                     *)
LEMMA TotalFrame ==
  ASSUME PhaseInv, [Next]_vars, spc # "split", spc' # "split",
         ~ \E h \in Hosts : ReceiveReply(h)
  PROVE  UNCHANGED <<Added, total, num_of_workers, workers>>
<1>0. CASE UNCHANGED vars
  BY <1>0 DEF vars, serverVars, Added
<1>1. CASE UNCHANGED serverVars
  BY <1>1 DEF serverVars, Added
<1>2. CASE ServerStep
  <2> USE DEF Added
  <2>1. CASE SendInvite \/ BindReceiveSocket \/ WindowCloses \/ AddCores \/ SplitDone
    BY <2>1 DEF SendInvite, BindReceiveSocket, WindowCloses, AddCores, SplitDone, LoopBody, LoopEnd
  <2>2. CASE ConnectOK \/ ConnectFails \/ ConnectDone \/ SendTask \/ SendDone
    BY <2>2 DEF ConnectOK, ConnectFails, ConnectDone, SendTask, SendDone, LoopBody, LoopNext, LoopEnd
  <2>3. CASE Select \/ Timeout \/ GatherDone
    BY <2>3 DEF Select, Timeout, GatherDone
  <2>4. CASE RecvAnswer \/ RecvClosed \/ RecvError \/ SkipUnset \/ ScanDone
    BY <2>4 DEF RecvAnswer, RecvClosed, RecvError, SkipUnset, ScanDone, LoopBody, LoopNext, LoopEnd
  <2> QED
    BY <1>2, <2>1, <2>2, <2>3, <2>4 DEF ServerStep
<1> QED
  BY <1>0, <1>1, <1>2 DEF Next

(* Every step keeps the bounds of num_of_cores in split_tasks: no less than   *)
(* any announced number of cores, and at most MAX_CORES for every entry       *)
(* added.                                                                     *)
LEMMA TotalStep ==
  ASSUME TypeOK, PhaseInv, TableInv, TotalInv, [Next]_vars
  PROVE  TotalInv'
<1> USE ClusterAssumption
<1>1. ASSUME NEW h \in Hosts, ReceiveReply(h) PROVE TotalInv'
  BY <1>1 DEF ReceiveReply, TotalInv, PhaseInv, Added, TypeOK, ServerTypeOK, Slots
<1>2. CASE spc # "split" /\ spc' # "split" /\ ~ \E h \in Hosts : ReceiveReply(h)
  BY <1>2, TotalFrame DEF TotalInv
<1>3. CASE UNCHANGED serverVars
  BY <1>3 DEF serverVars, TotalInv, Added
<1>4. CASE WindowCloses
  BY <1>4 DEF WindowCloses, TotalInv, PhaseInv, Added, TypeOK, ServerTypeOK, Slots
<1>5. CASE AddCores
  <2>1. k \in Slots /\ k \in Used /\ Cores[workers[k]] \in 1 .. MaxCores
    BY <1>5 DEF AddCores, LoopBody, TableInv, Used, Slots, TypeOK, ServerTypeOK
  <2>2. Added = k - 1 /\ Added' = k /\ total' = total + Cores[workers[k]] /\ UNCHANGED <<num_of_workers, workers>>
    BY <1>5, <2>1 DEF AddCores, LoopBody, LoopNext, Added, Slots
  <2>3. total + Cores[workers[k]] <= (k - 1) * MaxCores + MaxCores
    BY <2>1, <2>2 DEF TotalInv, TypeOK, ServerTypeOK
  <2>4. (k - 1) * MaxCores + MaxCores = k * MaxCores
    BY <2>1 DEF Slots
  <2>5. \A i \in Slots : i <= k => Cores[workers[i]] <= total'
    <3> TAKE i \in Slots
    <3>1. CASE i = k
      BY <2>1, <2>2, <3>1 DEF TypeOK, ServerTypeOK
    <3>2. CASE i < k
      <4>1. i \in Used /\ workers[i] \in Hosts /\ i <= k - 1
        BY <2>1, <3>2 DEF Used, Slots, TableInv, TypeOK, ServerTypeOK
      <4> QED
        BY <2>1, <2>2, <4>1 DEF TotalInv, TypeOK, ServerTypeOK
    <3> QED
      BY <2>1, <3>1, <3>2 DEF Slots
  <2>6. k = 1 => total' = Cores[workers[1]]
    <3> HAVE k = 1
    <3>1. total = 0
      BY <2>2 DEF TotalInv, TypeOK, ServerTypeOK
    <3> QED
      BY <2>1, <2>2, <3>1
  <2> QED
    BY <1>5, <2>1, <2>2, <2>3, <2>4, <2>5, <2>6 DEF AddCores, LoopBody, TotalInv, TypeOK, ServerTypeOK, Slots
<1>6. CASE SplitDone
  <2>1. Added' = Added /\ UNCHANGED <<num_of_workers, workers, total>>
    BY <1>6 DEF SplitDone, LoopEnd, TotalInv, Added, TypeOK, ServerTypeOK
  <2> QED
    BY <2>1 DEF TotalInv
<1>7. ServerStep /\ (spc = "split" \/ spc' = "split") => WindowCloses \/ AddCores \/ SplitDone \/ \E h \in Hosts : ReceiveReply(h)
  BY DEF ServerStep, SendInvite, BindReceiveSocket, ConnectOK, ConnectFails, ConnectDone, SendTask, SendDone,
     Select, Timeout, GatherDone, RecvAnswer, RecvClosed, RecvError, SkipUnset, ScanDone, LoopBody, LoopNext, LoopEnd
<1>8. CASE UNCHANGED vars
  BY <1>8, <1>3 DEF vars, serverVars
<1> QED
  BY <1>1, <1>2, <1>3, <1>4, <1>5, <1>6, <1>7, <1>8 DEF Next

(* What the server does to its sockets: connect(), write() and the two kinds  *)
(* of recv() that change something.                                           *)
LEMMA ServerSocketFrame ==
  ASSUME ServerStep
  PROVE  ConnectOK \/ SendTask \/ RecvError \/ RecvAnswer \/ UNCHANGED <<peer, link, down, up>>
  BY DEF ServerStep, SendInvite, BindReceiveSocket, ReceiveReply, WindowCloses, AddCores, SplitDone,
     ConnectFails, ConnectDone, SendDone, Select, Timeout, GatherDone, RecvClosed, SkipUnset, ScanDone, netVars

(* Every step keeps a worker tied to a connection that was made to its        *)
(* machine: accept() hands out no connection twice.                           *)
LEMMA JobStep ==
  ASSUME TypeOK, PhaseInv, JobInv, [Next]_vars
  PROVE  JobInv'
<1> USE DEF TypeOK, NetTypeOK, WorkerTypeOK
<1>0. CASE UNCHANGED vars
  BY <1>0 DEF vars, netVars, workerVars, JobInv
<1>1. CASE NetStep /\ UNCHANGED <<serverVars, workerVars>>
  BY <1>1 DEF NetStep, LoseHello, LoseReply, DuplicateReply, workerVars, JobInv
<1>2. CASE ServerStep /\ UNCHANGED workerVars
  <2>1. CASE UNCHANGED <<peer, link>>
    BY <1>2, <2>1 DEF workerVars, JobInv
  <2>2. CASE ConnectOK
    <3>1. k \in Slots /\ link[k] = "none" /\ UNCHANGED <<wpc, job>>
      BY <1>2, <2>2, ClusterAssumption DEF ConnectOK, LoopBody, workerVars, PhaseInv, ServerTypeOK, Slots
    <3>2. \A h \in Hosts : job[h] # k
      BY <3>1 DEF JobInv
    <3> QED
      BY <2>2, <3>1, <3>2 DEF ConnectOK, JobInv
  <2>3. CASE SendTask
    BY <1>2, <2>3 DEF SendTask, LoopBody, workerVars, JobInv
  <2>4. CASE RecvError
    BY <1>2, <2>4 DEF RecvError, LoopBody, workerVars, JobInv
  <2>5. CASE RecvAnswer
    BY <1>2, <2>5 DEF RecvAnswer, workerVars, JobInv
  <2> QED
    BY <1>2, <2>1, <2>2, <2>3, <2>4, <2>5, ServerSocketFrame
<1>3. ASSUME WorkerStep, UNCHANGED serverVars, NEW g \in Hosts
      PROVE  /\ wpc'[g] \in {"read", "compute", "write", "close"} => job'[g] \in Slots
             /\ job'[g] \in Slots => peer'[job'[g]] = g /\ link'[job'[g]] \notin {"none", "queued"}
  <2>1. PICK h \in Hosts : Start(h) \/ WorkerRuns(h) \/ Crash(h)
    BY <1>3 DEF WorkerStep
  <2>2. CASE Start(h) \/ RecvInvite(h) \/ SendCores(h) \/ Listen(h)
    BY <2>2 DEF Start, RecvInvite, SendCores, Listen, Go, netVars, JobInv
  <2>3. CASE Accept(h)
    BY <2>3, ClusterAssumption DEF Accept, Backlog, Go, JobInv
  <2>4. CASE ReadTask(h) \/ ReadNothing(h) \/ Compute(h) \/ WriteAnswer(h)
    BY <2>4 DEF ReadTask, ReadNothing, Compute, WriteAnswer, Go, netVars, JobInv
  <2>5. CASE CloseAndExit(h) \/ Crash(h)
    BY <2>5 DEF CloseAndExit, Crash, CloseSockets, Backlog, Served, Go, JobInv
  <2> QED
    BY <2>1, <2>2, <2>3, <2>4, <2>5 DEF WorkerRuns
<1> QED
  BY <1>0, <1>1, <1>2, <1>3 DEF Next, JobInv

(* The heart of the argument: no step of the server, a worker or the network  *)
(* leaves the work of a connection in two places.                             *)
LEMMA OnePlaceStep ==
  ASSUME TypeOK, PhaseInv, JobInv, OnePlaceInv, [Next]_vars
  PROVE  OnePlaceInv'
<1> USE DEF TypeOK, NetTypeOK, ServerTypeOK, WorkerTypeOK
<1>0. CASE UNCHANGED vars
  BY <1>0 DEF vars, netVars, serverVars, workerVars, OnePlaceInv, Unsent
<1>1. CASE NetStep /\ UNCHANGED <<serverVars, workerVars>>
  BY <1>1 DEF NetStep, LoseHello, LoseReply, DuplicateReply, serverVars, workerVars, OnePlaceInv, Unsent
<1>2. CASE ServerStep /\ UNCHANGED workerVars
  <2>1. ASSUME UNCHANGED <<peer, link, down, up, result>>, \A i \in Slots : Unsent(i)' => Unsent(i)
        PROVE  OnePlaceInv'
    BY <1>2, <2>1 DEF workerVars, OnePlaceInv
  <2>2. CASE SendInvite \/ BindReceiveSocket \/ WindowCloses \/ AddCores \/ SplitDone
    BY <2>1, <2>2 DEF SendInvite, BindReceiveSocket, WindowCloses, AddCores, SplitDone, LoopBody,
                      LoopNext, LoopEnd, netVars, Unsent, Forming
  <2>3. ASSUME NEW h \in Hosts, ReceiveReply(h) PROVE OnePlaceInv'
    BY <2>1, <2>3 DEF ReceiveReply, Unsent, Forming
  <2>4. CASE ConnectOK
    BY <1>2, <2>4 DEF ConnectOK, LoopBody, LoopNext, workerVars, OnePlaceInv, Unsent, Forming, PhaseInv
  <2>5. CASE ConnectFails \/ ConnectDone \/ SendDone
    BY <2>1, <2>5 DEF ConnectFails, ConnectDone, SendDone, LoopBody, LoopEnd, netVars, Unsent, Forming
  <2>6. CASE SendTask
    <3>1. spc = "send" /\ k \in Slots /\ Unsent(k) /\ UNCHANGED <<up, result>> /\ result[k] = {} /\ up[k] = {}
      BY <2>6, ClusterAssumption DEF SendTask, LoopBody, Unsent, Slots, OnePlaceInv, PhaseInv
    <3>2. \A i \in Slots : Unsent(i)' => i # k /\ Unsent(i)
      BY <2>6, <3>1 DEF SendTask, LoopBody, LoopNext, Unsent, Forming, Slots
    <3>3. \A i \in Slots : i # k => down'[i] = down[i] /\ link'[i] = link[i]
      BY <2>6, <3>1 DEF SendTask
    <3>4. link'[k] \in {"none", "queued"} => link[k] \in {"none", "queued"}
      BY <2>6, <3>1 DEF SendTask
    <3>5. \A h \in Hosts : job[h] = k => wpc[h] \in {"read", "crashed"}
      BY <3>1 DEF OnePlaceInv
    <3> QED
      BY <1>2, <3>1, <3>2, <3>3, <3>4, <3>5 DEF workerVars, OnePlaceInv
  <2>7. CASE Select \/ Timeout \/ GatherDone \/ RecvClosed \/ SkipUnset \/ ScanDone
    BY <2>1, <2>7 DEF Select, Timeout, GatherDone, RecvClosed, SkipUnset, ScanDone, LoopBody, LoopNext,
                      LoopEnd, netVars, Unsent, Forming
  <2>8. CASE RecvAnswer
    BY <1>2, <2>8 DEF RecvAnswer, LoopBody, LoopNext, workerVars, OnePlaceInv, Unsent, Forming
  <2>9. CASE RecvError
    BY <1>2, <2>9 DEF RecvError, LoopBody, LoopNext, workerVars, OnePlaceInv, Unsent, Forming
  <2> QED
    BY <1>2, <2>2, <2>3, <2>4, <2>5, <2>6, <2>7, <2>8, <2>9 DEF ServerStep
<1>3. CASE WorkerStep /\ UNCHANGED serverVars
  <2>0. UNCHANGED result /\ \A i \in Slots : Unsent(i)' <=> Unsent(i)
    BY <1>3 DEF serverVars, Unsent
  <2>1. PICK h \in Hosts : Start(h) \/ WorkerRuns(h) \/ Crash(h)
    BY <1>3 DEF WorkerStep
  <2>2. CASE Start(h)
    BY <2>0, <2>2 DEF Start, Go, netVars, OnePlaceInv, JobInv
  <2>3. CASE RecvInvite(h)
    BY <2>0, <2>3 DEF RecvInvite, Go, OnePlaceInv, JobInv
  <2>4. CASE SendCores(h)
    BY <2>0, <2>4 DEF SendCores, Go, OnePlaceInv, JobInv
  <2>5. CASE Listen(h)
    BY <2>0, <2>5 DEF Listen, Go, OnePlaceInv, JobInv
  <2>6. CASE Accept(h)
    BY <2>0, <2>6 DEF Accept, Backlog, Go, OnePlaceInv, JobInv
  <2>7. CASE ReadTask(h)
    BY <2>0, <2>7 DEF ReadTask, Go, OnePlaceInv, JobInv
  <2>8. CASE ReadNothing(h)
    BY <2>0, <2>8, <1>3 DEF ReadNothing, Go, netVars, OnePlaceInv, JobInv, PhaseInv, Unsent, Forming
  <2>9. CASE Compute(h)
    BY <2>0, <2>9 DEF Compute, Go, netVars, OnePlaceInv, JobInv
  <2>10. CASE WriteAnswer(h)
    BY <2>0, <2>10 DEF WriteAnswer, Go, OnePlaceInv, JobInv
  <2>11. CASE CloseAndExit(h)
    BY <2>0, <2>11 DEF CloseAndExit, CloseSockets, Backlog, Served, Go, OnePlaceInv, JobInv
  <2>12. CASE Crash(h)
    BY <2>0, <2>12 DEF Crash, CloseSockets, Backlog, Served, OnePlaceInv, JobInv
  <2> QED
    BY <2>1, <2>2, <2>3, <2>4, <2>5, <2>6, <2>7, <2>8, <2>9, <2>10, <2>11, <2>12 DEF WorkerRuns
<1> QED
  BY <1>0, <1>1, <1>2, <1>3 DEF Next

(* Once a task may be under way, no step changes what the task of an entry    *)
(* is: the table and num_of_cores are written only before connect().          *)
LEMMA TaskForFrame ==
  ASSUME TypeOK, [Next]_vars
  PROVE  \/ spc \in {"collect", "split"}
         \/ UNCHANGED num_of_workers /\ \A i \in Slots : TaskFor(i)' = TaskFor(i)
<1>1. (\E h \in Hosts : ReceiveReply(h)) \/ AddCores \/ UNCHANGED <<num_of_workers, workers, total>>
  BY DEF vars, serverVars, Next, ServerStep, SendInvite, BindReceiveSocket, WindowCloses, SplitDone,
     ConnectOK, ConnectFails, ConnectDone, SendTask, SendDone, Select, Timeout, GatherDone,
     RecvAnswer, RecvClosed, RecvError, SkipUnset, ScanDone
<1> QED
  BY <1>1 DEF ReceiveReply, AddCores, LoopBody, TaskFor, FirstStrip

(* Every step keeps what travels over connection i the work of entry i.       *)
LEMMA WorkStep ==
  ASSUME TypeOK, PhaseInv, JobInv, OnePlaceInv, WorkInv, [Next]_vars
  PROVE  WorkInv'
<1> USE DEF TypeOK, NetTypeOK, WorkerTypeOK
<1>1. CASE spc \in {"collect", "split"}
  <2>1. /\ \A i \in Slots : down[i] = {} /\ up[i] = {} /\ result[i] = {}
        /\ \A h \in Hosts : wpc[h] \notin {"read", "compute", "write"}
        /\ ~serverClosed
    BY <1>1 DEF PhaseInv, OnePlaceInv, JobInv, Unsent, Forming
  <2>2. CASE ServerStep /\ UNCHANGED workerVars
    <3>1. UNCHANGED <<down, up, result, wpc>>
      BY <1>1, <2>2 DEF ServerStep, workerVars, SendInvite, BindReceiveSocket, ReceiveReply, WindowCloses,
         AddCores, SplitDone, ConnectOK, ConnectFails, ConnectDone, SendTask, SendDone, Select, Timeout,
         GatherDone, RecvAnswer, RecvClosed, RecvError, SkipUnset, ScanDone, LoopBody, LoopEnd, netVars
    <3> QED
      BY <2>1, <3>1 DEF WorkInv
  <2>3. CASE NetStep /\ UNCHANGED <<serverVars, workerVars>>
    BY <2>1, <2>3 DEF NetStep, LoseHello, LoseReply, DuplicateReply, serverVars, workerVars, WorkInv
  <2>4. CASE WorkerStep /\ UNCHANGED serverVars
    <3>1. UNCHANGED <<down, up>> /\ \A h \in Hosts : wpc'[h] \notin {"compute", "write"}
      BY <2>1, <2>4 DEF WorkerStep, WorkerRuns, Start, RecvInvite, SendCores, Listen, Accept, ReadTask,
         ReadNothing, Compute, WriteAnswer, CloseAndExit, Crash, Go, netVars
    <3> QED
      BY <2>1, <2>4, <3>1 DEF serverVars, WorkInv
  <2>5. CASE UNCHANGED vars
    BY <2>1, <2>5 DEF vars, netVars, serverVars, workerVars, WorkInv
  <2> QED
    BY <2>2, <2>3, <2>4, <2>5 DEF Next
<1>2. CASE UNCHANGED num_of_workers /\ \A i \in Slots : TaskFor(i)' = TaskFor(i)
  <2>1. CASE ServerStep /\ UNCHANGED workerVars
    <3>1. CASE SendTask
      BY <1>2, <2>1, <3>1 DEF SendTask, LoopBody, workerVars, WorkInv, JobInv
    <3>2. CASE RecvAnswer
      <4>1. k \in Slots /\ k <= num_of_workers /\ up[k] = {TaskFor(k)}
        BY <3>2, ClusterAssumption DEF RecvAnswer, LoopBody, WorkInv, ServerTypeOK, Slots
      <4>2. UNCHANGED <<wpc, job, todo, down, serverClosed>>
        BY <2>1, <3>2 DEF RecvAnswer, workerVars
      <4>3. \A h \in Hosts : wpc[h] \in {"compute", "write"} => job[h] \in Slots
        BY DEF JobInv
      <4>4. \A i \in Slots : /\ up'[i] = IF i = k THEN {} ELSE up[i]
                             /\ result'[i] = IF i = k THEN {TaskFor(k)} ELSE result[i]
        BY <3>2, <4>1 DEF RecvAnswer, ServerTypeOK
      <4> QED
        BY <1>2, <4>1, <4>2, <4>3, <4>4 DEF WorkInv
    <3>3. CASE UNCHANGED <<down, up, result>> /\ (serverClosed => serverClosed')
      BY <1>2, <2>1, <3>3 DEF workerVars, WorkInv, JobInv
    <3> QED
      BY <2>1, <3>1, <3>2, <3>3 DEF ServerStep, SendInvite, BindReceiveSocket, ReceiveReply, WindowCloses,
         AddCores, SplitDone, ConnectOK, ConnectFails, ConnectDone, SendDone, Select, Timeout,
         GatherDone, RecvClosed, RecvError, SkipUnset, ScanDone, netVars
  <2>2. CASE NetStep /\ UNCHANGED <<serverVars, workerVars>>
    BY <1>2, <2>2 DEF NetStep, LoseHello, LoseReply, DuplicateReply, serverVars, workerVars, WorkInv, JobInv
  <2>3. CASE WorkerStep /\ UNCHANGED serverVars
    <3>0. UNCHANGED <<result, serverClosed>>
      BY <2>3, OthersFrame DEF serverVars
    <3>1. PICK h \in Hosts : Start(h) \/ WorkerRuns(h) \/ Crash(h)
      BY <2>3 DEF WorkerStep
    <3>2. CASE Start(h) \/ RecvInvite(h) \/ SendCores(h) \/ Listen(h)
      BY <1>2, <3>0, <3>2 DEF Start, RecvInvite, SendCores, Listen, Go, netVars, WorkInv, JobInv
    <3>3. CASE Accept(h)
      BY <1>2, <3>0, <3>3 DEF Accept, Go, WorkInv, JobInv
    <3>4. CASE ReadTask(h)
      BY <1>2, <3>0, <3>4 DEF ReadTask, Go, WorkInv, JobInv
    <3>5. CASE ReadNothing(h)
      BY <1>2, <3>0, <3>5 DEF ReadNothing, Go, netVars, WorkInv, JobInv
    <3>6. CASE Compute(h)
      BY <1>2, <3>0, <3>6 DEF Compute, Go, netVars, WorkInv, JobInv
    <3>7. CASE WriteAnswer(h)
      BY <1>2, <3>0, <3>7 DEF WriteAnswer, Go, WorkInv, JobInv
    <3>8. CASE CloseAndExit(h) \/ Crash(h)
      BY <1>2, <3>0, <3>8 DEF CloseAndExit, Crash, CloseSockets, Go, WorkInv, JobInv
    <3> QED
      BY <3>1, <3>2, <3>3, <3>4, <3>5, <3>6, <3>7, <3>8 DEF WorkerRuns
  <2>4. CASE UNCHANGED vars
    BY <1>2, <2>4 DEF vars, netVars, serverVars, workerVars, WorkInv, JobInv
  <2> QED
    BY <2>1, <2>2, <2>3, <2>4 DEF Next
<1> QED
  BY <1>1, <1>2, TaskForFrame

(* Only gather_results writes the results and responsesReceived.              *)
LEMMA AnswerFrame ==
  ASSUME [Next]_vars
  PROVE  RecvAnswer \/ SendDone \/ UNCHANGED <<result, responses>>
  BY DEF vars, serverVars, Next, ServerStep, SendInvite, BindReceiveSocket, ReceiveReply, WindowCloses,
     AddCores, SplitDone, ConnectOK, ConnectFails, ConnectDone, SendTask, Select, Timeout,
     GatherDone, RecvClosed, RecvError, SkipUnset, ScanDone

(* Every step keeps responsesReceived the number of entries with an answer.   *)
LEMMA CountStep ==
  ASSUME TypeOK, PhaseInv, OnePlaceInv, EachAnswerCountedOnce, [Next]_vars
  PROVE  EachAnswerCountedOnce'
<1>1. CASE RecvAnswer
  <2>1. k \in Slots /\ result[k] = {} /\ up[k] # {}
    BY <1>1, ClusterAssumption DEF RecvAnswer, LoopBody, OnePlaceInv, TypeOK, ServerTypeOK, Slots
  <2>2. Received' = Received \cup {k}
    BY <1>1, <2>1 DEF RecvAnswer, Received, TypeOK, ServerTypeOK
  <2> QED
    BY <1>1, <2>1, <2>2, OneMoreAnswer DEF RecvAnswer, EachAnswerCountedOnce, TypeOK
<1>2. CASE SendDone
  BY <1>2 DEF SendDone, LoopEnd, PhaseInv, EachAnswerCountedOnce, Received
<1>3. CASE UNCHANGED <<result, responses>>
  BY <1>3 DEF EachAnswerCountedOnce, Received
<1> QED
  BY <1>1, <1>2, <1>3, AnswerFrame

(* Answers are only in entries in use, so the condition of the loop of        *)
(* gather_results fails exactly when all of them have one.                    *)
LEMMA CompleteNow ==
  ASSUME TypeOK, WorkInv, EachAnswerCountedOnce
  PROVE  /\ Received \subseteq Used
         /\ responses >= num_of_workers <=> Received = Used
<1>1. IsFiniteSet(Used) /\ Cardinality(Used) = num_of_workers
  BY FS_Interval DEF Used, TypeOK, ServerTypeOK
<1>2. Received \subseteq Used
  BY ClusterAssumption DEF Received, Used, WorkInv, Slots, TypeOK, ServerTypeOK
<1>3. Cardinality(Received) <= Cardinality(Used) /\ (Cardinality(Received) = Cardinality(Used) => Received = Used)
  BY <1>1, <1>2, FS_Subset
<1> QED
  BY <1>1, <1>2, <1>3, ReceivedFinite DEF EachAnswerCountedOnce, TypeOK, ServerTypeOK

(* Every step keeps a run that ended without the timeout complete.            *)
LEMMA CompleteStep ==
  ASSUME TypeOK, PhaseInv, WorkInv, EachAnswerCountedOnce, CompleteUnlessTimeout, [Next]_vars
  PROVE  CompleteUnlessTimeout'
<1>1. GatherDone \/ spc' # "done" \/ gaveUp' \/ UNCHANGED <<spc, gaveUp, num_of_workers, result>>
  BY DEF vars, serverVars, Next, ServerStep, SendInvite, BindReceiveSocket, ReceiveReply, WindowCloses,
     AddCores, SplitDone, ConnectOK, ConnectFails, ConnectDone, SendTask, SendDone, Select, Timeout,
     RecvAnswer, RecvClosed, RecvError, SkipUnset, ScanDone, LoopBody, LoopNext, LoopEnd
<1>2. CASE GatherDone
  BY <1>2, CompleteNow DEF GatherDone, CompleteUnlessTimeout, Received, Used
<1>3. CASE spc' # "done" \/ gaveUp' 
  BY <1>3 DEF CompleteUnlessTimeout
<1>4. CASE UNCHANGED <<spc, gaveUp, num_of_workers, result>>
  BY <1>4 DEF CompleteUnlessTimeout, Received, Used
<1> QED
  BY <1>1, <1>2, <1>3, <1>4

(* The programs start in a state that satisfies the inductive invariant.      *)
LEMMA InitIInv ==
  ASSUME Init
  PROVE  IInv
<1> USE DEF Init, NetInit, ServerInit, WorkerInit
<1>0. 0 \in 0 .. MaxDup /\ 0 \in 0 .. MaxWorkers /\ 1 \in 1 .. MaxWorkers + 1
  BY ClusterAssumption
<1>1. TypeOK
  <2>1. NetTypeOK
    <3>1. [i \in Slots |-> {}] \in [Slots -> SUBSET Task]
      OBVIOUS
    <3> QED
      BY <1>0, <3>1 DEF NetTypeOK, LinkState
  <2>2. ServerTypeOK
    BY <1>0 DEF ServerTypeOK, ServerPhase
  <2>3. WorkerTypeOK
    BY DEF WorkerTypeOK, WorkerPhase
  <2> QED
    BY <2>1, <2>2, <2>3 DEF TypeOK
<1>2. PhaseInv /\ TableInv /\ JobInv
  BY ClusterAssumption DEF PhaseInv, TableInv, JobInv, Forming, Used, Slots
<1>3. TotalInv
  BY ClusterAssumption DEF TotalInv, Added, Slots
<1>4. OnePlaceInv
  BY DEF OnePlaceInv, Slots
<1>5. WorkInv
  BY DEF WorkInv
<1>6. EachAnswerCountedOnce /\ CompleteUnlessTimeout
  <2>1. Received = {}
    BY DEF Received
  <2> QED
    BY <2>1, FS_EmptySet DEF EachAnswerCountedOnce, CompleteUnlessTimeout
<1> QED
  BY <1>1, <1>2, <1>3, <1>4, <1>5, <1>6 DEF IInv

(* Every step of the cluster keeps the inductive invariant.                   *)
LEMMA NextIInv ==
  ASSUME IInv, [Next]_vars
  PROVE  IInv'
<1> USE DEF IInv
<1>1. TypeOK'
  <2>1. CASE UNCHANGED vars
    BY <2>1 DEF vars, netVars, serverVars, workerVars, TypeOK, NetTypeOK, ServerTypeOK, WorkerTypeOK
  <2> QED
    BY <2>1, NetType, WorkerType, ServerType DEF Next
<1>2. PhaseInv' /\ TableInv' /\ TotalInv'
  BY PhaseStep, TableStep, TotalStep
<1>3. JobInv' /\ OnePlaceInv' /\ WorkInv'
  BY JobStep, OnePlaceStep, WorkStep
<1>4. EachAnswerCountedOnce' /\ CompleteUnlessTimeout'
  BY CountStep, CompleteStep
<1> QED
  BY <1>1, <1>2, <1>3, <1>4

(* In every reachable state of the cluster, for any machines, core counts,    *)
(* table size and number of points, the inductive invariant holds: the work   *)
(* of a connection is in one place, and it is the work of its entry.          *)
THEOREM Invariance == Spec => []IInv
<1>1. Init => IInv
  BY InitIInv
<1>2. IInv /\ [Next]_vars => IInv'
  BY NextIInv
<1> QED
  BY <1>1, <1>2, PTL DEF Spec

---------------------------------------------------------------------------
(* What follows from the inductive invariant. *)

(* Integer division in split_tasks and the multiplication in send_task: a     *)
(* share of at least one point per core, and not more points than there are.  *)
LEMMA ShareBounds ==
  ASSUME NEW total_ \in Nat, NEW cores \in Nat \ {0}, NEW points \in Nat,
         cores <= total_, total_ <= points
  PROVE  /\ cores <= (points \div total_) * cores
         /\ (points \div total_) * cores <= points
<1> DEFINE q == points \div total_
<1>1. q \in Nat /\ q * total_ <= points /\ points < (q + 1) * total_
  OBVIOUS
<1>2. q >= 1
  BY <1>1
<1>3. cores <= q * cores
  BY <1>1, <1>2
<1>4. q * cores <= q * total_
  BY <1>1
<1> QED
  BY <1>1, <1>3, <1>4

(* Multiplication by a natural number is monotonic.                           *)
LEMMA ProductBound ==
  ASSUME NEW a \in Nat, NEW b \in Nat, NEW c \in Nat, a <= b
  PROVE  a * c <= b * c
OBVIOUS

(* An answer in the table belongs to an entry in use and to the task that was *)
(* sent to it, and num_of_cores is complete by then.                          *)
LEMMA AnswersAfterSending ==
  ASSUME IInv, NEW i \in Received
  PROVE  /\ result[i] = {TaskFor(i)}
         /\ i \in Used
         /\ Added = num_of_workers
<1>1. i \in Slots /\ result[i] # {}
  BY DEF Received
<1>2. spc \notin Forming \cup {"send"}
  BY <1>1 DEF IInv, PhaseInv
<1> QED
  BY <1>1, <1>2 DEF IInv, WorkInv, Used, Slots, Added, Forming, TypeOK, ServerTypeOK

(* num_of_cores is at least the number of cores of any entry and at most the  *)
(* number of points.                                                          *)
LEMMA TotalBounds ==
  ASSUME IInv, Added = num_of_workers, NEW i \in Used
  PROVE  /\ workers[i] \in Hosts /\ Cores[workers[i]] \in Nat \ {0}
         /\ Cores[workers[i]] <= total /\ total <= MainPoints /\ total \in Nat
<1> USE ClusterAssumption DEF IInv, TypeOK, ServerTypeOK
<1>1. i \in Slots /\ workers[i] \in Hosts
  BY DEF Used, Slots, TableInv
<1>2. Cores[workers[i]] \in 1 .. MaxCores /\ Cores[workers[i]] <= total
  BY <1>1 DEF TotalInv, Used
<1>3. num_of_workers * MaxCores <= MaxWorkers * MaxCores
  BY ProductBound
<1>4. total <= num_of_workers * MaxCores
  BY DEF TotalInv
<1>5. total <= MainPoints
  BY <1>3, <1>4
<1> QED
  BY <1>1, <1>2, <1>5

(* Every variable of the cluster keeps its type.                              *)
THEOREM TypeCorrect == Spec => []TypeOK
<1>1. IInv => TypeOK
  BY DEF IInv
<1> QED
  BY <1>1, Invariance, PTL

(* Every answer received is the integral of the part that was sent over the   *)
(* same connection, whoever crashed, answered late or was registered twice;   *)
(* and unless it has timed out, gather_results adds up such answers only, one *)
(* of every entry (server.c:304-306).  After a timeout it also adds results   *)
(* that were never written, of which nothing is said.                         *)
THEOREM AnswersIntact == Spec => []AnswerIntegrity
<1>1. ASSUME IInv PROVE AnswerIntegrity
  <2>1. \A i \in Received : i \in Used /\ result[i] = {TaskFor(i)}
    BY <1>1, AnswersAfterSending
  <2>2. spc = "done" /\ ~gaveUp => Received = Used
    BY <1>1 DEF IInv, CompleteUnlessTimeout
  <2> QED BY <2>1, <2>2 DEF AnswerIntegrity
<1> QED
  BY <1>1, Invariance, PTL

(* responsesReceived never differs from the number of entries with an answer. *)
THEOREM AnswersCountedOnce == Spec => []EachAnswerCountedOnce
<1>1. IInv => EachAnswerCountedOnce
  BY DEF IInv
<1> QED
  BY <1>1, Invariance, PTL

(* A run of gather_results that did not leave its loop by the timeout has an  *)
(* answer of every worker.                                                    *)
THEOREM CompleteOrTimedOut == Spec => []CompleteUnlessTimeout
<1>1. IInv => CompleteUnlessTimeout
  BY DEF IInv
<1> QED
  BY <1>1, Invariance, PTL

(* No worker whose answer is added up had fewer points than threads.          *)
THEOREM NoNaNInSum == Spec => []NoNaNSummed
<1>1. ASSUME IInv PROVE NoNaNSummed
  <2> SUFFICES ASSUME NEW i \in Received PROVE \A t \in result[i] : ~NotANumber(workers[i], t)
    BY DEF NoNaNSummed
  <2>1. result[i] = {TaskFor(i)} /\ i \in Used /\ Added = num_of_workers
    BY <1>1, AnswersAfterSending
  <2>2. Cores[workers[i]] <= (MainPoints \div total) * Cores[workers[i]]
    BY <1>1, <2>1, TotalBounds, ShareBounds, ClusterAssumption
  <2>3. (MainPoints \div total) * Cores[workers[i]] \in Nat
    BY <1>1, <2>1, TotalBounds, ClusterAssumption
  <2> QED
    BY <1>1, <2>1, <2>2, <2>3, TotalBounds DEF NotANumber, TaskFor
<1> QED
  BY <1>1, Invariance, PTL

(* send_task reads only strips that split_tasks has allocated.                *)
THEOREM StripsInBounds == Spec => []StripsWithinTask
<1>1. ASSUME IInv PROVE StripsWithinTask
  <2> SUFFICES ASSUME spc = "send", NEW i \in Used
               PROVE  0 < TaskFor(i).to /\ TaskFor(i).to <= total /\ TaskFor(i).points <= MainPoints
    BY DEF StripsWithinTask
  <2>1. Added = num_of_workers
    BY DEF Added
  <2>2. (MainPoints \div total) * Cores[workers[i]] <= MainPoints
    BY <1>1, <2>1, TotalBounds, ShareBounds, ClusterAssumption
  <2> QED
    BY <1>1, <2>1, <2>2, TotalBounds DEF TaskFor, FirstStrip
<1> QED
  BY <1>1, Invariance, PTL

(* With one registered worker and no timeout the answer covers the whole      *)
(* range.                                                                     *)
THEOREM OneWorkerSuffices == Spec => []OneWorkerIsRight
<1>1. ASSUME IInv PROVE OneWorkerIsRight
  <2> SUFFICES ASSUME spc = "done", ~gaveUp, num_of_workers = 1, NEW t \in result[1]
               PROVE  t.from = 0 /\ t.to = total
    BY DEF OneWorkerIsRight
  <2>1. 1 \in Received
    BY ClusterAssumption DEF Received, Slots
  <2>2. t = TaskFor(1) /\ Added = 1
    BY <1>1, <2>1, AnswersAfterSending
  <2>3. total = Cores[workers[1]]
    BY <1>1, <2>2 DEF IInv, TotalInv
  <2>4. Cores[workers[1]] \in Nat
    BY <1>1, <2>2, TotalBounds DEF Used
  <2> QED
    BY <2>2, <2>3, <2>4 DEF TaskFor, FirstStrip
<1> QED
  BY <1>1, Invariance, PTL

(* No step of a reachable state removes a worker or overwrites an answer.     *)
LEMMA TableStays ==
  ASSUME IInv, [Next]_vars
  PROVE  TableKept
<1> USE DEF TableKept, IInv, TypeOK, ServerTypeOK
<1>1. \A i \in Used : i \in Slots /\ i <= num_of_workers
  BY ClusterAssumption DEF Used, Slots
<1>2. CASE \E h \in Hosts : ReceiveReply(h)
  BY <1>1, <1>2, ClusterAssumption DEF ReceiveReply, Used, Slots
<1>3. CASE RecvAnswer
  <2>1. k \in Slots /\ result[k] = {}
    BY <1>3, ClusterAssumption DEF RecvAnswer, LoopBody, OnePlaceInv, Slots
  <2> QED
    BY <1>1, <1>3, <2>1 DEF RecvAnswer, Received
<1>4. CASE UNCHANGED <<num_of_workers, workers, result>>
  BY <1>1, <1>4
<1> QED
  BY <1>2, <1>3, <1>4 DEF vars, serverVars, Next, ServerStep, SendInvite, BindReceiveSocket, WindowCloses,
     AddCores, SplitDone, ConnectOK, ConnectFails, ConnectDone, SendTask, SendDone, Select, Timeout,
     GatherDone, RecvClosed, RecvError, SkipUnset, ScanDone

(* No step forgets a registered worker or overwrites an answer.               *)
THEOREM TableIsKept == Spec => TableOnlyGrows
<1>1. IInv /\ [Next]_vars => [TableKept]_vars
  BY TableStays
<1> QED
  BY <1>1, Invariance, PTL DEF Spec, TableOnlyGrows

(* The cluster starts as an empty round.                                      *)
LEMMA RoundInit ==
  ASSUME Init
  PROVE  Round!SGInit
BY ClusterAssumption DEF Init, ServerInit, Round!SGInit, RoundPhase, Used, Received, Slots

(* Every step of the cluster is a step of the round of ScatterGather, or      *)
(* none.                                                                      *)
LEMMA RoundStep ==
  ASSUME IInv, IInv', [Next]_vars
  PROVE  [Round!SGNext]_(Round!sgVars)
<1> USE DEF IInv, TypeOK, ServerTypeOK
<1>1. ASSUME UNCHANGED <<RoundPhase, num_of_workers, result>>
      PROVE  UNCHANGED Round!sgVars
  BY <1>1 DEF Round!sgVars, Used, Received
<1>2. CASE UNCHANGED serverVars
  BY <1>1, <1>2 DEF serverVars, RoundPhase
<1>3. CASE ServerStep
  <2>1. CASE SendInvite \/ BindReceiveSocket \/ WindowCloses \/ AddCores \/ SplitDone \/ ConnectOK
    BY <1>1, <2>1 DEF SendInvite, BindReceiveSocket, WindowCloses, AddCores, SplitDone, ConnectOK,
                      LoopBody, LoopNext, LoopEnd, RoundPhase
  <2>2. ASSUME NEW h \in Hosts, ReceiveReply(h)
        PROVE  Round!Join \/ UNCHANGED Round!sgVars
    <3>1. RoundPhase = "forming" /\ UNCHANGED <<RoundPhase, result>> /\ UNCHANGED Received
      BY <2>2 DEF ReceiveReply, RoundPhase, Received
    <3>2. CASE num_of_workers < MaxWorkers
      <4>1. num_of_workers + 1 \in 1 .. MaxWorkers /\ num_of_workers' = num_of_workers + 1
        BY <2>2, <3>2, ClusterAssumption DEF ReceiveReply
      <4>2. Used = 1 .. (num_of_workers + 1) - 1 /\ Used' = 1 .. num_of_workers + 1
        BY <4>1 DEF Used
      <4> QED
        BY <3>1, <4>1, <4>2 DEF Round!Join
    <3>3. CASE ~(num_of_workers < MaxWorkers)
      BY <1>1, <2>2, <3>1, <3>3 DEF ReceiveReply
    <3> QED
      BY <3>2, <3>3
  <2>3. CASE ConnectFails
    BY <2>3 DEF ConnectFails, LoopBody, RoundPhase, Used, Received, Round!SGNext, Round!Abort
  <2>4. CASE ConnectDone
    BY <2>4 DEF ConnectDone, LoopEnd, RoundPhase, Used, Received, Round!SGNext, Round!Distribute
  <2>5. CASE SendTask \/ SendDone \/ Select
    BY <1>1, <2>5 DEF SendTask, SendDone, Select, LoopBody, LoopNext, LoopEnd, RoundPhase
  <2>6. CASE Timeout
    <3>1. Received # Used
      BY <2>6, CompleteNow DEF Timeout
    <3> QED
      BY <2>6, <3>1 DEF Timeout, RoundPhase, Used, Received, Round!SGNext, Round!GiveUp
  <2>7. CASE GatherDone
    <3>1. Received = Used /\ ~gaveUp
      BY <2>7, CompleteNow DEF GatherDone, PhaseInv
    <3> QED
      BY <2>7, <3>1 DEF GatherDone, RoundPhase, Used, Received, Round!SGNext, Round!Complete
  <2>8. CASE RecvAnswer
    <3>1. k \in Slots /\ k \in Used /\ result[k] = {} /\ up[k] # {}
      BY <2>8, ClusterAssumption DEF RecvAnswer, LoopBody, OnePlaceInv, Used, Slots
    <3>2. k \in Used \ Received /\ Received' = Received \cup {k}
      BY <2>8, <3>1 DEF RecvAnswer, Received
    <3> QED
      BY <2>8, <3>2 DEF RecvAnswer, LoopBody, LoopNext, RoundPhase, Used, Round!SGNext, Round!Collect
  <2>9. CASE RecvClosed \/ RecvError \/ SkipUnset \/ ScanDone
    BY <1>1, <2>9 DEF RecvClosed, RecvError, SkipUnset, ScanDone, LoopBody, LoopNext, LoopEnd, RoundPhase
  <2> QED
    BY <1>3, <2>1, <2>2, <2>3, <2>4, <2>5, <2>6, <2>7, <2>8, <2>9 DEF ServerStep, Round!SGNext
<1> QED
  BY <1>2, <1>3 DEF Next, vars

(* The cluster implements the round of ScatterGather: members join, their     *)
(* answers are collected once each, and the round ends complete, partial or   *)
(* aborted in that order.                                                     *)
THEOREM RoundRefinement == Spec => RoundSteps
<1>1. Init => Round!SGInit
  BY RoundInit
<1>2. IInv /\ IInv' /\ [Next]_vars => [Round!SGNext]_(Round!sgVars)
  BY RoundStep
<1> QED
  BY <1>1, <1>2, Invariance, PTL DEF Spec, RoundSteps, Round!SGSafety
=============================================================================
