# Verification of the os_23_24 programs

The repository holds the programs written for a course on operating systems: a shell, four ways
to pass a file between two processes, a transfer by signals, a token server and a bounded buffer
that the teachers show, a backup daemon, a file server over
FIFOs and a Monte Carlo integration that is spread over a cluster of machines. Each program is
short; what is hard about each is what happens *between* processes: who waits for whom, what the
kernel keeps, drops or merges, what an unlucky order of two steps does.

The project models these programs in TLA+, checks them with TLC and proves with TLAPS what can be
proved for every value of the constants. `PROJECT.json` lists the runs, the mutants that show each
property to be sensitive to a bug in the code, the theorems, the hazards, and for every definition
the source lines it stands for.

Contents: 1 [Inventory](#1-inventory) - 2 [Modules and code](#2-modules-and-code) -
3 [Runs and bounds](#3-runs-and-bounds) - 4 [Fairness](#4-fairness) - 5 [Proofs](#5-proofs) -
6 [Disagreements found](#6-disagreements-found) - 7 [Not modelled](#7-not-modelled) -
8 [Plan](#8-plan)

---

## 1. Inventory

`T5`, `T7`, `T8` stand for `src/task_5/tiazhelkov.ve`, `src/task_7/tiazhelkov.ve` and so on.

| component | state it keeps | operations | talks to others by |
|---|---|---|---|
| cluster server, `T8/src/server.c` | worker table, sockets, strips, `fd_set`, count of answers | broadcast, collect core counts, split, connect, send tasks, gather with `select()` | UDP broadcast and datagrams, one TCP connection per worker |
| cluster worker, `T8/src/worker.c` | one invitation, one connection, one task | receive invitation, answer, listen, accept, read, compute, write, exit | the same |
| integration function, `T8/src/monte_carlo.c`, `src/monte_carlo/monte_carlo.c` | `res_square`, mutex `m`, `args` on the stack | create threads, add under the mutex, join | shared memory of threads |
| shared memory transfer, `src/task_3/shmem_posix` | three named semaphores, the object, positions in the files | fill the object, empty it, end on `quit` | semaphores and the object, which outlive both programs |
| duplex pipe, `src/task_2/Tyazhelkov` | two pipes, one `struct Pipe` per process | send a chunk, echo it, write the echo, end on `exit` | two pipes |
| signal transfer, `T5` | globals `VAL`, `WRITE`, `END`, `SND_PID` set by handlers | announce pid, send package, acknowledge, end | queued signals with a value, `pause()` |
| FIFO file server, `T7/server.c` | client table, `fd_set`, job queue, threads | command, request, `send_file` in a thread pool | one command FIFO, two FIFOs per client |
| message queue transfer, `src/task_3/mq_posix` | one queue of 3 messages, which outlives the programs | send, receive, end on `quit`, start again | POSIX message queue |
| FIFO transfer, `src/task_3/fifo` | one FIFO, the reader's buffer | write, read, end of stream | FIFO |
| shell, `src/task_1/Tyazhelkov` | the line, the descriptors of a pipeline | parse, fork, wait, close, next, prompt | pipes between commands |
| backup daemon, `src/task_6/tiazhelkov.ve` | watch descriptors, configuration | watch a tree, react to created and modified files | inotify, shell commands |
| token server, `src/task_3/examples/mq_server.c`, `mq_client.c` | the token, the queues it has opened | ask, answer, end | POSIX message queues, one per client and the server's |
| bounded buffer, `src/task_4/examples/10_prod_cons_cond_var.c` | ring buffer, count, two condition variables | insert, remove | shared memory of threads |
| teachers' other examples, `src/task_*/examples` | - | programs of their own | - |

### What is hard about each, and what makes it correct

*Cluster.* Datagrams are lost, delayed and duplicated; a worker announces itself before it listens;
a worker dies at any step; answers, closed and reset connections arrive in any order over several
rounds of `select()`; a five-second limit races a late answer. Correct means: the table and the
answers stay what they are, an answer is counted once, under the entry it was asked from; what is
received as an answer is the integral of the part that was sent, and without a timeout nothing else is
added up; the round ends, and nobody who was
connected is left behind.

*Integration function.* `res_square += square` is a load and a store; the arguments of the threads
lie in the frame of a function that returns; thread creation may fail without anybody looking.
Correct means: no addition is lost, the result is whole, nobody reads a dead frame.

*Transfers.* Correct means the same for all of them, and is stated once (`FileTransfer`): the output
grows along the file, never differs from it, and the transfer ends when the output is the file.
What is hard differs: the semaphores of the shared memory transfer outlive a run and a chunk may
read `quit`; the pipes keep no chunks apart; signals of one kind are merged by the kernel and a
handler may run between any two statements.

*File server.* One thread must never wait for a client although it serves all of them; threads
serve several clients, and one client several times, at once; whatever waits in a FIFO is read by
one `read()`; a client may not open, or leave, its end.

*Backup daemon.* An event carries the name of a file; by the time it is handled the file has changed
again, is gone, or another one has the name. Directories appear while the tree is walked. Correct means:
what the daemon has heard of is saved once it is quiet, and no copy is lost or goes back.

*Shell.* The commands of a line run one after the other, so the pipe between two of them must hold all
that the first writes; or together, if `waitpid()` without its arguments does not wait. Correct means:
the programs between the bars run, each reads all that the one before it writes and sees the end of it, no
descriptor stays open that should not, and the prompt comes back.

*Token server.* Requests and answers pass through queues that outlive their programs; either side may be
killed between two of its calls. Correct means: no token is given twice by one run of the server, and
what a client reads is the answer to what it has asked last.

The full list of hazards, at their lines and with the properties that cover them, is in
`PROJECT.json`.

---

## 2. Modules and code

```
ClusterNet <- Coordinator, Worker <- Cluster <- ClusterInvariant <- MCCluster, ClusterProof
                                        '--(refines)--> ScatterGather
MonteCarlo     <- MCMonteCarlo, SharedMemoryProof        --(refines)--> ParallelSum
SharedMemory   <- MCSharedMemory, SharedMemoryProof      --(refines)--> FileTransfer
DuplexPipe     <- MCDuplexPipe, DuplexPipeProof          --(refines)--> FileTransfer
ChunkTransfer  <- MessageQueue, FifoTransfer \
                                              <- Channels <- MCChannels, ChannelsProof
                                TokenService /    '--(refines)--> FileTransfer
SignalTransfer <- MCSignalTransfer, SignalTransferProof
FileServer     <- MCFileServer, FileServerProof
BackupDaemon   <- MCBackupDaemon, BackupDaemonProof
Shell          <- MCShell, ShellProof
ProducerConsumer <- MCProducerConsumer
```

An arrow `A <- B` reads "B extends A". Every program variable keeps its name where TLA+ allows it.
A definition `X_Something` just before `X` is a *mutant*: the code with a plausible bug in it. It is
no part of any specification.

### The cluster: ClusterNet, Coordinator, Worker, Cluster

`ClusterNet` is the network, external to the repository: copies of datagrams under way (`replies`,
`hello`), and for entry `i` of the server's table its TCP connection, with `link[i]` its state as the
server sees it, `down[i]` what is in the worker's receive buffer, `up[i]` what is in the server's.
Connections and machines are tied together only by the order in which `accept()` takes them from a
backlog (`IsOldest`), as in the code.

`Coordinator` is `server.c`: `spc` says which function the sequential process is in and `k` is the
loop variable of that function.

| `spc` | function | actions |
|---|---|---|
| invite, bind, collect | `send_invite_to_workers`, `rcv_ip_from_workers` | `SendInvite`, `BindReceiveSocket`, `ReceiveReply`, `WindowCloses` |
| split | `split_tasks` | `AddCores`, `SplitDone` |
| connect | `establish_connections` | `ConnectOK`, `ConnectFails`, `ConnectDone` |
| send | `send_task` | `SendTask`, `SendDone` |
| select, scan | `gather_results` | `Select`, `Timeout`, `GatherDone`, `RecvAnswer`, `RecvClosed`, `RecvError`, ... |
| done, failed | `main` has returned, `exit` | |

`Worker` is `worker.c`: `wpc[h]` is the blocking call the worker of machine `h` is at; `Crash` kills
it anywhere. `Compute` stands for the whole of `MonteCarlo`.

A task is the range of strips it covers and its number of points, an answer is the task whose
integral it is: the value of the integral does not matter to any property, *which* integral it is does
to several. `result[i] = {}` stands for the uninitialised double of an entry.

`ScatterGather` is what the task asks of one run (`T8/task.md:16-29`): members join, answers are
collected one by one, the round ends complete, partial or aborted. `Cluster!RoundImplemented` maps the
phases of the server to it.

### The threads: MonteCarlo, ParallelSum

`mpc` and `i` are `monte_carlo`, `tpc[t]` is thread `t` in `square_of_one_square`. Load and store of
`res_square` are two steps; `loaded[t]` is the register in between. `res_square` counts how often each
thread's part was added. `ParallelSum` is the atomic sum a caller wants to see. The specification is
called `MonteCarloSpec`, so that one proof module can extend it together with `SharedMemory`.

### Shared memory: SharedMemory

`cpc`/`spc` are client and server, `full`, `empty`, `mutex` the semaphores, `obj` and `shm` the object.
Copying into and out of the object is byte by byte, so a torn chunk would show. The kernel's objects
stay from one run to the next (`NextRun`): the second one finds all three semaphores at 0 (section 6).
`Delivered(f)` says what the copying makes of a file: `strncpy` pads after a NUL, a short last chunk
has the tail of the chunk before it behind it, a chunk that reads `quit` ends the transfer. The
refinement of `FileTransfer` is stated for `Delivered(file)`.

### Duplex pipe: DuplexPipe

`ppc` and `cpc` are parent and child after the `fork`, `direct` and `back` the pipes as streams of
bytes: a `read()` takes whatever is there, up to the size of the buffer. `plen`, `clen` are the `len`
of the two copies of `struct Pipe`. `Delivered(f)` is the file as `strlen` leaves its last chunk.

### Signals: SignalTransfer

`spc` and `rpc` are sender and receiver; `pending` and `queued` are the kernel's one pending signal of
a kind and its value; a second signal of a kind is dropped. A handler is an action that may happen
between any two steps of its program, also between the installation of the handlers or an acknowledgement
and the `pause()` that follows (`rpc = "back"`, left by `WaitForSignal`; the sender's is `EnterPause`);
`woken` says that one has run during `pause()`, and only this one ends it. The length
and the bytes of a package are two reads of `VAL` (`n` and `VAL.from`), as in the call of `fwrite`.
A package is the range of its bytes in the file.

### File server: FileServer

`mpc`, `ready`, `clients` are `main`: the round of `select()`, the command, the loop over the
table, `reinit_select`. A step of the loop that finds its descriptor not ready changes nothing and is no
step of the model: `ClientRequest` goes on to the next ready one. `tpc`, `job`, `sent` are the threads of
the pool in the system calls of `send_file`: waiting in `open()`, writing, and the end of the file. The pool (a git submodule that is empty here) and the clients (not in the repository) are
external. A client registers once, asks, opens its FIFO when it likes, reads to the end or leaves.

### Backup daemon: BackupDaemon

`dpc` is where the daemon is: in `add_watcher_recursive` (`todo` are the directories still to open,
`dir` the one it is at, `watched` those with an inotify watch), in `monitor_dir` (`batch`: what is left
of the last `read()`), or between two commands of `file_created` and `file_modified`. `find` and `cp`
are two steps, with `filepath` in between: what `find` printed first, or, when it printed nothing, the
name of its own empty output, since `fscanf` then leaves the buffer as it was. `dump[n]` is the entry of
that name in `dump_dir`: a directory with a copy in it, or a plain file, which is what `cp` makes of a
file that was there before the daemon. Users and inotify are external. Contents are
numbered by the changes that make them.

### Message queue, FIFO and token server: ChunkTransfer, MessageQueue, FifoTransfer, TokenService, Channels

`ChunkTransfer` is what the two transfers share: a client that reads a file by chunks (`Read`, `AtEof`)
and a server that appends to its output. In `MessageQueue` a message is a chunk and one byte more
(`spare`), which is what the client sends and the server writes; the queue stays from one run to the
next (`NextRun`, `old`). In `FifoTransfer` the FIFO is a stream of bytes: a read takes what is there, up
to the size of the buffer, and `buf` keeps the bytes of the reads before, past which `strcmp` looks.
`QueueDelivers` (the bytes of `Messages`, what was left and what is sent, before the first that ends the server)
and `FifoDelivers` (the file, without a last chunk that is `TakenForEnd`) say
what the programs make of a file, and the refinement of `FileTransfer` is stated for them.

`TokenService` is the server and the clients of the teachers' example: `asks` is the server's queue, of
names of clients, `own[c]` the queue of client `c`. Between receiving a request (`serving`) and
answering it the server may be killed, and so may a client at any step; names of queues outlive both.

`Channels` puts the three beside each other: a behaviour is one of them (`kind`). The fairness and what
they have in common are stated there, once.

### Shell: Shell

`spc` is `main` and `seq_pipe`; `fds` are the shell's own descriptors from 3 on, each an end of a pipe,
and `p`, `fdin` the variables of `seq_pipe`. `procs` are its children with the ends they hold. The parser
is pure and is modelled on characters, as its hazards are there: `Cuts` and `Word` are the two loops,
`Skip` the two characters a bar costs, `Overruns` a line that makes a length negative. `waits` is the
outcome of `waitpid(NULL)` called without a prototype and with one argument: it waits, or it does not.

### Bounded buffer: ProducerConsumer

What a thread does between lock and unlock is one step; if it sleeps in between it goes on, when it
is woken, without another test.

---

## 3. Runs and bounds

Every property of a passing run has a mutant of the code that the run refutes.

| run | instance | states | checks |
|---|---|---|---|
| `cluster` | 2 machines with 1 and 2 cores, table of 3, 2 duplicated datagrams, machine h1 may be killed | 74 836 | everything said of the cluster, safety and liveness |
| `monte_carlo` | 4 threads, 1 creation may fail | 6 556 | arguments outlive the threads, refinement of the atomic sum with termination |
| `shmem` | chunks of 2 bytes, files up to 5 bytes over {letter, NUL, `quit`}, 2 runs | 125 745 | alternation, refinement, ends |
| `duplex` | chunks of 3 bytes, pipes of 6, files up to 7 bytes | 43 936 | ping-pong, refinement, same sums, ends |
| `signals` | files up to 14 bytes, buffer of 4 | 13 610 | order, loss |
| `fileserver` | 2 clients, 2 threads; c1 reads and may ask twice, c2 once; a file of 2 pieces, one that is missing, FIFO of 1, one unknown command, `OFF`, wrong request or early leave | 186 289 | routing, order, no blocking read, what is first in a FIFO is carried out, readers are served |
| `backup` | 3 directories in a chain, 3 files, two of the same name, 3 changes, any copies of an earlier run | 971 369 | saved when quiet, nothing unseen, copies kept |
| `channels` | chunks of 2 bytes, files up to 4 bytes, a queue of 1 message, a FIFO of 3 bytes, 2 runs; 2 clients of the token server with 3 requests each, 4 descriptors, any client and once the server killed | 49 623 | refinement, ends, tokens in a row, one request under way, requests answered |
| `shell` | all lines of up to 4 characters over {a, b, space, bar}, pipelines of 2, 3 and 4 commands, then a second line; outputs of 1 and 2 units, pipes of 1 | 63 803 | parsing, whole inputs, descriptors, the prompt |
| `cluster_silence`, `signals_ends`, `prodcons_any` | 2 machines; files up to 4 bytes; 1 producer, 2 consumers, a buffer of 2 | | one disagreement each, section 6 |

Why the bounds are enough:

* *cluster.* A table of three entries for two machines is overfilled by four datagrams (two replies
  and two duplicates), holds a machine twice (the second connection waits in a backlog nobody empties)
  and an ordinary second worker. With two entries of different machines answers overtake each other
  and an entry is read, reset or closed in any order. The datagrams of the two machines are symmetric
  but for their cores, so one that may crash and one that may not give all combinations of one failure.
* *monte_carlo.* Two threads suffice for a lost update; four let one be refused in any place while
  others are in the mutex.
* *shmem.* A file of five bytes has two full chunks and a short one; NUL and `quit` can be in every
  place; a second run sees what a first of any outcome has left. Chunks of two bytes are the smallest
  that hold `quit` (one symbol) and its NUL.
* *duplex.* Seven bytes in chunks of three: two full chunks and a short one with NUL in every place.
* *signals.* 14 bytes in buffers of four are packages of 3, 1, 3, 1, 3, 1, 2 bytes: lengths change from
  package to package as in the real program at the end of each `fread`, and there are enough of them
  for the sender to run ahead, lose a package and catch up.
* *fileserver.* The file is larger than the FIFO, so a thread really blocks in the middle; two requests
  of one client meet in two threads; the table grows while a set is in use; one client may never
  read, so that one thread waits for ever. No symmetry is used, since liveness is checked.
* *channels.* Up to four bytes are two full chunks, or a full one and a short one; a chunk can read `quit`
  with and without the byte that keeps it from ending the transfer; a queue of one message makes the client wait at
  each step; the FIFO holds a whole chunk and a last one of one byte, so the writer can be ahead of the reader and
has to wait for room in front of a second whole chunk. A read that returned parts of two chunks is possible
for a FIFO, but never happens here, as `StreamInv` shows (section 5). Three requests
  of two clients need more descriptors than the four the server has.
* *shell.* Four characters hold two bars at each distance from each other and from the ends; four commands
  are what the table of `10_exec_pipes.c` lists; an output of two units does not fit into its pipe.
* *backup.* Three changes are what a race needs: one that is reported, one between `find` and `cp`, one
  after it; three directories let one be made at each point of the walk. A name that two files share and
  one that is a file's own are both there.

Bounds are constants of the modules (`MaxDup`, `MaxChanges`, `MaxRefused`, `MaxLength`, `MaxRuns`, `MaxSize`, `Gets`,
`MaxNoise`) and each is named where it is declared. Deadlock is not checked, as all these programs end
and the models then have no step left; that they do not stop *before* their end is what the liveness
properties and the refinements are about. The other bounds of the new modules are `MaxAsks`, `MaxKills`,
`Lines` and `Count`.

What the properties say, beyond the comment above each of them:

* `AnswerIntegrity`, `TableOnlyGrows`: the table, the sockets and the
  `fd_set` of `gather_results` stay in step. Every answer received is the integral of the part sent, and
  a gathering without a timeout adds up an answer of every entry and nothing else. After a timeout
  `gather_results` (`T8/src/server.c:304-306`) also adds the results of the entries that have not answered,
  which were never written; no property speaks of the sum then.
* `RoundImplemented`: the two ways a gathering may end mean what they say - complete with every answer,
  partial with one missing - and the server comes to its end whatever is lost or dies.
* `NoNaNSummed`, `StripsWithinTask`: the divisions and indices are safe, and a worker that read end of
  stream instead of a task (and computes 0.0/0.0) never gets its answer added.
* `ServedWorkerEnds`, `NoWorkerLeftBehind`: a worker that has accepted a connection ends, since the server sends
  it a task or comes to one of the ends the model has (a refused `connect`, a complete gathering, a timeout) and
  its sockets are closed; and so does every registered worker, accepted or not, once `main` has returned. A server
  that is killed, or whose machine fails, is not modelled.
* `ReadsDontBlock`: the set of one `select()` is used for a table that has grown since.
* `LossIsLone`: packages *are* lost in task_5, but of two in a row one is written, and the last one
  missing at the end is at most one.
* `QuietMeansSaved`: although events are merged by the kernel, carry only names and are handled late.
* `NothingUnseen`: a directory made during the walk is listed or reported, because the watch comes
  before the listing. One made after it is reported but never watched (section 6).
* `CopiesKept`: a copy inside its directory survives the deletion of its file, and is never replaced by
  an older content unless two files share the name.
* `EndIsEndOfFile`: a client may take the end of stream for the end of its file.
* `MainServes`: although threads wait for clients that never read, `main` carries out the message that is first in
  a FIFO - a registration gets into the table, a request into the queue of the pool - unless the server ends. What the same `read()`
  takes behind it is thrown away (`T7/server.c:69-71`, 99-102) and is not covered.
* `ReadersServed`: a client that reads gets its file as long as a thread is left and the server runs.
* `NoBrokenPipe`: the test for `quit`, on a stream that keeps no chunks apart, never ends the reader early.
* `OneUnderWay`: a client of the token server never reads the answer to an earlier request.
* `Answered`: a request that a killed server has left in its queue is answered by the next one.
* `WholeInput`, `OnlyWriterHolds`: a filter ends when, and only when, the program before it has written all.
* `DescriptorsReused`: the list at the head of `10_exec_pipes.c`, and the one descriptor each line leaks.
* `EndedFits`: the price of waiting before the reader starts - only outputs that fit into a pipe ever end.

---

## 4. Fairness

| specification | weak fairness of | because |
|---|---|---|
| `Cluster!Spec` | each step of the server; what a started worker does | the kernel schedules running processes, and the five-second limits do elapse |
| `MonteCarlo!MonteCarloSpec` | `monte_carlo`, each thread | the kernel schedules threads; a free mutex is taken by somebody, and a thread takes it once, so no thread is starved |
| `SharedMemory!Spec`, `DuplexPipe!Spec`, `SignalTransfer!Spec` | both programs | the kernel schedules both |
| `Channels!Spec` | client and server of the transfer; the token server while it runs, a client that waits for its token | the kernel schedules them |
| `Shell!Spec` | the shell within a line, each program | the same; the user need not type |
| `FileServer!Spec` | `main`, each thread of the pool, and of the clients only those in `Readers` | a client need not read; properties about a client that does are stated for `Readers` |

`BackupDaemon!Spec` and `ProducerConsumer!Spec` state safety only and have no fairness. Nothing obliges anybody to start a worker, the network to deliver, lose or duplicate, a worker to be
killed, a second run or a token server to be started, or a client to register, ask or leave. No strong fairness is assumed
anywhere.

`SharedMemory!BothEnd` is stated for the first run and for a server that found the object: what
happens otherwise is in section 6, and a crash on an unmapped address. `DuplexPipe!BothEnd` is stated for
files whose chunks are all answered, `Channels!BothEnd` for a client whose last messages find room;
`ReadersServed` for a server that is still running and a client with one request; `PromptComesBack` for
outputs that fit into a pipe, or a `waitpid()` that does not wait.

---

## 5. Proofs

The theorems hold for every value of the constants that satisfies the assumption of the module. The
assumptions are as weak as the code justifies, and TLC evaluates them on every run:

| assumption | says |
|---|---|
| `ClusterAssumption` | cores are 1 to `MaxCores`; there are at least as many points as a full table has cores (the code has 100000 points, 10 entries and 8 cores); `NoHost` is no machine |
| `MonteCarloAssumption` | the counts are numbers |
| `SharedMemoryAssumption` | a chunk has room for `quit` and its NUL; those two are no letters |
| `DuplexAssumption` | the same for `exit`; a pipe holds a chunk (`PIPE_BUF`) |
| `SignalAssumption` | the buffer is not empty |
| `FileServerAssumption` | a missing file has -1 pieces, an rx FIFO holds one at least; the words for commands are no clients |
| `BackupAssumption` | every directory but the root has a parent; names of files are no directories |
| `ShellAssumption` | lines are sequences of characters; an output is a number of units, a pipe holds one at least; filters are programs |
| `ChunkAssumption`, `QueueAssumption`, `FifoAssumption` | a chunk has room for `quit` and its NUL, a queue for a message, a FIFO for a chunk (4095 is below `PIPE_BUF`); `NoQueue` is no queue |
| `TokenAssumption` | the limits are numbers, a queue holds one message; `nobody` is no client |

In each module `Invariance` is the theorem that the inductive invariant holds in every state (`ThreadsInvariance`
for `monte_carlo`); the others are drawn from it. The parts of each invariant were checked by TLC on the
instance of its run before they were proved.

### The cluster (`ClusterProof`)

`AnswerIntegrity` and the others are not inductive: nothing in them says what is in a socket buffer, nor
which worker holds which connection. `ClusterInvariant!IInv` follows the *unit of work* of connection
`i`: it is in one place only - not yet sent, in the worker's buffer, in the hands of the one worker that
has accepted `i`, in the server's buffer, in `result[i]` - (`OnePlaceInv`, `JobInv`) and it is
always the work of `TaskFor(i)` (`WorkInv`), which is fixed before the first task is sent because table
and total are (`PhaseInv`, `TableInv`). `TotalInv` bounds the number of strips from both sides by the
cores added so far, from which the index and the number of points follow (`StripsWithinTask`,
`NoNaNSummed`; the products need two small lemmas about division). The invariant is also checked by TLC.

Proved from it: `TypeCorrect`, `AnswersIntact`, `AnswersCountedOnce`, `CompleteOrTimedOut`, `NoNaNInSum`,
`StripsInBounds`, `OneWorkerSuffices`, `TableIsKept` (an action property) and `RoundRefinement`: each
step of the cluster is a step of `ScatterGather` or a stutter (`RoundSteps`, the safety part).

### The threads (`SharedMemoryProof`, second part)

`OwnerInv`: whoever is between lock and unlock is the owner, and what it has loaded is still the value of
`res_square`. `MainInv`: which threads exist, and which are known to be over, by the progress of `main`.
`WholeSumReturned` and `ArgsAlive` follow from the second, `NoUpdateLost` is inductive together with the
first, and `SumRefinement` uses all of them.

### Shared memory (`SharedMemoryProof`, first part)

`TokenInv`: `full + empty +` (client between wait and post) `+` (server between wait and post) is at most
1. It is *at most*, not exactly, because the break on `quit` takes the token out of circulation, and so
it holds over any number of runs. `TurnsAlternate` follows. The type invariant carries the arithmetic of
chunks: no index leaves the object or the file.

`TransferRefinement` says that each run implements `FileTransfer` for `Delivered(file)`, which is the *images* of
the chunks one after the other, up to the first that reads `quit`. The image of a chunk is what `strncpy` makes of
the object: the chunk up to its NUL and NULs after it, the old bytes kept behind the end of a short last one.
`OutputInv` is the invariant: after `q` images the object holds image `q` (`Held`), or the client is filling it with
the next and the first `ci` bytes are there (`Filling`), or the server is emptying it and the output ends `si` bytes into
the image (`EmptyingChunk`). A byte of the output is addressed by its chunk and its place in it (`Written`), so
no fold and no induction is needed, but a lemma on division (`Division`); that `quit` comes at a least number of
a chunk is the well-foundedness of the numbers (`HasLeast`). A later run finds a semaphore at 0 and no turn
(`LaterRunInv`): its output stays empty, and `NextRun` is `Again`.

### Signals (`SignalTransferProof`)

`OrderInv`: what is written, what is in `VAL` and still to be written, what is queued and what has been
sent follow each other in the file. The subtle part is the window between `fwrite` and `WRITE = 0`: a
package that arrives there is about to be forgotten with its `WRITE`, so it does not count as still to
be written (`Unwritten`). `WrittenInOrder` follows.

`LossesAreLone` needs an argument about how far the sender can run ahead. The transfer is seen as a
game with two tokens, the sender's first turn and the SIGINT that carries its pid: a token goes round as
a signal at the receiver, a round of its loop, an acknowledgement, the sender's turn, and is lost when
signals merge or are handled outside `pause()`. `Free` counts those that can reach the sender before the
receiver writes again, `Behind` the packages the sender is ahead, and `Behind + Free <= 2` (`TokenInv`)
in every state. So what is written next is the first or the second of what is missing (`ChainInv`), and at
the end the receiver's own round is a free token, so at most one package is.

### Duplex pipe (`DuplexPipeProof`)

`PingPong`: at most one of parent, `direct`, child and `back` has the chunk, and the parent has its
`len` back at the full size whenever it sends. `EchoInv`: for a file that `strlen` leaves whole, what
has been read of the file is what was written plus what is away. From them `ChunksApart` (no chunk is
ever appended to another in a pipe, so a `read()` gets exactly one) and `SumsAgree` (a text file, or
a file of whole chunks, comes back unchanged, whatever its size - what `test_prog.sh:14` compares).

`TransferRefinement` does without the condition on the file. `RoundInv` says where chunk `q` is - in `direct`,
with the child, in `back`, or with the parent (`Home`, `UnderWay`) - that all before it were answered
(`AnsweredTo`), and that the output is what was sent of these (`Upto`). No fold is needed for it: only a last, short
chunk is cut by `strlen`, so what comes back of `n` chunks is the file up to the n-th and what is sent of that one.
The data of the child outlives a short message (`Before`, `Image`), and decides whether it reads `exit`.
The last chunk that is answered is the one before the first that is not, a least number.

### File server (`FileServerProof`)

`TableInv` (a client is in the table once, has registered, and is not in it while its command is unread)
and `ReadyInv` (the loop over the table comes after the command FIFO) give `MainNeverBlocks`: emptying the
FIFO of one entry cannot make another ready entry empty, since they are different clients, and an entry
that is added after `select()` does not move those before it. For `Routed` the request is
followed through everything that holds it - request FIFO, queue of the pool, arguments of a thread, rx
FIFO, what was read - each of which names a file its client has asked for (`RouteInv`); `asked` only grows.

`PiecesInOrder` and `EndOfStreamIsEndOfFile` are about a client with one request (two requests do mix,
section 6) and need to know where that request is. `PlaceInv`: it is in the request FIFO, in the queue of the
pool or with a thread, in one of them and once. `FreshInv`: as long as no thread has both files open, nothing of
the file is on the way - otherwise a thread that starts would append a first piece to something. `SentInv` and
`FlowInv`: what is in the rx FIFO and what was read before it, as one sequence, is a run of consecutive
pieces, and the thread that writes has sent exactly the last of them. A client that leaves and opens its
FIFO again loses what was in it, so the run need not begin at 1; `WholeInv` says that it does when
nobody has left early, and that the run is the whole file once the thread has closed it. Together they
are `OneInv` (`OneRequestInvariance`).

### Backup daemon (`BackupDaemonProof`)

`PendingInv` is the heart of it: a file the daemon has heard of is saved as it is, or has an event that is
still to be read or handled, or is the one that is being handled. Between `find` and `cp` it needs
`FoundInv`: a file of that name that `find` has not printed is newer than its event, and so has an event of
its own. `ScanInv` follows the directories through the walk (reported, still to be listed, still to be
opened) and gives `NoneUnseen`; `AgeInv` bounds every copy by its file's content and gives `CopiesAreKept`.

### Shell (`ShellProof`)

The invariant follows the ends of the pipes. The j-th child is the one forked with the j-th pipe: it holds the
write end of that pipe, and no other child does (`ProcInv`), because the shell has closed its own by the time
it forks the next (`FdInv`). From these two follows `WriterAlone`. What goes through a pipe is in three
places, with its writer (`left`), in it (`held`) or with its reader (`took`), and adds up to the output of the
program (`FlowInv`). A filter ends when its pipe is empty and nobody can write to it; the one who could has
ended, so it has nothing left, or was killed, which needs that nobody could read (`KillInv`) - but the
filter could. This is `FilterReadsAll`. `RunInv` (with a `waitpid()` that waits only the last child runs)
gives `OnlyFittingEnd`.

The numbers of `TwoPipesAtATime` come from counting: `CountInv` says how many descriptors the shell has by
where it is and how many lines it has read, `FirstLineInv` which numbers they are for the first line.
`pipe()` gives the lowest free numbers (`Free`); that there are two is shown by counting, too: the
interval they are looked for in has two numbers more than are taken (`FreeFacts`).

For `ParsesAsWritten` the loop of `parse_cmdline` is `Bars`, a function of how many characters it has seen: that there
is such a function for a line of any length (`BarsExist`) and that it gives bars and nothing else, in their order
(`BarsAre`), is shown by the least number of characters for which it is not so. Behind each bar `parse_cmdline` skips
two characters; that the second is a space changes nothing, as `strtok` skips it as well (`SpaceSkipped`: the first
word of a string is the same with a space before it). `ParseInv` keeps the result until the next prompt.

### Queue, FIFO and token server (`ChannelsProof`)

For the FIFO the question is whether the reader may take a piece of the stream for `quit`, since the FIFO
keeps no chunks apart. It does so only if a `read()` returns those four bytes and no more (one symbol of the
model), and `StreamInv` says why only the last chunk can be that short: until the last chunk is in the FIFO
it holds whole chunks (`Whole`), each read takes a whole chunk of it, and so what remains is whole chunks.
`ReaderStays` follows. `CopyInv` (output and FIFO together are what has been read of the file) gives
`FifoCopiesFile`: the output is the file, but for a last chunk that reads `quit`. When that one is lost and when not
depends on the byte behind it, which `strcmp` reads from the chunk before: `BufferInv` follows where the reader is
in the file (at the end of a chunk, until it has all) and which byte of the file `buf[2]` is
(`FifoBufferInvariance`). From it each read is `Receive`, and the one that reads `quit` or the end of the stream
is `End`, for `FifoDelivers`. For both transfers no index
leaves the file or its chunks (`ReadIs`, `PosInv`), and the queue is there for whoever uses it (`QueueInv`).

The messages of the queue have different lengths, and some of them come from an earlier run, so the output cannot
be addressed by chunks. `MessageInv` counts messages instead: `Handed` is how many of `Messages` the client has
handed to the queue, with those the run began with, and for some `r` the queue is `Messages` from `r + 1` to
`Handed` and the output the bytes of the first `r` (`Taken(r)`). A `mq_send` moves `Handed`, a `mq_receive` moves `r`,
the first message that ends the server is the `QuitAt`-th (`QuitAtIs`), and a new run begins with `r = 0` and the old
queue as `old` (`FreshRunIs`). That the bytes of the first `r` messages, `Joined`, are there for any number of
messages, are a sequence of bytes, and are a prefix of those of more messages needs induction on the number of messages.
It is done with the least number that fails, which the well-foundedness of the numbers gives (`HasLeast`;
`JoinedExist`, `JoinedIs`, `JoinedPrefix`). `TransferRefinement` then covers every transfer of the module: a receive
is `Receive`, or `End` when the message says `quit`; a client that finds no queue is `Fail`; `NextRun` is `Again`.

For the token server `AnswersFit` is inductive once requests and answers are counted over all the places they
can be in: the server's queue (`In`, with lemmas on what `Append` and `Tail` change of the count), the
server's hands, the client's queue. `Ask` is the only step that adds one, and only for a client that has
none; a killed client keeps the one it has. It also needs that a server that is off has nobody in its
hands (`OffInv`).

### Only model-checked

* All liveness (`RoundImplemented` and `SumImplemented` with their fairness, `ServedWorkerEnds`,
  `NoWorkerLeftBehind`, `MainServes`, `ReadersServed`, `Answered`, `PromptComesBack`, every `BothEnd`): liveness
  under fairness and `ENABLED` are beyond the prover.

The models walk through a file by steps and not by recursion. Where a theorem needs induction after all, on the messages
of a queue or the characters of a line, it takes the least counterexample (`HasLeast`).

---

## 6. Disagreements found

Each run below is expected to fail, and its counterexample is a run of the code.

1. `cluster_silence`: the `fd_set` is filled once, before the loop (`server.c:250-256`), and `select()`
   removes what is not ready (268). A worker that is slower than another is never looked at again; the
   server reports "No additional responses received" with its answer in the socket.
2. `signals_ends`: `pause()` is called after the signal it waits for may have been handled
   (`sig_rcv.c:51`, `sig_snd.c:53,60`). Each counterexample of `TransferGoesOn` ends with both processes in `pause()` and no
   signal pending. The shortest needs a file of one byte only: the receiver handles the SIGINT and the package
   after it has installed its handlers and before its first `pause()`, and nothing is written. In another it
   handles both during one `pause()` and acknowledges once, which the sender handles before its own. (With SIGUSR2
   handled before `pause()` only the receiver sleeps; the sender has ended.)
3. `prodcons_any`: `pthread_cond_wait` stands behind `if` (`10_prod_cons_cond_var.c:44,66`). With more
   than one consumer, which the comment at line 25 allows, one that is woken finds that another has emptied the
   buffer, and takes from it all the same. With one producer and one consumer, as `main` starts them,
   the count stays within the buffer.

The models also have behaviours that contradict a task and that no run of its own shows:

* *cluster*: `task_number` in `send_task` (`T8/src/server.c:228`) is never advanced (`FirstStrip`), so each
  worker integrates from strip 0 and with two workers or more the last strips are given to nobody, while
  `task.md:22-25` divides the task among the workers. With one worker the result is right
  (`OneWorkerIsRight`, proved).
* *shmem*: a run ends with all three semaphores at 0 and nobody unlinks them, so the next run, whose comments
  say "initialize all sems", waits for ever; the server writes `SIZE` bytes for each chunk, so a file whose length is no multiple of
  `SIZE` gets a tail (`Delivered`, `Image`); text after a NUL in a chunk is lost.
* *signals*: packages are lost although nothing goes wrong (`LossIsLone` says how many), and one may be
  written with the length of another (`sig_rcv.c:53`, `n` against `VAL.len`).
* *file server*: two registrations that wait in the command FIFO together are read at once and only the first
  is parsed (`T7/server.c:69-71`); four clients that ask and do not read take all four threads of the pool
  (`T7/server.c:31,129`), against `task.txt:26`; no `ACK` is sent, against `task.txt:11`; two requests of a client
  that arrive together are read as one, and two that are served at once are mixed in one FIFO.
* *backup daemon*: a directory made after the walk is never watched; the plain copy of a file that was
  there before the daemon becomes empty when an event is handled after the file has gone; two files of
  one name overwrite each other's copy; what changes between `diff` and `cp` is in no diff; a renamed
  file is not reported, as `IN_MOVED_TO` is not asked for; the handler that should have the configuration read
  again is never installed.
* *message queue*: each message has one byte more than was read, and the server writes it, so the output
  has a byte for every chunk that the file has not; messages left in the queue come first in the next run.
* *FIFO*: a last chunk that reads `quit` may be lost.
* *token server*: a request that the killed server had received is never answered; after as many answers as
  the process may open queues the server answers nobody, as `mq_open` is compared with 1 (48).
* *shell*: a command that writes more than a pipe holds stops the shell for ever; a bar without a space
  after it swallows a character; every line leaks one descriptor.
* *duplex pipe*: the tail after a NUL in a short last chunk is lost, a chunk that starts with NUL or
  reads `exit` stops both processes, and `data[num]` of a full chunk is one past the buffer.

---

## 7. Not modelled

* **Undefined behaviour outside a buffer**: the 65th client (`T7/server.c:162`), an rx name of eight
  characters or more (163), `data[num]` of a full chunk (`task_2/.../main.c:79`). Their outcome
  depends on the layout of memory.
* **Failing resource calls** that end a program at once (`socket`, `pipe`, `calloc`, `mmap` out of
  memory), except where a sibling process goes on and is affected: a refused `connect`, a
  `pthread_create` that fails, an object that does not exist yet, a file that does not exist.
* **Data**: the random points and their sum, bytes other than NUL and the end words, file names, the format of
  messages. A datagram, a task and an answer arrive whole: each is one `write()` smaller than a segment.
* **Time**: a limit may elapse at any moment at which the code waits for it; sleeps are no steps, since
  any other process may do anything between two steps anyway.
* **A short message completed by old bytes.** `strcmp` with `quit` or `exit` reads past a message of less than five bytes
  into what an earlier one has left there (`mq_server_posix.c:34`, `shmem_server_posix.c:32`, `task_2/.../main.c:56`), so
  that a last chunk `qu` may be taken for the end. The end word is one symbol in `MessageQueue`, `SharedMemory` and
  `DuplexPipe`, which cannot be completed so. The FIFO's reader asks for four bytes (`fifo_reader.c:24`) and is not affected.
* **Other programs' signals** to `sig_rcv`, and a client of the file server that is killed.
* **Backup daemon**: detaching from the terminal, the text of the commands, what `diff` writes (nothing reads
  it), renames, directories that are removed, a `dump_dir` inside the watched tree, a queue of events that
  overflows, more than 100 directories (`inotify_wds`, `daemon.c:51,101`).
* **Shell**: the arguments of a command (they are read and left out), a `pipe()` that fails, a line longer than
  the buffers, `execvp` of a program that reads the terminal.
* **The other examples of the teachers** (`src/task_*/examples`): single calls shown one at a time (`fork`,
  `getopt`, `stat`, `strtok`, `brk`), threads without any order to state, or servers and daemons of which the
  modelled programs are the worked-out form. Nothing else uses them.

Hazards that the list of `PROJECT.json` merges with a neighbour or leaves out because a neighbour bites
harder: SIGUSR2 handled before `pause()` (with the other signals at `sig_rcv.c:51`), requests that arrive together (with
`T7/server.c:69`), a client that leaves early (with 137), the 100 watch descriptors of the daemon, a dump
directory inside the watched one. `kill` with a `SND_PID` of 0 (`sig_rcv.c:62`) does not happen: `pause()` returns only after all
signals that are due have been handled, SIGINT is the first that is sent and is handled before SIGUSR1.

---

## 8. Plan

Done: every program the repository's tasks ask for is modelled and checked. Every safety invariant that a passing
run checks is proved for every value of the constants; so are the action properties and the refinements of
`FileTransfer`, and of `ScatterGather` and `ParallelSum` without their fairness. What no theorem says is liveness.

What is worth doing next:

1. The worker's `Compute` refined by `MonteCarlo` in one specification.
