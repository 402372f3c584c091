----------------------------- MODULE FileServer -----------------------------
(***************************************************************************)
(* src/task_7/tiazhelkov.ve/server.c: a file server over FIFOs.  Clients   *)
(* register through the server's command FIFO; main waits in select() for  *)
(* commands and for the requests in the clients' tx FIFOs, and hands every *)
(* request to a pool of threads (C-Thread-Pool), which write the file into *)
(* the client's rx FIFO.                                                   *)
(*                                                                         *)
(* The clients are not in the repository: they do what the server and      *)
(* task.txt expect of one.  A client registers once; its request FIFO is   *)
(* open from then on; it opens its rx FIFO to read when it likes, reads    *)
(* until the end of the stream or leaves early.  A file is a number of     *)
(* pieces of BUF_SIZE bytes; all messages that wait in a FIFO fit into one *)
(* read().                                                                 *)
(***************************************************************************)
EXTENDS Integers, Sequences, FiniteSets

CONSTANTS
  Client, Thread,
  File,       \* the names clients ask for
  Pieces,     \* Pieces[f]: the pieces of file f; -1 if there is no such file
  PipeSize,   \* pieces an rx FIFO holds
  Readers,    \* the clients that read what they have asked for
  Gets,       \* bound: Gets[c] requests of client c
  MaxNoise    \* bound: commands, requests and names the server does not
              \* know, and clients that leave early

ASSUME FileServerAssumption ==
  /\ Pieces \in [File -> Nat \cup {-1}]
  /\ Readers \subseteq Client /\ Gets \in [Client -> Nat]
  /\ PipeSize \in Nat \ {0} /\ MaxNoise \in Nat
  /\ "off" \notin Client /\ "noise" \notin Client \cup File

Idle == [dest |-> "none", file |-> "none"]

VARIABLES
  mpc,       \* where main is: "select", "command", "clients", or how the process ended
  ready,     \* of the fd_set what main has not come to yet: 0 is the command
             \* FIFO, j the tx FIFO of clients[j]
  clients,   \* the table, a sequence of clients (client_num is its length)
  cmds,      \* the command FIFO: a client means its REG
  tx,        \* tx[c]: the request FIFO of client c
  jobs,      \* the queue of the thread pool
  tpc, job,  \* where every thread is, and its send_file arguments
  sent,      \* pieces it has written
  rx,        \* rx[c]: what is in the FIFO to client c
  reading,   \* the client's end of it: "no", "opening" or "open"
  got,       \* what the client has read since it opened its end
  ended,     \* how many streams it has read to their end
  registered, asked, noise   \* what the clients have sent

mainVars   == <<mpc, ready, clients>>
threadVars == <<tpc, job, sent>>
clientVars == <<reading, got, ended, registered, asked, noise>>
vars == <<mainVars, cmds, tx, jobs, threadVars, rx, clientVars>>

Running == mpc \in {"select", "command", "clients"}
Piece   == [file : File, n : Nat]
Job     == [dest : Client, file : File]

TypeOK ==
  /\ mpc \in {"select", "command", "clients", "exited", "aborted", "killed"}
  /\ ready \subseteq 0 .. Len(clients)
  /\ clients \in Seq(Client)
  /\ cmds \in Seq(Client \cup {"off", "noise"})
  /\ tx \in [Client -> Seq(File \cup {"noise"})]
  /\ jobs \in Seq(Job)
  /\ tpc \in [Thread -> {"idle", "open", "write"}]
  /\ job \in [Thread -> Job \cup {Idle}]
  /\ sent \in [Thread -> Nat]
  /\ rx \in [Client -> Seq(Piece)]
  /\ reading \in [Client -> {"no", "opening", "open"}]
  /\ got \in [Client -> Seq(Piece)]
  /\ ended \in [Client -> Nat]
  /\ registered \subseteq Client
  /\ asked \in [Client -> Seq(File)]
  /\ noise \in Nat

(* server_init has made both FIFOs, the pool's threads wait for work. *)
Init ==
  /\ mpc = "select" /\ ready = {0} /\ clients = <<>>
  /\ cmds = <<>> /\ tx = [c \in Client |-> <<>>]
  /\ jobs = <<>>
  /\ tpc = [t \in Thread |-> "idle"] /\ job = [t \in Thread |-> Idle]
  /\ sent = [t \in Thread |-> 0]
  /\ rx = [c \in Client |-> <<>>]
  /\ reading = [c \in Client |-> "no"] /\ got = [c \in Client |-> <<>>]
  /\ ended = [c \in Client |-> 0]
  /\ registered = {} /\ asked = [c \in Client |-> <<>>] /\ noise = 0

---------------------------------------------------------------------------
(* The clients (external). *)

Register(c) ==
  /\ Running /\ c \notin registered
  /\ registered' = registered \cup {c}
  /\ cmds' = Append(cmds, c)
  /\ UNCHANGED <<mainVars, tx, jobs, threadVars, rx, reading, got, ended, asked, noise>>

InTable(c) == \E j \in 1 .. Len(clients) : clients[j] = c

(* open() of the request FIFO returns when the server has opened it too. *)
Get(c, f) ==
  /\ Running /\ InTable(c) /\ Len(asked[c]) < Gets[c]
  /\ tx' = [tx EXCEPT ![c] = Append(@, f)]
  /\ asked' = [asked EXCEPT ![c] = Append(@, f)]
  /\ IF Pieces[f] = -1 THEN noise < MaxNoise /\ noise' = noise + 1 ELSE noise' = noise
  /\ UNCHANGED <<mainVars, cmds, jobs, threadVars, rx, reading, got, ended, registered>>

(* A command nobody knows, the command OFF, a request nobody knows.          *)
SendCommand(m) ==
  /\ Running /\ noise < MaxNoise /\ noise' = noise + 1
  /\ cmds' = Append(cmds, m)
  /\ UNCHANGED <<mainVars, tx, jobs, threadVars, rx, reading, got, ended, registered, asked>>

WrongRequest(c) ==
  /\ Running /\ InTable(c) /\ noise < MaxNoise /\ noise' = noise + 1
  /\ tx' = [tx EXCEPT ![c] = Append(@, "noise")]
  /\ UNCHANGED <<mainVars, cmds, jobs, threadVars, rx, reading, got, ended, registered, asked>>

(* Thread t has the FIFO to client c open. *)
Writes(t, c)  == tpc[t] = "write" /\ job[t].dest = c
NoWriter(c)   == \A t \in Thread : ~Writes(t, c)

(* open() of the rx FIFO waits for a thread that has it open. *)
OpenToRead(c) ==
  /\ Running /\ reading[c] = "no" /\ ended[c] < Len(asked[c])
  /\ reading' = [reading EXCEPT ![c] = IF NoWriter(c) THEN "opening" ELSE "open"]
  /\ got' = [got EXCEPT ![c] = <<>>]
  /\ UNCHANGED <<mainVars, cmds, tx, jobs, threadVars, rx, ended, registered, asked, noise>>

ReadPiece(c) ==
  /\ reading[c] = "open" /\ rx[c] # <<>>
  /\ got' = [got EXCEPT ![c] = Append(@, Head(rx[c]))]
  /\ rx' = [rx EXCEPT ![c] = Tail(@)]
  /\ UNCHANGED <<mainVars, cmds, tx, jobs, threadVars, reading, ended, registered, asked, noise>>

(* read() gives 0: nothing is left and no thread has the FIFO open.           *)
EndOfStream(c) ==
  /\ reading[c] = "open" /\ rx[c] = <<>>
  /\ ~Running \/ NoWriter(c)
  /\ reading' = [reading EXCEPT ![c] = "no"]
  /\ ended' = [ended EXCEPT ![c] = @ + 1]
  /\ UNCHANGED <<mainVars, cmds, tx, jobs, threadVars, rx, got, registered, asked, noise>>

(* The client closes its end before the stream has ended.  What is in a FIFO  *)
(* is gone when both its ends are closed.                                     *)
Leave(c) ==
  /\ reading[c] = "open" /\ noise < MaxNoise /\ noise' = noise + 1
  /\ reading' = [reading EXCEPT ![c] = "no"]
  /\ rx' = IF NoWriter(c) THEN [rx EXCEPT ![c] = <<>>] ELSE rx
  /\ UNCHANGED <<mainVars, cmds, tx, jobs, threadVars, got, ended, registered, asked>>

ClientReads(c) == OpenToRead(c) \/ ReadPiece(c) \/ EndOfStream(c)

ClientStep ==
  \/ \E c \in Client : Register(c) \/ ClientReads(c) \/ Leave(c) \/ WrongRequest(c)
  \/ \E c \in Client, f \in File : Get(c, f)
  \/ \E m \in {"off", "noise"} : SendCommand(m)

---------------------------------------------------------------------------
(* main *)

(* A descriptor of the set has something to read.  The mutant: select() leaves *)
(* the set as it is.                                                          *)
Pending_Always(j) == TRUE
Pending(j) == IF j = 0 THEN cmds # <<>> ELSE tx[clients[j]] # <<>>

(* select() waits for a descriptor of the set and leaves the ready ones in it. *)
Select ==
  /\ mpc = "select"
  /\ \E j \in ready : Pending(j)
  /\ ready' = {j \in ready : Pending(j)}
  /\ mpc' = IF 0 \in ready' THEN "command" ELSE "clients"
  /\ UNCHANGED <<clients, cmds, tx, jobs, threadVars, rx, clientVars>>

(* server_cmd: read() takes all that is in the FIFO, sscanf looks at the      *)
(* first command only.  add_client opens the client's FIFO.                   *)
ServerCmd ==
  /\ mpc = "command"
  /\ ready' = ready \ {0} /\ cmds' = <<>>
  /\ mpc' = IF Head(cmds) = "off" THEN "exited" ELSE "clients"
  /\ clients' = IF Head(cmds) \in Client THEN Append(clients, Head(cmds)) ELSE clients
  /\ UNCHANGED <<tx, jobs, threadVars, rx, clientVars>>

(* client_request for client c: read() takes all requests, sscanf looks at the  *)
(* first only, a GET becomes a job of the pool.  The mutants: the request      *)
(* stays in the FIFO, the file goes to the first client of the table.          *)
Emptied_Not(c) == tx
Emptied(c)     == [tx EXCEPT ![c] = <<>>]
Order_First(c) == [dest |-> clients[1], file |-> Head(tx[c])]
Order(c)       == [dest |-> c, file |-> Head(tx[c])]

(* The loop over the table comes to its next ready client. *)
ClientRequest ==
  /\ mpc = "clients"
  /\ \E j \in ready :
       /\ \A k \in ready : j <= k
       /\ ready' = ready \ {j}
       /\ LET c == clients[j] IN
            /\ jobs' = IF Head(tx[c]) = "noise" THEN jobs ELSE Append(jobs, Order(c))
            /\ tx' = Emptied(c)
  /\ UNCHANGED <<mpc, clients, cmds, threadVars, rx, clientVars>>

(* reinit_select, and a mutant that forgets to fill the set. *)
Refilled_Not == ready
Refilled     == 0 .. Len(clients)

(* The end of the loop. *)
ReinitSelect ==
  /\ mpc = "clients" /\ ready = {}
  /\ mpc' = "select" /\ ready' = Refilled
  /\ UNCHANGED <<clients, cmds, tx, jobs, threadVars, rx, clientVars>>

MainStep ==
  Select \/ ServerCmd \/ ClientRequest \/ ReinitSelect

---------------------------------------------------------------------------
(* send_file in thread t of the pool *)

Go(t, from, to) == Running /\ tpc[t] = from /\ tpc' = [tpc EXCEPT ![t] = to]

TakeJob(t) ==
  /\ Go(t, "idle", "open")
  /\ jobs # <<>> /\ jobs' = Tail(jobs)
  /\ job' = [job EXCEPT ![t] = Head(jobs)]
  /\ UNCHANGED <<mainVars, cmds, tx, sent, rx, clientVars>>

(* open(destFileName, O_WRONLY) returns when the client opens its end; then   *)
(* the file is opened.  Without a file an assert fails and ends the server.   *)
OpenFiles(t) ==
  /\ Running /\ tpc[t] = "open"
  /\ reading[job[t].dest] # "no"
  /\ reading' = [reading EXCEPT ![job[t].dest] = "open"]
  /\ IF Pieces[job[t].file] = -1
     THEN mpc' = "aborted" /\ tpc' = tpc
     ELSE mpc' = mpc /\ tpc' = [tpc EXCEPT ![t] = "write"]
  /\ UNCHANGED <<ready, clients, cmds, tx, jobs, job, sent, rx, got, ended, registered, asked, noise>>

WritePiece(t) ==
  /\ Running /\ tpc[t] = "write" /\ sent[t] < Pieces[job[t].file]
  /\ LET c == job[t].dest IN
       /\ reading[c] = "open" /\ Len(rx[c]) < PipeSize
       /\ rx' = [rx EXCEPT ![c] = Append(@, [file |-> job[t].file, n |-> sent[t] + 1])]
  /\ sent' = [sent EXCEPT ![t] = @ + 1]
  /\ UNCHANGED <<mainVars, cmds, tx, jobs, tpc, job, clientVars>>

(* write() without a reader: SIGPIPE ends the server. *)
BrokenPipe(t) ==
  /\ Running /\ tpc[t] = "write" /\ sent[t] < Pieces[job[t].file]
  /\ reading[job[t].dest] # "open"
  /\ mpc' = "killed"
  /\ UNCHANGED <<ready, clients, cmds, tx, jobs, threadVars, rx, clientVars>>

(* fread() gives 0; a mutant ends one piece early. *)
AtEnd_Early(t) == sent[t] + 1 >= Pieces[job[t].file]
AtEnd(t)       == sent[t] = Pieces[job[t].file]

CloseFiles(t) ==
  /\ Go(t, "write", "idle")
  /\ AtEnd(t)
  /\ job' = [job EXCEPT ![t] = Idle]
  /\ sent' = [sent EXCEPT ![t] = 0]
  /\ LET c == job[t].dest IN
       rx' = IF reading[c] # "open" /\ \A u \in Thread \ {t} : ~Writes(u, c)
             THEN [rx EXCEPT ![c] = <<>>] ELSE rx
  /\ UNCHANGED <<mainVars, cmds, tx, jobs, clientVars>>

ThreadStep(t) ==
  \/ TakeJob(t) \/ OpenFiles(t) \/ WritePiece(t)
  \/ BrokenPipe(t) \/ CloseFiles(t)

Next == ClientStep \/ MainStep \/ \E t \in Thread : ThreadStep(t)

(* The kernel schedules main and the threads of the pool; of the clients only *)
(* the Readers go on until they have read what they have asked for.           *)
Spec ==
  /\ Init /\ [][Next]_vars
  /\ WF_vars(MainStep)
  /\ \A t \in Thread : WF_vars(ThreadStep(t))
  /\ \A c \in Readers : WF_vars(ClientReads(c))

---------------------------------------------------------------------------
Stream(c)  == got[c] \o rx[c]
Whole(c)   == asked[c] # <<>> /\ got[c] = [k \in 1 .. Pieces[asked[c][1]] |-> [file |-> asked[c][1], n |-> k]]

(* main calls read() only where there is something to read: it never waits    *)
(* for a single client, although the set is reused from round to round and    *)
(* the table grows between select() and the loop over it.                     *)
ReadsDontBlock ==
  /\ mpc = "command" => cmds # <<>>
  /\ mpc \in {"command", "clients"} => \A j \in ready \ {0} : tx[clients[j]] # <<>>

(* What is queued, being written or in a FIFO for a client are files this     *)
(* client has asked for, whatever thread has served it.                       *)
AskedBy(c) == {asked[c][k] : k \in 1 .. Len(asked[c])}

Routing ==
  /\ \A k \in 1 .. Len(jobs) : jobs[k].file \in AskedBy(jobs[k].dest)
  /\ \A t \in Thread : job[t] # Idle => job[t].file \in AskedBy(job[t].dest)
  /\ \A c \in Client : \A k \in 1 .. Len(Stream(c)) : Stream(c)[k].file \in AskedBy(c)

(* A client with one request reads its pieces in order, none twice and none   *)
(* left out, also if it leaves and comes back in the middle.                  *)
OneRequestInOrder ==
  \A c \in Client : Len(asked[c]) = 1 =>
    \A k \in 1 .. Len(Stream(c)) - 1 : Stream(c)[k + 1].n = Stream(c)[k].n + 1

(* The end of the stream is the end of the file, as long as the server runs   *)
(* and the client has not left early (noise bounds the leaving).              *)
EndIsEndOfFile ==
  Running /\ noise = 0 =>
    \A c \in Client : reading[c] = "no" /\ Len(asked[c]) = 1 /\ got[c] # <<>> => Whole(c)

(* Whatever the threads and the clients are waiting for, main carries out the *)
(* message that is first in a FIFO: a registration gets into the table, a GET *)
(* gets into the queue of the pool, until the server ends.  The messages      *)
(* behind it that the same read() takes are thrown away (server.c:69-71,      *)
(* 99-102); of these the property says nothing.                               *)
First(fifo, m) == fifo # <<>> /\ Head(fifo) = m
Queued(c, f)   == \E k \in 1 .. Len(jobs) : jobs[k] = [dest |-> c, file |-> f]

MainServes ==
  /\ \A c \in Client : First(cmds, c) ~> (InTable(c) \/ ~Running)
  /\ \A c \in Client, f \in File : First(tx[c], f) ~> (Queued(c, f) \/ ~Running)

(* A client that reads gets all of the one file it has asked for, also if     *)
(* others never read: as long as their requests are fewer than the threads.   *)
ReadersServed ==
  \A c \in Readers :
    asked[c] # <<>> ~> (Whole(c) \/ Len(asked[c]) > 1 \/ ~Running \/ noise > 0)

=============================================================================
