---------------------------- MODULE SharedMemory ----------------------------
(***************************************************************************)
(* src/task_3/shmem_posix: the client copies input.txt chunk by chunk into *)
(* a POSIX shared memory object, the server appends the object to          *)
(* output.txt.  Three named semaphores order them: full_sem (the buffer    *)
(* may be filled), empty_sem (it may be emptied) and mutex.                *)
(*                                                                         *)
(* The semaphores and the object belong to the kernel and outlive the      *)
(* programs, so a history is a sequence of runs of the pair.  A file is a  *)
(* sequence of bytes, of which only NUL and QUIT matter to the programs;   *)
(* QUIT stands for the four letters of "quit", so a short chunk that old   *)
(* bytes of the object complete to it does not occur.  The programs are    *)
(* started in either order; input.txt can be read and nothing runs out of  *)
(* memory.                                                                 *)
(***************************************************************************)
EXTENDS Integers, Sequences

CONSTANTS
  Letter,    \* bytes without a meaning to the programs
  SIZE,      \* bytes of the shared object and of a chunk
  MaxLength, \* bound: bytes of a file
  MaxRuns    \* bound: runs of the two programs

ASSUME SharedMemoryAssumption ==
  /\ SIZE \in Nat /\ SIZE >= 2
  /\ MaxLength \in Nat /\ MaxRuns \in Nat
  /\ "NUL" \notin Letter /\ "QUIT" \notin Letter

Byte == Letter \cup {"NUL", "QUIT"}
File == UNION {[1 .. n -> Byte] : n \in 0 .. MaxLength}

VARIABLES
  file,    \* input.txt
  run,     \* how often the pair has been started
  full, empty, mutex,   \* the values of the semaphores
  obj,     \* does the object "OS" exist
  shm,     \* its bytes
  cpc,     \* where the client is
  pos,     \* how much of the file has been handed over
  ci,      \* bytes copied of the current chunk
  spc,     \* where the server is
  mapped,  \* the server's mmap succeeded
  si,      \* bytes written of the current chunk
  out      \* output.txt

kernel     == <<full, empty, mutex, obj>>
clientVars == <<cpc, pos, ci>>
serverVars == <<spc, mapped, si, out>>
vars == <<file, run, kernel, shm, clientVars, serverVars>>

ClientPhase == {"open", "wait", "lock", "copy", "post", "done"}
ServerPhase == {"open", "wait", "lock", "test", "write", "post", "unlink", "done", "crashed"}

TypeOK ==
  /\ file \in File
  /\ run \in Nat
  /\ full \in Nat /\ empty \in Nat /\ mutex \in Nat
  /\ obj \in BOOLEAN
  /\ shm \in [1 .. SIZE -> Byte]
  /\ cpc \in ClientPhase
  /\ pos \in 0 .. Len(file)
  /\ ci \in 0 .. SIZE
  /\ spc \in ServerPhase
  /\ mapped \in BOOLEAN
  /\ si \in 0 .. SIZE
  /\ out \in Seq(Byte)

Blank == [j \in 1 .. SIZE |-> "NUL"]

Init ==
  /\ file \in File
  /\ run = 1
  /\ full = 1 /\ empty = 0 /\ mutex = 1
  /\ obj = FALSE
  /\ shm = Blank
  /\ cpc = "open" /\ pos = 0 /\ ci = 0
  /\ spc = "open" /\ mapped = FALSE /\ si = 0 /\ out = <<>>

---------------------------------------------------------------------------
(* What the programs do to a chunk. *)

(* fread(inter_buf, 1, SIZE, input) with p bytes of f behind it. *)
Chunk(f, p) == SubSeq(f, p + 1, IF p + SIZE <= Len(f) THEN p + SIZE ELSE Len(f))

(* strncpy: up to the first NUL, and NULs from there on. *)
Copied(c) == [j \in 1 .. Len(c) |-> IF \E l \in 1 .. j - 1 : c[l] = "NUL" THEN "NUL" ELSE c[j]]

(* strcmp(ptr, "quit") == 0 *)
IsQuit(s) == s[1] = "QUIT" /\ s[2] = "NUL"

(* What the client puts into the object next: a chunk, or "quit" at the end. *)
Outgoing == IF pos < Len(file) THEN Copied(Chunk(file, pos)) ELSE <<"QUIT", "NUL">>

---------------------------------------------------------------------------
(* The client.  shm_open creates the object or finds an old one, ftruncate    *)
(* fills a new one with NULs.                                                 *)
ClientOpen ==
  /\ cpc = "open" /\ cpc' = "wait"
  /\ obj' = TRUE
  /\ shm' = IF obj THEN shm ELSE Blank
  /\ UNCHANGED <<file, run, full, empty, mutex, pos, ci, serverVars>>

(* A mutant of ClientWaitFull: the chunk is not waited for. *)
ClientWaitFull_Forgotten ==
  /\ cpc = "wait" /\ cpc' = "lock"
  /\ full' = IF full > 0 THEN full - 1 ELSE full
  /\ UNCHANGED <<file, run, empty, mutex, obj, shm, pos, ci, serverVars>>

ClientWaitFull ==
  /\ cpc = "wait" /\ cpc' = "lock"
  /\ full > 0 /\ full' = full - 1
  /\ UNCHANGED <<file, run, empty, mutex, obj, shm, pos, ci, serverVars>>

ClientLock ==
  /\ cpc = "lock" /\ cpc' = "copy"
  /\ mutex > 0 /\ mutex' = mutex - 1
  /\ UNCHANGED <<file, run, full, empty, obj, shm, pos, ci, serverVars>>

ClientCopy ==
  /\ cpc = "copy" /\ ci < Len(Outgoing)
  /\ shm' = [shm EXCEPT ![ci + 1] = Outgoing[ci + 1]]
  /\ ci' = ci + 1
  /\ UNCHANGED <<file, run, kernel, cpc, pos, serverVars>>

ClientUnlock ==
  /\ cpc = "copy" /\ ci = Len(Outgoing)
  /\ cpc' = "post"
  /\ mutex' = mutex + 1
  /\ UNCHANGED <<file, run, full, empty, obj, shm, pos, ci, serverVars>>

(* sem_post(empty_sem), then the next fread or the end of main. *)
ClientPost ==
  /\ cpc = "post"
  /\ empty' = empty + 1
  /\ IF pos < Len(file)
     THEN cpc' = "wait" /\ pos' = pos + Len(Chunk(file, pos))
     ELSE cpc' = "done" /\ UNCHANGED pos
  /\ ci' = 0
  /\ UNCHANGED <<file, run, full, mutex, obj, shm, serverVars>>

ClientStep ==
  \/ ClientOpen \/ ClientWaitFull \/ ClientLock \/ ClientCopy \/ ClientUnlock \/ ClientPost

---------------------------------------------------------------------------
(* The server truncates output.txt, and maps the object if there is one. *)
ServerOpen ==
  /\ spc = "open" /\ spc' = "wait"
  /\ mapped' = obj
  /\ out' = <<>>
  /\ UNCHANGED <<file, run, kernel, shm, si, clientVars>>

ServerWaitEmpty ==
  /\ spc = "wait" /\ spc' = "lock"
  /\ empty > 0 /\ empty' = empty - 1
  /\ UNCHANGED <<file, run, full, mutex, obj, shm, mapped, si, out, clientVars>>

ServerLock ==
  /\ spc = "lock" /\ spc' = "test"
  /\ mutex > 0 /\ mutex' = mutex - 1
  /\ UNCHANGED <<file, run, full, empty, obj, shm, mapped, si, out, clientVars>>

(* strcmp on the object: fatal without a mapping, the end of the loop on      *)
(* "quit".  The break keeps mutex locked and full_sem down.                   *)
ServerTest ==
  /\ spc = "test"
  /\ spc' = IF ~mapped THEN "crashed" ELSE IF IsQuit(shm) THEN "unlink" ELSE "write"
  /\ UNCHANGED <<file, run, kernel, shm, mapped, si, out, clientVars>>

(* fwrite(ptr, 1, SIZE, output), however short the chunk was. *)
ServerWrite ==
  /\ spc = "write" /\ si < SIZE
  /\ out' = Append(out, shm[si + 1])
  /\ si' = si + 1
  /\ UNCHANGED <<file, run, kernel, shm, spc, mapped, clientVars>>

ServerUnlock ==
  /\ spc = "write" /\ si = SIZE
  /\ spc' = "post" /\ si' = 0
  /\ mutex' = mutex + 1
  /\ UNCHANGED <<file, run, full, empty, obj, shm, mapped, out, clientVars>>

(* A mutant of ServerPost: full_sem is not posted. *)
ServerPost_Forgotten ==
  /\ spc = "post" /\ spc' = "wait"
  /\ UNCHANGED <<file, run, kernel, shm, mapped, si, out, clientVars>>

ServerPost ==
  /\ spc = "post" /\ spc' = "wait"
  /\ full' = full + 1
  /\ UNCHANGED <<file, run, empty, mutex, obj, shm, mapped, si, out, clientVars>>

ServerUnlink ==
  /\ spc = "unlink" /\ spc' = "done"
  /\ obj' = FALSE
  /\ UNCHANGED <<file, run, full, empty, mutex, shm, mapped, si, out, clientVars>>

ServerStep ==
  \/ ServerOpen \/ ServerWaitEmpty \/ ServerLock \/ ServerTest \/ ServerWrite
  \/ ServerUnlock \/ ServerPost \/ ServerUnlink

---------------------------------------------------------------------------
(* Both programs have returned from main and are started again, on any file.  *)
(* sem_open finds the semaphores of the last run: its initial values are for  *)
(* semaphores that do not exist yet.                                          *)
NextRun ==
  /\ cpc = "done" /\ spc = "done"
  /\ run < MaxRuns /\ run' = run + 1
  /\ file' \in File
  /\ cpc' = "open" /\ pos' = 0 /\ ci' = 0
  /\ spc' = "open" /\ si' = 0
  /\ UNCHANGED <<kernel, shm, mapped, out>>

Next == ClientStep \/ ServerStep \/ NextRun

(* The kernel schedules both processes; nobody has to start a second run. *)
Spec == Init /\ [][Next]_vars /\ WF_vars(ClientStep) /\ WF_vars(ServerStep)

---------------------------------------------------------------------------
Chunks(f) == (Len(f) + SIZE - 1) \div SIZE

(* The object while it holds the n-th chunk of f in a first run: behind a     *)
(* chunk that is short, the bytes of the chunk before.                        *)
Image(f, n) ==
  LET new == Copied(Chunk(f, (n - 1) * SIZE))
      old == IF n = 1 THEN Blank ELSE Copied(Chunk(f, (n - 2) * SIZE))
  IN  [j \in 1 .. SIZE |-> IF j <= Len(new) THEN new[j] ELSE old[j]]

(* None of the first m chunks is taken by the server for the end of the file. *)
NoQuit(f, m) == \A n \in 1 .. m : ~IsQuit(Image(f, n))
FalseQuit(f) == ~NoQuit(f, Chunks(f))

(* What the server writes for the file f: all images before a false quit.     *)
Written(f, k) == [j \in 1 .. k |-> Image(f, ((j - 1) \div SIZE) + 1)[((j - 1) % SIZE) + 1]]

LastWritten(f) ==
  CHOOSE m \in 0 .. Chunks(f) : NoQuit(f, m) /\ (m = Chunks(f) \/ ~NoQuit(f, m + 1))

Delivered(f) == Written(f, LastWritten(f) * SIZE)

(* Between its wait for a buffer and its post, a program has the object for   *)
(* itself: the client never fills it while the server is still reading it,    *)
(* in any run.                                                                *)
Alternation ==
  ~(cpc \in {"lock", "copy", "post"} /\ spc \in {"lock", "test", "write", "post"})

(* The inductive invariant behind Alternation: one token goes round between   *)
(* full_sem, the client, empty_sem and the server, and mutex is a mutex.  A    *)
(* break on "quit" takes both out of circulation, so they are at most one.     *)
OneIf(b) == IF b THEN 1 ELSE 0

TokenInv ==
  full + empty + OneIf(cpc \in {"lock", "copy", "post"})
               + OneIf(spc \in {"lock", "test", "write", "post"}) <= 1

MutexInv == mutex + OneIf(cpc = "copy") + OneIf(spc \in {"test", "write"}) <= 1

IInv == TypeOK /\ TokenInv /\ MutexInv

(* What has been received in this run: ServerOpen truncates what an earlier   *)
(* run has left.                                                              *)
Received == IF spc = "open" THEN <<>> ELSE out

(* In every run the server's output grows along what the copying makes of the *)
(* file, chunk by chunk, none lost, doubled or torn, and is complete when the *)
(* server returns.                                                            *)
Transfer == INSTANCE FileTransfer WITH
              file     <- Delivered(file),
              received <- Received,
              outcome  <- CASE spc = "done"    -> "ended"
                            [] spc = "crashed" -> "failed"
                            [] OTHER           -> "copying"

TransferImplemented == Transfer!FTSpec

(* The invariant behind the output: q chunks have been handed over, and the   *)
(* one whose turn it is has the object.  While the client fills it, it holds  *)
(* the first bytes of a new chunk and the rest of the q-th; while the server  *)
(* empties it, it holds the q-th, or "quit" once there are no more.           *)
ClientTurn == full = 1 \/ cpc \in {"lock", "copy", "post"}
ServerTurn == empty = 1 \/ spc \in {"lock", "test", "write", "post"}

Held(f, q) == IF q = 0 THEN Blank ELSE Image(f, q)

Filling(q) ==
  /\ cpc # "done" /\ spc \in {"open", "wait"}
  /\ cpc \notin {"copy", "post"} => ci = 0
  /\ cpc = "post" => ci = Len(Outgoing)
  /\ ci <= Len(Outgoing)
  /\ cpc = "open" => q = 0 /\ obj = FALSE
  /\ NoQuit(file, q) /\ Received = Written(file, q * SIZE)
  /\ shm = [j \in 1 .. SIZE |-> IF j <= ci THEN Outgoing[j] ELSE Held(file, q)[j]]

EmptyingChunk(q) ==
  /\ cpc = "wait" /\ q >= 1 /\ shm = Image(file, q) /\ NoQuit(file, q - 1)
  /\ spc \in {"write", "post"} => NoQuit(file, q)
  /\ Received = Written(file, CASE spc = "write" -> (q - 1) * SIZE + si
                               [] spc = "post"  -> q * SIZE
                               [] OTHER         -> (q - 1) * SIZE)

EmptyingQuit(q) ==
  /\ cpc = "done" /\ spc \in {"open", "wait", "lock", "test"}
  /\ pos = Len(file) /\ IsQuit(shm) /\ NoQuit(file, q) /\ Received = Written(file, q * SIZE)

FirstRun(q) ==
  /\ pos = IF q * SIZE <= Len(file) THEN q * SIZE ELSE Len(file)
  /\ ClientTurn => Filling(q)
  /\ ServerTurn => ci = 0 /\ (EmptyingChunk(q) \/ EmptyingQuit(q))
  /\ ClientTurn \/ ServerTurn \/ spc \in {"unlink", "done", "crashed"}
  /\ spc \in {"unlink", "done"} => Received = Delivered(file)

FirstRunInv == run = 1 => \E q \in 0 .. Chunks(file) : FirstRun(q)

(* After a break nothing comes into circulation again, and a second run waits *)
(* for ever.  A server that has not mapped the object writes nothing.         *)
BreakInv ==
  /\ full <= 1 /\ empty <= 1
  /\ spc # "write" => si = 0
  /\ ~mapped => Received = <<>> /\ spc \in {"open", "wait", "lock", "test", "crashed"}
  /\ spc = "crashed" => ~mapped
  /\ spc \in {"unlink", "done", "crashed"} => ~ClientTurn /\ ~ServerTurn

LaterRunInv ==
  run # 1 => /\ ~ClientTurn /\ ~ServerTurn /\ Received = <<>>
             /\ cpc \in {"open", "wait"} /\ spc \in {"open", "wait"}

OutputInv == BreakInv /\ FirstRunInv /\ LaterRunInv

(* A first run of a server that has mapped the object comes to its end, and   *)
(* so does its client, unless the server took a chunk for the end of the file. *)
BothEnd ==
  /\ (run = 1 /\ mapped) ~> (spc = "done")
  /\ (run = 1 /\ mapped /\ ~FalseQuit(file)) ~> (cpc = "done")
=============================================================================
