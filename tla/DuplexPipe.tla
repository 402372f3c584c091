----------------------------- MODULE DuplexPipe -----------------------------
(***************************************************************************)
(* src/task_2/Tyazhelkov: a parent sends input.txt chunk by chunk through  *)
(* one pipe to its child, which echoes every chunk through another; the    *)
(* parent writes the echo to output.txt.  After the fork each has its own  *)
(* copy of struct Pipe, and all four ends of the pipes stay open in both,  *)
(* so no read() ever sees the end of a stream.                             *)
(*                                                                         *)
(* A pipe is a stream of bytes: a read() takes what is there, up to SIZE   *)
(* bytes.  A write() of a chunk is atomic (MAX_BUF_SIZE = PIPE_BUF) and    *)
(* waits for room.  Of the bytes of a file only NUL and EXIT, which stands *)
(* for the four letters of "exit", matter to the programs; so a short      *)
(* chunk that old bytes of the buffer complete to it does not occur.       *)
(***************************************************************************)
EXTENDS Integers, Sequences, FiniteSets

CONSTANTS
  Letter,    \* bytes without a meaning
  SIZE,      \* MAX_BUF_SIZE and INTER_BUFF_SIZE
  Capacity,  \* bytes a pipe holds
  MaxLength  \* bound: bytes of the file

ASSUME DuplexAssumption ==
  /\ SIZE \in Nat /\ SIZE >= 2
  /\ Capacity \in Nat /\ Capacity >= SIZE
  /\ MaxLength \in Nat
  /\ "NUL" \notin Letter /\ "EXIT" \notin Letter

Byte == Letter \cup {"NUL", "EXIT"}
File == UNION {[1 .. n -> Byte] : n \in 0 .. MaxLength}

VARIABLES
  file,          \* input.txt
  ppc, plen,     \* where the parent is, its my_pipe->len
  pos,           \* how much of the file it has read
  direct, back,  \* what is in the pipes
  cpc, clen,     \* where the child is, its my_pipe->len
  cdata,         \* its my_pipe->data
  out            \* output.txt

parentVars == <<file, ppc, plen, pos, out>>
childVars  == <<cpc, clen, cdata>>
vars == <<parentVars, direct, back, childVars>>

TypeOK ==
  /\ file \in File
  /\ ppc \in {"fork", "send", "rcv", "done", "failed"}
  /\ plen \in 0 .. SIZE
  /\ pos \in 0 .. Len(file)
  /\ direct \in Seq(Byte) /\ Len(direct) <= Capacity
  /\ back \in Seq(Byte) /\ Len(back) <= Capacity
  /\ cpc \in {"none", "rcv", "reply", "done"}
  /\ clen \in 1 .. SIZE
  /\ cdata \in [1 .. SIZE -> Byte]
  /\ out \in Seq(Byte)

(* pipe_ctor *)
Init ==
  /\ file \in File
  /\ ppc = "fork" /\ plen = SIZE /\ pos = 0
  /\ direct = <<>> /\ back = <<>>
  /\ cpc = "none" /\ clen = SIZE /\ cdata = [j \in 1 .. SIZE |-> "NUL"]
  /\ out = <<>>

---------------------------------------------------------------------------
Least(a, b) == IF a <= b THEN a ELSE b

(* fread with p bytes of f behind it *)
Chunk(f, p) == SubSeq(f, p + 1, Least(p + SIZE, Len(f)))

(* strlen of data, which holds c and a NUL behind it: the bytes before a NUL  *)
StrLen(c) == Cardinality({j \in 1 .. Len(c) : \A k \in 1 .. j : c[k] # "NUL"})

(* strcmp(data, "exit") == 0 *)
IsExit(d) == d[1] = "EXIT" /\ d[2] = "NUL"

(* read(fd, data, INTER_BUFF_SIZE) *)
Taken(pipe) == SubSeq(pipe, 1, Least(SIZE, Len(pipe)))
Rest(pipe)  == SubSeq(pipe, Least(SIZE, Len(pipe)) + 1, Len(pipe))
Over(bytes, d) == [j \in 1 .. SIZE |-> IF j <= Len(bytes) THEN bytes[j] ELSE d[j]]

CanWrite(pipe, n) == Len(pipe) + n <= Capacity

---------------------------------------------------------------------------
(* main forks; a failed fork is reported and main returns. *)
Fork ==
  /\ ppc = "fork"
  /\ \/ ppc' = "send"   /\ cpc' = "rcv"
     \/ ppc' = "failed" /\ cpc' = cpc
  /\ UNCHANGED <<file, plen, pos, out, direct, back, clen, cdata>>

(* A mutant of ParentSend: a chunk is sent without waiting for the one before. *)
ParentSend_NoWait ==
  /\ ppc = "send" /\ pos < Len(file)
  /\ LET c == Chunk(file, pos)
         l == IF Len(c) # SIZE THEN StrLen(c) ELSE plen
     IN  /\ CanWrite(direct, l)
         /\ direct' = direct \o SubSeq(c, 1, l)
         /\ plen' = l
         /\ pos' = pos + Len(c)
  /\ ppc' = IF pos = 0 THEN "send" ELSE "rcv"
  /\ UNCHANGED <<file, out, back, childVars>>

(* fread, strlen of a short chunk, snd.  The NUL behind a full chunk lies      *)
(* outside the buffer, in nothing that belongs to the program.                *)
ParentSend ==
  /\ ppc = "send" /\ pos < Len(file)
  /\ LET c == Chunk(file, pos)
         l == IF Len(c) # SIZE THEN StrLen(c) ELSE plen
     IN  /\ CanWrite(direct, l)
         /\ direct' = direct \o SubSeq(c, 1, l)
         /\ plen' = l
         /\ pos' = pos + Len(c)
  /\ ppc' = "rcv"
  /\ UNCHANGED <<file, out, back, childVars>>

(* A mutant of ParentReceive: len is not reset. *)
ParentReceive_KeepsLen ==
  /\ ppc = "rcv" /\ back # <<>>
  /\ out' = out \o Taken(back) /\ back' = Rest(back)
  /\ plen' = Len(Taken(back)) /\ ppc' = "send"
  /\ UNCHANGED <<file, pos, direct, childVars>>

(* rcv, fwrite of as many bytes as were read, and len is MAX_BUF_SIZE again   *)
ParentReceive ==
  /\ ppc = "rcv" /\ back # <<>>
  /\ out' = out \o Taken(back) /\ back' = Rest(back)
  /\ plen' = SIZE /\ ppc' = "send"
  /\ UNCHANGED <<file, pos, direct, childVars>>

(* "exit" and what was behind it in data *)
ParentExit ==
  /\ ppc = "send" /\ pos = Len(file)
  /\ CanWrite(direct, plen)
  /\ direct' = direct \o [j \in 1 .. plen |-> IF j = 1 THEN "EXIT" ELSE "NUL"]
  /\ ppc' = "done"
  /\ UNCHANGED <<file, plen, pos, out, back, childVars>>

ParentStep == Fork \/ ParentSend \/ ParentReceive \/ ParentExit

ChildReceive ==
  /\ cpc = "rcv" /\ direct # <<>>
  /\ cdata' = Over(Taken(direct), cdata) /\ clen' = Len(Taken(direct))
  /\ direct' = Rest(direct)
  /\ cpc' = "reply"
  /\ UNCHANGED <<parentVars, back>>

(* A mutant of ChildReply: the whole buffer goes back. *)
ChildReply_WholeBuffer ==
  /\ cpc = "reply"
  /\ IF IsExit(cdata)
     THEN cpc' = "done" /\ UNCHANGED <<clen, back>>
     ELSE /\ CanWrite(back, SIZE)
          /\ back' = back \o cdata
          /\ clen' = SIZE /\ cpc' = "rcv"
  /\ UNCHANGED <<parentVars, direct, cdata>>

(* The child returns on "exit", and sends everything else back. *)
ChildReply ==
  /\ cpc = "reply"
  /\ IF IsExit(cdata)
     THEN cpc' = "done" /\ UNCHANGED <<clen, back>>
     ELSE /\ CanWrite(back, clen)
          /\ back' = back \o SubSeq(cdata, 1, clen)
          /\ clen' = SIZE /\ cpc' = "rcv"
  /\ UNCHANGED <<parentVars, direct, cdata>>

ChildStep == ChildReceive \/ ChildReply

Next == ParentStep \/ ChildStep

(* The kernel schedules both processes. *)
Spec == Init /\ [][Next]_vars /\ WF_vars(ParentStep) /\ WF_vars(ChildStep)

---------------------------------------------------------------------------
(* What is sent for the n-th chunk of f, and the child's data then.           *)
Chunks(f) == (Len(f) + SIZE - 1) \div SIZE

Message(f, n) ==
  LET c == Chunk(f, (n - 1) * SIZE)
  IN  IF Len(c) = SIZE THEN c ELSE SubSeq(c, 1, StrLen(c))

Image(f, n) ==
  Over(Message(f, n), IF n = 1 THEN [j \in 1 .. SIZE |-> "NUL"] ELSE Chunk(f, (n - 2) * SIZE))

(* A chunk that is never answered: the child takes it for the end, or nothing *)
(* of it is sent.                                                             *)
Unanswered(f, n) == Message(f, n) = <<>> \/ IsExit(Image(f, n))
AnsweredTo(f, m) == \A n \in 1 .. m : ~Unanswered(f, n)
Answered(f)      == AnsweredTo(f, Chunks(f))

(* What is sent of the first n chunks of f, the chunks that come back, and    *)
(* what the output is to be.                                                  *)
Upto(f, n) == IF n = 0 THEN <<>> ELSE SubSeq(f, 1, (n - 1) * SIZE) \o Message(f, n)

LastAnswered(f) ==
  CHOOSE m \in 0 .. Chunks(f) : AnsweredTo(f, m) /\ (m = Chunks(f) \/ ~AnsweredTo(f, m + 1))

Delivered(f) == Upto(f, LastAnswered(f))

(* The pipes keep no chunks apart, so the echo depends on there being one at  *)
(* most: in a pipe, or with the child, and none while the parent is about to  *)
(* send.  No write ever waits for room.                                       *)
OneChunkAway ==
  /\ Len(direct) + Len(back) + (IF cpc = "reply" THEN clen ELSE 0) <= SIZE
  /\ ppc = "send" => direct = <<>> /\ back = <<>> /\ cpc = "rcv"

(* The output grows along what strlen leaves of the file, chunk by chunk, and *)
(* is complete when the parent returns.                                       *)
Transfer == INSTANCE FileTransfer WITH
              file     <- Delivered(file),
              received <- out,
              outcome  <- CASE ppc = "done"   -> "ended"
                            [] ppc = "failed" -> "failed"
                            [] OTHER          -> "copying"

TransferImplemented == Transfer!FTSpec

(* test_prog.sh:14, FIRSTSUM = SECONDSUM: the output of a text file, and of a *)
(* binary file of whole chunks, is the file.                                  *)
SameSums ==
  ppc = "done" /\ (Len(file) % SIZE = 0 \/ \A j \in 1 .. Len(file) : file[j] # "NUL")
    => out = file

(* The inductive invariant behind both: the chunk that is away alternates     *)
(* with the parent, and what has been sent of a file that strlen leaves whole *)
(* is what has come back and what is away.                                    *)
PingPong ==
  /\ ppc = "send" => direct = <<>> /\ back = <<>> /\ cpc = "rcv"
  /\ ppc \in {"fork", "failed"} => direct = <<>> /\ back = <<>> /\ cpc = "none"
  /\ cpc = "none" => ppc \in {"fork", "failed"}
  /\ ppc # "rcv" => plen = SIZE
  /\ Len(direct) <= SIZE /\ Len(back) <= SIZE
  /\ cpc \in {"reply", "done"} => direct = <<>> /\ back = <<>>
  /\ back # <<>> => direct = <<>> /\ cpc = "rcv"

Whole == Len(file) % SIZE = 0 \/ \A j \in 1 .. Len(file) : file[j] # "NUL"
Away  == IF cpc = "reply" THEN SubSeq(cdata, 1, clen) ELSE direct \o back

EchoInv ==
  /\ ppc = "fork" => pos = 0 /\ out = <<>>
  /\ pos % SIZE = 0 \/ pos = Len(file)
  /\ Whole /\ ppc = "send" => out = SubSeq(file, 1, pos)
  /\ Whole /\ ppc = "rcv" /\ cpc # "done" => out \o Away = SubSeq(file, 1, pos)
  /\ Whole /\ ppc = "done" => out = file

IInv == TypeOK /\ PingPong /\ EchoInv

(* The invariant behind the output of every file: what has come back of the   *)
(* first q chunks, and where the q-th is, with the data it leaves the child.  *)
Before(f, q) == IF q = 0 THEN [j \in 1 .. SIZE |-> "NUL"] ELSE Chunk(f, (q - 1) * SIZE)

Home(q) ==
  /\ AnsweredTo(file, q)
  /\ out = Upto(file, q)
  /\ q < Chunks(file) => cdata = Before(file, q)

UnderWay(q) ==
  /\ q >= 1
  /\ AnsweredTo(file, q - 1)
  /\ out = Upto(file, q - 1)
  /\ cpc # "done" => Away = Message(file, q)
  /\ cpc = "rcv" /\ back = <<>> => cdata = Before(file, q - 1)
  /\ cpc = "reply" \/ back # <<>> => cdata = Image(file, q)
  /\ back # <<>> => ~Unanswered(file, q)

Round(q) ==
  /\ pos = Least(q * SIZE, Len(file))
  /\ ppc \in {"fork", "failed", "send"} => Home(q)
  /\ ppc = "rcv" => UnderWay(q)
  /\ ppc = "done" => q = Chunks(file) /\ AnsweredTo(file, q) /\ out = Upto(file, q)

RoundInv == \E q \in 0 .. Chunks(file) : Round(q)

(* If every chunk is answered both processes end, the child by "exit".        *)
BothEnd == (Answered(file) /\ ppc = "send") ~> (ppc = "done" /\ cpc = "done")
=============================================================================
