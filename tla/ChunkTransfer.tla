---------------------------- MODULE ChunkTransfer ----------------------------
(***************************************************************************)
(* What the two transfers of task_3 through the kernel have in common: a   *)
(* client that reads a file chunk by chunk and hands the chunks over, a    *)
(* server that appends what it gets to its output.  A message queue        *)
(* (MessageQueue) and a FIFO (FifoTransfer) carry the chunks.  Of the      *)
(* bytes of a file only NUL and QUIT, which stands for the four letters of *)
(* "quit", matter to the programs.  So a message of less than five bytes   *)
(* that bytes of an earlier one, still in the buffer behind it, complete   *)
(* to "quit" (mq_server_posix.c:34) does not occur here.                   *)
(***************************************************************************)
EXTENDS Integers, Sequences, FiniteSets

CONSTANTS
  Letter,    \* bytes without a meaning
  SIZE,      \* the bytes of a chunk (4095)
  MaxLength  \* bound: bytes of the file

ASSUME ChunkAssumption ==
  /\ SIZE \in Nat /\ SIZE >= 2
  /\ MaxLength \in Nat
  /\ "NUL" \notin Letter /\ "QUIT" \notin Letter

Byte == Letter \cup {"NUL", "QUIT"}
File == UNION {[1 .. n -> Byte] : n \in 0 .. MaxLength}

VARIABLES
  file, pos,  \* what is sent, how much of it the client has read
  cpc, spc,   \* where the client (writer) and the server (reader) are
  out         \* output.txt

chunkVars == <<file, pos, cpc, spc, out>>

ChunkInit ==
  /\ file \in File /\ pos = 0
  /\ cpc = "start" /\ spc = "start"
  /\ out = <<>>

(* The chunks fread returns, one after the other. *)
Chunks(f) ==
  [n \in 1 .. (Len(f) + SIZE - 1) \div SIZE |->
     SubSeq(f, (n - 1) * SIZE + 1, IF n * SIZE <= Len(f) THEN n * SIZE ELSE Len(f))]

AtEof == pos = Len(file)
Nth   == pos \div SIZE + 1
Read  == Chunks(file)[Nth]
=============================================================================
