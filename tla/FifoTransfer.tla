---------------------------- MODULE FifoTransfer ----------------------------
(***************************************************************************)
(* src/task_3/fifo: a writer copies a file into a FIFO, a reader copies    *)
(* what it reads to output.txt.  The reader ends at the end of the stream, *)
(* or when a read returns exactly the four bytes "quit"; the writer        *)
(* prepares these bytes at the end of the file and never writes them.      *)
(*                                                                         *)
(* The FIFO is a stream of bytes: a write of a chunk is atomic (4095 is    *)
(* below PIPE_BUF) and waits for room, a read takes what is there, up to   *)
(* SIZE bytes.                                                             *)
(***************************************************************************)
EXTENDS ChunkTransfer

CONSTANT Capacity  \* bytes the FIFO holds

ASSUME FifoAssumption == Capacity \in Nat /\ Capacity >= SIZE

VARIABLES
  fifo,  \* the bytes in the FIFO
  buf,   \* the reader's buffer
  rest   \* what its uninitialised bytes were

fifoVars == <<fifo, buf, rest>>

FifoInit ==
  /\ fifo = <<>>
  /\ rest \in Byte /\ buf = [j \in 1 .. SIZE |-> rest]

(* The usage message, or the assert on the file, ends the writer.  Otherwise  *)
(* it waits in open() for the reader.                                         *)
WriterStart ==
  /\ cpc = "start" /\ cpc' \in {"opening", "failed"}
  /\ UNCHANGED <<file, pos, spc, out, fifoVars>>

ReaderStart ==
  /\ spc = "start" /\ spc' = "opening"
  /\ UNCHANGED <<file, pos, cpc, out, fifoVars>>

Connect ==
  /\ cpc = "opening" /\ spc = "opening"
  /\ cpc' = "write" /\ spc' = "read"
  /\ UNCHANGED <<file, pos, out, fifoVars>>

WriteChunk ==
  /\ cpc = "write" /\ ~AtEof
  /\ Len(fifo) + Len(Read) <= Capacity
  /\ fifo' = fifo \o Read
  /\ pos' = pos + Len(Read)
  /\ UNCHANGED <<file, cpc, spc, out, buf, rest>>

WriterClose ==
  /\ cpc = "write" /\ AtEof
  /\ cpc' = "done"
  /\ UNCHANGED <<file, pos, spc, out, fifoVars>>

Amount == IF Len(fifo) <= SIZE THEN Len(fifo) ELSE SIZE
Filled == [j \in 1 .. SIZE |-> IF j <= Amount THEN fifo[j] ELSE buf[j]]

(* size == 4 and strcmp(buf, "quit") == 0: what lies behind the four bytes is *)
(* of the read before.  A mutant without the comparison of size.              *)
SaysQuit_AnySize == Filled[1] = "QUIT" /\ Filled[2] = "NUL"
SaysQuit         == Amount = 1 /\ Filled[1] = "QUIT" /\ Filled[2] = "NUL"

ReadChunk ==
  /\ spc = "read" /\ fifo # <<>>
  /\ buf' = Filled
  /\ fifo' = SubSeq(fifo, Amount + 1, Len(fifo))
  /\ IF SaysQuit
     THEN spc' = "done" /\ out' = out
     ELSE spc' = spc /\ out' = out \o SubSeq(fifo, 1, Amount)
  /\ UNCHANGED <<file, pos, cpc, rest>>

(* read() gives 0 when nothing is left and the writer has ended. *)
ReadEof ==
  /\ spc = "read" /\ fifo = <<>> /\ cpc = "done"
  /\ spc' = "done"
  /\ UNCHANGED <<file, pos, cpc, out, fifoVars>>

FifoWriter == WriterStart \/ Connect \/ WriteChunk \/ WriterClose
FifoReader == ReaderStart \/ ReadChunk \/ ReadEof

---------------------------------------------------------------------------
(* The reader takes a last chunk for the end if it is "quit" and a NUL stands  *)
(* behind it in the buffer, from the chunk before or from the start.          *)
TakenForEnd ==
  LET n == Len(file)
  IN  /\ n % SIZE = 1 /\ file[n] = "QUIT"
      /\ (IF n = 1 THEN rest ELSE file[n - SIZE + 1]) = "NUL"

FifoDelivers == IF TakenForEnd THEN SubSeq(file, 1, Len(file) - 1) ELSE file

(* The invariant behind it: the reader is at the end of a chunk, and has the  *)
(* second byte of that chunk in its buffer, until it has the last one.        *)
BufferInv ==
  /\ Len(out) < Len(file) =>
       /\ Len(out) % SIZE = 0
       /\ buf[2] = IF out = <<>> THEN rest ELSE file[Len(out) - SIZE + 2]
  /\ spc = "read" /\ Len(out) = Len(file) => ~TakenForEnd
  /\ spc = "done" => out = FifoDelivers
=============================================================================
