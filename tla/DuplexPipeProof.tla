-------------------------- MODULE DuplexPipeProof --------------------------
(***************************************************************************)
(* What holds of the duplex pipe for every chunk size, every capacity of   *)
(* the pipes and every file: at most one chunk is under way, and a file    *)
(* that strlen leaves whole comes back as it is.                           *)
(***************************************************************************)
EXTENDS DuplexPipe, FiniteSetTheorems, SequenceTheorems, WellFoundedInduction, TLAPS

(* A file is a sequence of bytes. *)
LEMMA FileIsSeq ==
  ASSUME NEW f \in File
  PROVE  /\ f \in Seq(Byte)
         /\ Len(f) \in Nat
BY DuplexAssumption DEF File

(* A chunk that is read has a byte at least and SIZE at most, and continues   *)
(* what has been read before.                                                 *)
LEMMA ChunkFacts ==
  ASSUME NEW f \in Seq(Byte), NEW p \in 0 .. Len(f) - 1
  PROVE  /\ Chunk(f, p) \in Seq(Byte)
         /\ Len(Chunk(f, p)) \in 1 .. SIZE
         /\ p + Len(Chunk(f, p)) = Least(p + SIZE, Len(f))
         /\ SubSeq(f, 1, p) \o Chunk(f, p) = SubSeq(f, 1, p + Len(Chunk(f, p)))
         /\ \A j \in 1 .. Len(Chunk(f, p)) : Chunk(f, p)[j] = f[p + j]
<1> DEFINE e == Least(p + SIZE, Len(f))
<1>1. e \in Nat /\ p < e /\ e <= Len(f) /\ e <= p + SIZE
  BY DuplexAssumption DEF Least
<1>2. Chunk(f, p) = SubSeq(f, p + 1, e)
  BY DEF Chunk
<1>5. e = Least(p + SIZE, Len(f))
  OBVIOUS
<1> HIDE DEF e
<1>3. /\ SubSeq(f, p + 1, e) \in Seq(Byte)
      /\ Len(SubSeq(f, p + 1, e)) = e - p
      /\ \A j \in 1 .. e - p : SubSeq(f, p + 1, e)[j] = f[p + j]
  <2>1. \A j \in p + 1 .. e : f[j] \in Byte
    BY <1>1
  <2>2. /\ SubSeq(f, p + 1, e) \in Seq(Byte)
        /\ Len(SubSeq(f, p + 1, e)) = IF p + 1 <= e THEN e - (p + 1) + 1 ELSE 0
        /\ \A j \in 1 .. e - (p + 1) + 1 : SubSeq(f, p + 1, e)[j] = f[p + 1 + j - 1]
    BY <1>1, <2>1, SubSeqProperties
  <2> QED BY <1>1, <2>2
<1>4. SubSeq(f, 1, p) \o SubSeq(f, p + 1, e) = SubSeq(f, 1, e)
  BY <1>1, ConcatAdjacentSubSeq
<1>6. Len(Chunk(f, p)) = e - p /\ p + (e - p) = e /\ e - p \in 1 .. SIZE
  BY <1>1, <1>2, <1>3, DuplexAssumption
<1>7. p + Len(Chunk(f, p)) = e
  BY <1>6
<1>8. Chunk(f, p) \in Seq(Byte) /\ \A j \in 1 .. Len(Chunk(f, p)) : Chunk(f, p)[j] = f[p + j]
  BY <1>2, <1>3, <1>6
<1>9. SubSeq(f, 1, p) \o Chunk(f, p) = SubSeq(f, 1, p + Len(Chunk(f, p)))
  BY <1>2, <1>4, <1>7
<1> QED BY <1>5, <1>6, <1>7, <1>8, <1>9

(* strlen stays inside the chunk, and finds all of it if there is no NUL. *)
LEMMA StrLenFacts ==
  ASSUME NEW c \in Seq(Byte)
  PROVE  /\ StrLen(c) \in 0 .. Len(c)
         /\ (\A j \in 1 .. Len(c) : c[j] # "NUL") => StrLen(c) = Len(c)
<1> DEFINE before == {j \in 1 .. Len(c) : \A k \in 1 .. j : c[k] # "NUL"}
<1>1. IsFiniteSet(1 .. Len(c)) /\ Cardinality(1 .. Len(c)) = Len(c)
  <2>1. 1 \in Int /\ Len(c) \in Int /\ Len(c) >= 0
    OBVIOUS
  <2>2. /\ IsFiniteSet(1 .. Len(c))
        /\ Cardinality(1 .. Len(c)) = IF 1 > Len(c) THEN 0 ELSE Len(c) - 1 + 1
    BY <2>1, FS_Interval, ZenonT(20)
  <2> QED BY <2>1, <2>2
<1>2. IsFiniteSet(before) /\ Cardinality(before) <= Cardinality(1 .. Len(c))
  BY <1>1, FS_Subset
<1>3. Cardinality(before) \in Nat
  BY <1>2, FS_CardinalityType
<1>4. (\A j \in 1 .. Len(c) : c[j] # "NUL") => before = 1 .. Len(c)
  OBVIOUS
<1>5. StrLen(c) = Cardinality(before)
  BY DEF StrLen
<1> HIDE DEF before
<1> QED BY <1>1, <1>2, <1>3, <1>4, <1>5

(* The bytes of a message of at most SIZE bytes are all taken by one read(),  *)
(* and are the beginning of data then.                                        *)
LEMMA OneRead ==
  ASSUME NEW m \in Seq(Byte), Len(m) <= SIZE, NEW d \in [1 .. SIZE -> Byte]
  PROVE  /\ Taken(m) = m
         /\ Rest(m) = <<>>
         /\ Over(m, d) \in [1 .. SIZE -> Byte]
         /\ SubSeq(Over(m, d), 1, Len(m)) = m
<1>1. Least(SIZE, Len(m)) = Len(m)
  BY DuplexAssumption DEF Least
<1>2. Taken(m) = m
  BY <1>1, SubSeqFull DEF Taken
<1>3. Rest(m) = <<>>
  BY <1>1, SubSeqEmpty DEF Rest
<1>4. Over(m, d) \in [1 .. SIZE -> Byte]
  BY DEF Over
<1>5. SubSeq(Over(m, d), 1, Len(m)) = m
  <2> DEFINE s == SubSeq(Over(m, d), 1, Len(m))
  <2>1. \A j \in 1 .. Len(m) : Over(m, d)[j] = m[j]
    BY DuplexAssumption DEF Over
  <2>2. \A j \in 1 .. Len(m) : Over(m, d)[j] \in Byte
    BY <2>1
  <2>3. /\ s \in Seq(Byte)
        /\ Len(s) = IF 1 <= Len(m) THEN Len(m) - 1 + 1 ELSE 0
        /\ \A j \in 1 .. Len(m) - 1 + 1 : s[j] = Over(m, d)[1 + j - 1]
    BY <2>2, SubSeqProperties
  <2> HIDE DEF s
  <2>4. Len(s) = Len(m) /\ \A j \in 1 .. Len(m) : s[j] = m[j]
    BY <2>1, <2>3
  <2> QED
    BY <2>3, <2>4 DEF s
<1> QED BY <1>2, <1>3, <1>4, <1>5

(* Multiples of the size of a chunk. *)
LEMMA Multiples ==
  ASSUME NEW p \in Nat, NEW n \in Nat, p % SIZE = 0
  PROVE  /\ (p + SIZE) % SIZE = 0
         /\ n % SIZE = 0 /\ p < n => p + SIZE <= n
<1>0. SIZE \in Nat \ {0}
  BY DuplexAssumption
<1>1. PICK a \in Nat : p = SIZE * a
  BY <1>0
<1>2. (SIZE * (a + 1)) % SIZE = 0
  BY <1>0
<1>3. p + SIZE = SIZE * (a + 1)
  BY <1>0, <1>1
<1>4. ASSUME n % SIZE = 0, p < n
      PROVE  p + SIZE <= n
  <2>1. PICK b \in Nat : n = SIZE * b
    BY <1>0, <1>4
  <2>2. a < b
    BY <1>0, <1>1, <1>4, <2>1
  <2>3. SIZE * (a + 1) <= SIZE * b
    BY <1>0, <2>2
  <2> QED
    BY <1>3, <2>1, <2>3
<1> QED
  BY <1>2, <1>3, <1>4

Amount == LET c == Chunk(file, pos) IN IF Len(c) # SIZE THEN StrLen(c) ELSE plen

(* What the parent sends of the next chunk: at most SIZE bytes, and all of it *)
(* if strlen leaves the file whole.                                           *)
LEMMA SentFacts ==
  ASSUME TypeOK, EchoInv, plen = SIZE, pos < Len(file)
  PROVE  LET c == Chunk(file, pos)
             m == SubSeq(c, 1, Amount)
         IN  /\ Amount \in 0 .. SIZE
             /\ m \in Seq(Byte) /\ Len(m) = Amount
             /\ pos + Len(c) \in 0 .. Len(file)
             /\ (pos + Len(c)) % SIZE = 0 \/ pos + Len(c) = Len(file)
             /\ Whole => m = c
<1> DEFINE c == Chunk(file, pos)
           m == SubSeq(c, 1, Amount)
<1>1. file \in Seq(Byte) /\ Len(file) \in Nat /\ pos \in 0 .. Len(file) - 1
  BY FileIsSeq DEF TypeOK
<1>2. /\ c \in Seq(Byte) /\ Len(c) \in 1 .. SIZE
      /\ pos + Len(c) = Least(pos + SIZE, Len(file))
      /\ \A j \in 1 .. Len(c) : c[j] = file[pos + j]
  BY <1>1, ChunkFacts
<1>3. Amount = IF Len(c) # SIZE THEN StrLen(c) ELSE SIZE
  BY DEF Amount
<1> HIDE DEF c
<1>4. Amount \in 0 .. Len(c)
  BY <1>2, <1>3, StrLenFacts
<1>5. m \in Seq(Byte) /\ Len(m) = Amount
  <2>1. \A j \in 1 .. Amount : c[j] \in Byte
    BY <1>2, <1>4
  <2>2. /\ m \in Seq(Byte)
        /\ Len(m) = IF 1 <= Amount THEN Amount - 1 + 1 ELSE 0
    BY <1>4, <2>1, SubSeqProperties
  <2> HIDE DEF m
  <2> QED BY <1>4, <2>2
<1>6. pos % SIZE = 0
  BY <1>1 DEF EchoInv
<1>7. pos + Len(c) \in 0 .. Len(file)
  BY <1>1, <1>2, DuplexAssumption DEF Least
<1>8. (pos + Len(c)) % SIZE = 0 \/ pos + Len(c) = Len(file)
  <2>1. pos + Len(c) = pos + SIZE \/ pos + Len(c) = Len(file)
    BY <1>2 DEF Least
  <2>2. pos \in Nat /\ (pos + SIZE) % SIZE = 0
    BY <1>1, <1>6, Multiples
  <2> QED BY <2>1, <2>2
<1>9. ASSUME Whole
      PROVE  m = c
  <2>1. CASE Len(file) % SIZE = 0
    <3>1. pos + SIZE <= Len(file)
      BY <1>1, <1>6, <2>1, Multiples
    <3>2. Len(c) = SIZE
      <4>1. Len(file) - pos >= SIZE
        BY <1>1, <3>1, DuplexAssumption
      <4> QED
        BY <1>1, <1>2, <4>1, DuplexAssumption, SMTT(20) DEF Least
    <3> QED
      BY <1>2, <1>3, <3>2, SubSeqFull
  <2>2. CASE \A j \in 1 .. Len(file) : file[j] # "NUL"
    <3>1. ASSUME NEW j \in 1 .. Len(c)
          PROVE  c[j] # "NUL"
      <4>1. pos + j \in 1 .. Len(file)
        BY <1>1, <1>2, <1>7
      <4>2. c[j] = file[pos + j]
        BY <1>2
      <4> QED
        BY <4>1, <4>2, <2>2
    <3>2. Amount = Len(c)
      BY <1>2, <1>3, <3>1, StrLenFacts
    <3> QED
      BY <1>2, <3>2, SubSeqFull
  <2> QED
    BY <1>9, <2>1, <2>2 DEF Whole
<1>10. Amount \in 0 .. SIZE
  BY <1>2, <1>4, DuplexAssumption
<1> QED
  BY <1>5, <1>7, <1>8, <1>9, <1>10 DEF c

(* Initially nothing is under way in either pipe, and nothing is written.     *)
LEMMA InitIInv == Init => IInv
<1> SUFFICES ASSUME Init PROVE IInv
  OBVIOUS
<1>1. file \in Seq(Byte) /\ Len(file) \in Nat
  BY FileIsSeq DEF Init
<1>2. TypeOK
  BY <1>1, DuplexAssumption DEF Init, TypeOK, Byte
<1>3. PingPong
  BY DuplexAssumption DEF Init, PingPong
<1>4. EchoInv
  <2>1. 0 % SIZE = 0
    BY DuplexAssumption
  <2> QED BY <2>1 DEF Init, EchoInv
<1> QED BY <1>2, <1>3, <1>4 DEF IInv

(* The parent forks, or fails to. *)
LEMMA ForkStep == IInv /\ Fork => IInv'
<1> SUFFICES ASSUME IInv, Fork PROVE IInv'
  OBVIOUS
<1>1. TypeOK'
  BY DEF IInv, Fork, TypeOK
<1>2. PingPong'
  BY DEF IInv, Fork, PingPong, TypeOK
<1>3. EchoInv'
  <2>1. file \in Seq(Byte)
    BY FileIsSeq DEF IInv, TypeOK
  <2>2. SubSeq(file, 1, 0) = <<>>
    BY SubSeqEmpty
  <2> QED BY <2>1, <2>2 DEF IInv, Fork, EchoInv, Away, Whole
<1> QED BY <1>1, <1>2, <1>3 DEF IInv

(* A chunk goes into the empty pipe. *)
LEMMA ParentSendStep == IInv /\ ParentSend => IInv'
<1> SUFFICES ASSUME IInv, ParentSend PROVE IInv'
  OBVIOUS
<1> DEFINE c == Chunk(file, pos)
           m == SubSeq(c, 1, Amount)
<1>1. /\ ppc = "send" /\ pos < Len(file) /\ ppc' = "rcv"
      /\ direct' = direct \o m /\ plen' = Amount /\ pos' = pos + Len(c)
      /\ CanWrite(direct, Amount)
      /\ UNCHANGED <<file, out, back, cpc, clen, cdata>>
  BY DEF ParentSend, Amount, childVars
<1>2. direct = <<>> /\ back = <<>> /\ cpc = "rcv" /\ plen = SIZE
  BY <1>1 DEF IInv, PingPong
<1>3. /\ Amount \in 0 .. SIZE /\ m \in Seq(Byte) /\ Len(m) = Amount
      /\ pos + Len(c) \in 0 .. Len(file)
      /\ (pos + Len(c)) % SIZE = 0 \/ pos + Len(c) = Len(file)
      /\ Whole => m = c
  BY <1>1, <1>2, SentFacts DEF IInv
<1>4. file \in Seq(Byte) /\ Len(file) \in Nat /\ pos \in 0 .. Len(file) - 1
  BY <1>1, FileIsSeq DEF IInv, TypeOK
<1>5. c \in Seq(Byte) /\ SubSeq(file, 1, pos) \o c = SubSeq(file, 1, pos + Len(c))
  BY <1>4, ChunkFacts
<1> HIDE DEF c, m
<1>6. direct' = m
  BY <1>1, <1>2, <1>3, ConcatEmptySeq
<1>7. TypeOK'
  BY <1>1, <1>3, <1>6, DuplexAssumption DEF IInv, TypeOK
<1>8. PingPong'
  BY <1>1, <1>2, <1>3, <1>6 DEF IInv, PingPong, TypeOK
<1>9. EchoInv'
  <2>1. Whole => out = SubSeq(file, 1, pos)
    BY <1>1 DEF IInv, EchoInv
  <2>2. Away' = m
    BY <1>1, <1>2, <1>3, <1>6, ConcatEmptySeq DEF Away
  <2>3. Whole => out \o m = SubSeq(file, 1, pos + Len(c))
    BY <1>3, <1>5, <2>1
  <2> QED BY <1>1, <1>3, <2>2, <2>3 DEF EchoInv, Whole
<1> QED BY <1>7, <1>8, <1>9 DEF IInv

(* The echo is taken whole: the pipes and the child are empty then. *)
LEMMA ParentReceiveStep == IInv /\ ParentReceive => IInv'
<1> SUFFICES ASSUME IInv, ParentReceive PROVE IInv'
  OBVIOUS
<1>1. /\ ppc = "rcv" /\ ppc' = "send" /\ back # <<>> /\ plen' = SIZE
      /\ out' = out \o Taken(back) /\ back' = Rest(back)
      /\ UNCHANGED <<file, pos, direct, cpc, clen, cdata>>
  BY DEF ParentReceive, childVars
<1>2. direct = <<>> /\ cpc = "rcv" /\ Len(back) <= SIZE
  BY <1>1 DEF IInv, PingPong
<1>3. back \in Seq(Byte) /\ cdata \in [1 .. SIZE -> Byte] /\ out \in Seq(Byte)
  BY DEF IInv, TypeOK
<1>4. out' = out \o back /\ back' = <<>>
  BY <1>1, <1>2, <1>3, OneRead
<1>5. TypeOK'
  BY <1>1, <1>3, <1>4, DuplexAssumption DEF IInv, TypeOK
<1>6. PingPong'
  BY <1>1, <1>2, <1>4, DuplexAssumption DEF IInv, PingPong
<1>7. EchoInv'
  <2>1. Away = back
    BY <1>2, <1>3, ConcatEmptySeq DEF Away
  <2>2. Whole => out \o back = SubSeq(file, 1, pos)
    BY <1>1, <1>2, <2>1 DEF IInv, EchoInv
  <2> QED BY <1>1, <1>4, <2>2 DEF IInv, EchoInv, Whole
<1> QED BY <1>5, <1>6, <1>7 DEF IInv

(* At the end of the file all of it has come back. *)
LEMMA ParentExitStep == IInv /\ ParentExit => IInv'
<1> SUFFICES ASSUME IInv, ParentExit PROVE IInv'
  OBVIOUS
<1> DEFINE m == [j \in 1 .. plen |-> IF j = 1 THEN "EXIT" ELSE "NUL"]
<1>1. /\ ppc = "send" /\ pos = Len(file) /\ ppc' = "done"
      /\ direct' = direct \o m
      /\ UNCHANGED <<file, plen, pos, out, back, cpc, clen, cdata>>
  BY DEF ParentExit, childVars
<1>2. direct = <<>> /\ back = <<>> /\ cpc = "rcv" /\ plen = SIZE
  BY <1>1 DEF IInv, PingPong
<1>3. m \in Seq(Byte) /\ Len(m) = SIZE
  BY <1>2, DuplexAssumption DEF Byte
<1> HIDE DEF m
<1>4. direct' = m
  BY <1>1, <1>2, <1>3, ConcatEmptySeq
<1>5. TypeOK'
  BY <1>1, <1>3, <1>4, DuplexAssumption DEF IInv, TypeOK
<1>6. PingPong'
  BY <1>1, <1>2, <1>3, <1>4, DuplexAssumption DEF IInv, PingPong
<1>7. EchoInv'
  <2>1. file \in Seq(Byte)
    BY FileIsSeq DEF IInv, TypeOK
  <2>2. SubSeq(file, 1, Len(file)) = file
    BY <2>1, SubSeqFull
  <2> QED BY <1>1, <2>2 DEF IInv, EchoInv, Whole
<1> QED BY <1>5, <1>6, <1>7 DEF IInv

(* The child takes the chunk from the pipe whole. *)
LEMMA ChildReceiveStep == IInv /\ ChildReceive => IInv'
<1> SUFFICES ASSUME IInv, ChildReceive PROVE IInv'
  OBVIOUS
<1>1. /\ cpc = "rcv" /\ cpc' = "reply" /\ direct # <<>>
      /\ cdata' = Over(Taken(direct), cdata) /\ clen' = Len(Taken(direct))
      /\ direct' = Rest(direct)
      /\ UNCHANGED <<file, ppc, plen, pos, out, back>>
  BY DEF ChildReceive, parentVars
<1>2. back = <<>> /\ Len(direct) <= SIZE /\ ppc \notin {"fork", "failed", "send"}
  BY <1>1 DEF IInv, PingPong
<1>3. direct \in Seq(Byte) /\ cdata \in [1 .. SIZE -> Byte]
  BY DEF IInv, TypeOK
<1>4. /\ cdata' \in [1 .. SIZE -> Byte] /\ clen' = Len(direct) /\ direct' = <<>>
      /\ SubSeq(cdata', 1, clen') = direct
  BY <1>1, <1>2, <1>3, OneRead
<1>5. clen' \in 1 .. SIZE
  BY <1>1, <1>2, <1>3, <1>4
<1>6. TypeOK'
  BY <1>1, <1>4, <1>5, DuplexAssumption DEF IInv, TypeOK
<1>7. PingPong'
  BY <1>1, <1>2, <1>4, DuplexAssumption DEF IInv, PingPong
<1>8. EchoInv'
  <2>1. Away = direct /\ Away' = direct
    BY <1>1, <1>2, <1>3, <1>4, ConcatEmptySeq DEF Away
  <2> QED BY <1>1, <2>1 DEF IInv, EchoInv, Whole
<1> QED BY <1>6, <1>7, <1>8 DEF IInv

(* The child ends, or sends back what it has. *)
LEMMA ChildReplyStep == IInv /\ ChildReply => IInv'
<1> SUFFICES ASSUME IInv, ChildReply PROVE IInv'
  OBVIOUS
<1>1. /\ cpc = "reply"
      /\ UNCHANGED <<file, ppc, plen, pos, out, direct, cdata>>
  BY DEF ChildReply, parentVars
<1>2. /\ direct = <<>> /\ back = <<>> /\ ppc \notin {"fork", "failed", "send"}
  BY <1>1 DEF IInv, PingPong
<1>3. CASE IsExit(cdata)
  <2>1. cpc' = "done" /\ UNCHANGED <<clen, back>>
    BY <1>3 DEF ChildReply
  <2>2. TypeOK'
    BY <1>1, <2>1 DEF IInv, TypeOK
  <2>3. PingPong'
    BY <1>1, <1>2, <2>1 DEF IInv, PingPong
  <2>4. EchoInv'
    BY <1>1, <1>2, <2>1 DEF IInv, EchoInv, Whole
  <2> QED BY <2>2, <2>3, <2>4 DEF IInv
<1>4. CASE ~IsExit(cdata)
  <2> DEFINE m == SubSeq(cdata, 1, clen)
  <2>1. CanWrite(back, clen) /\ back' = back \o m /\ clen' = SIZE /\ cpc' = "rcv"
    BY <1>4 DEF ChildReply
  <2>2. m \in Seq(Byte) /\ Len(m) = clen /\ clen \in 1 .. SIZE
    <3>1. clen \in 1 .. SIZE /\ \A j \in 1 .. clen : cdata[j] \in Byte
      BY DuplexAssumption DEF IInv, TypeOK
    <3>2. m \in Seq(Byte) /\ Len(m) = IF 1 <= clen THEN clen - 1 + 1 ELSE 0
      BY <3>1, SubSeqProperties
    <3> HIDE DEF m
    <3> QED BY <3>1, <3>2
  <2> HIDE DEF m
  <2>3. back' = m
    BY <1>2, <2>1, <2>2, ConcatEmptySeq
  <2>4. TypeOK'
    BY <1>1, <2>1, <2>2, <2>3, DuplexAssumption DEF IInv, TypeOK
  <2>5. PingPong'
    BY <1>1, <1>2, <2>1, <2>2, <2>3 DEF IInv, PingPong
  <2>6. EchoInv'
    <3>1. Away = m
      BY <1>1 DEF Away, m
    <3>2. Away' = m
      BY <1>1, <1>2, <2>1, <2>2, <2>3, ConcatEmptySeq DEF Away
    <3> QED BY <1>1, <1>2, <3>1, <3>2 DEF IInv, EchoInv, Whole
  <2> QED BY <2>4, <2>5, <2>6 DEF IInv
<1> QED BY <1>3, <1>4

(* The inductive invariant holds for every size of chunk, pipe and file.      *)
THEOREM Invariance == Spec => []IInv
<1>1. Init => IInv
  BY InitIInv
<1>2. IInv /\ [Next]_vars => IInv'
  <2> SUFFICES ASSUME IInv, [Next]_vars PROVE IInv'
    OBVIOUS
  <2>1. CASE ParentStep
    BY <2>1, ForkStep, ParentSendStep, ParentReceiveStep, ParentExitStep DEF ParentStep
  <2>2. CASE ChildStep
    BY <2>2, ChildReceiveStep, ChildReplyStep DEF ChildStep
  <2>3. CASE UNCHANGED vars
    BY <2>3 DEF vars, parentVars, childVars, IInv, TypeOK, PingPong, EchoInv, Away, Whole
  <2> QED BY <2>1, <2>2, <2>3 DEF Next
<1> QED BY <1>1, <1>2, PTL DEF Spec

(* Chunks stay apart in the pipes: the parent sends one only when nothing is  *)
(* under way (main.c:74-87).                                                  *)
THEOREM ChunksApart == Spec => []OneChunkAway
<1>1. IInv => OneChunkAway
  <2> SUFFICES ASSUME IInv PROVE OneChunkAway
    OBVIOUS
  <2>1. direct \in Seq(Byte) /\ back \in Seq(Byte) /\ clen \in 1 .. SIZE
    BY DEF IInv, TypeOK
  <2>2. Len(direct) + Len(back) + (IF cpc = "reply" THEN clen ELSE 0) <= SIZE
    <3>1. CASE cpc = "reply"
      BY <2>1, <3>1, DuplexAssumption DEF IInv, PingPong
    <3>2. CASE cpc # "reply" /\ back # <<>>
      BY <2>1, <3>2, DuplexAssumption DEF IInv, PingPong
    <3>3. CASE cpc # "reply" /\ back = <<>>
      BY <2>1, <3>3, DuplexAssumption DEF IInv, PingPong
    <3> QED BY <3>1, <3>2, <3>3
  <2> QED BY <2>2 DEF IInv, PingPong, OneChunkAway
<1> QED BY <1>1, Invariance, PTL

(* A text file, or a binary file of whole chunks, comes back as it is         *)
(* (test_prog.sh:14), whatever its size.                                      *)
THEOREM SumsAgree == Spec => []SameSums
<1>1. IInv => SameSums
  BY DEF IInv, EchoInv, SameSums, Whole
<1> QED BY <1>1, Invariance, PTL

---------------------------------------------------------------------------
(* The transfer of every file, also of one that strlen cuts or the child      *)
(* takes for the end.  The number of chunks of a file: *)
LEMMA ChunksFacts ==
  ASSUME NEW f \in Seq(Byte)
  PROVE  /\ Chunks(f) \in Nat
         /\ \A q \in Nat : q < Chunks(f) <=> q * SIZE < Len(f)
<1> DEFINE l == Len(f)
           c == (l + SIZE - 1) \div SIZE
<1>1. l \in Nat /\ SIZE \in Nat /\ SIZE >= 2
  BY DuplexAssumption
<1>2. Chunks(f) = c
  BY DEF Chunks
<1> HIDE DEF l
<1>3. c \in Nat /\ c * SIZE <= l + SIZE - 1 /\ l + SIZE - 1 < (c + 1) * SIZE
  BY <1>1
<1> HIDE DEF c
<1>4. ASSUME NEW q \in Nat
      PROVE  q < c <=> q * SIZE < l
  <2>1. /\ q * SIZE \in Nat /\ c * SIZE \in Nat
        /\ (c + 1) * SIZE = c * SIZE + SIZE /\ (q + 1) * SIZE = q * SIZE + SIZE
    BY <1>1, <1>3
  <2>2. CASE q < c
    <3>1. (q + 1) * SIZE <= c * SIZE
      BY <1>1, <1>3, <2>2
    <3> QED BY <1>1, <1>3, <2>1, <2>2, <3>1
  <2>3. CASE q >= c
    <3>1. c * SIZE <= q * SIZE
      BY <1>1, <1>3, <2>3
    <3>2. l <= c * SIZE
      BY <1>1, <1>3, <2>1
    <3> QED BY <1>1, <1>3, <2>1, <2>3, <3>1, <3>2
  <2> QED BY <1>3, <2>2, <2>3
<1> QED BY <1>2, <1>3, <1>4 DEF l

(* The message of a chunk: a beginning of the chunk, all of it if the chunk   *)
(* is not the last one.                                                       *)
LEMMA MessageFacts ==
  ASSUME NEW f \in Seq(Byte), NEW n \in 1 .. Chunks(f)
  PROVE  LET p == (n - 1) * SIZE
             c == Chunk(f, p)
         IN  /\ p \in 0 .. Len(f) - 1
             /\ Message(f, n) \in Seq(Byte) /\ Len(Message(f, n)) <= SIZE
             /\ Message(f, n) = IF Len(c) = SIZE THEN c ELSE SubSeq(c, 1, StrLen(c))
             /\ n < Chunks(f) => /\ Message(f, n) = c
                                 /\ Len(c) = SIZE
                                 /\ c \in Seq(Byte)
                                 /\ SubSeq(f, 1, p) \o c = SubSeq(f, 1, n * SIZE)
                                 /\ n * SIZE \in 0 .. Len(f) - 1
<1> DEFINE p == (n - 1) * SIZE
           c == Chunk(f, p)
           m == Message(f, n)
<1>0. SIZE \in Nat /\ SIZE >= 2 /\ Len(f) \in Nat /\ Chunks(f) \in Nat /\ n \in Nat /\ n - 1 \in Nat
  BY DuplexAssumption, ChunksFacts
<1>1. p \in 0 .. Len(f) - 1
  <2>1. p < Len(f)
    <3> DEFINE k == n - 1
    <3>1. k \in Nat /\ k < Chunks(f) /\ p = k * SIZE
      BY <1>0
    <3> HIDE DEF k, p
    <3> QED BY <3>1, ChunksFacts
  <2>2. p \in Nat
    BY <1>0
  <2> HIDE DEF p
  <2> QED BY <1>0, <2>1, <2>2
<1>2. /\ c \in Seq(Byte) /\ Len(c) \in 1 .. SIZE
      /\ p + Len(c) = Least(p + SIZE, Len(f))
      /\ SubSeq(f, 1, p) \o c = SubSeq(f, 1, p + Len(c))
  <2> HIDE DEF p
  <2> QED BY <1>1, ChunkFacts
<1>3. m = IF Len(c) = SIZE THEN c ELSE SubSeq(c, 1, StrLen(c))
  BY DEF Message
<1>4. n * SIZE = p + SIZE
  BY <1>0
<1> HIDE DEF c
<1>5. m \in Seq(Byte) /\ Len(m) <= SIZE
  <2>1. StrLen(c) \in 0 .. Len(c)
    BY <1>2, StrLenFacts
  <2>2. SubSeq(c, 1, StrLen(c)) \in Seq(Byte) /\ Len(SubSeq(c, 1, StrLen(c))) = StrLen(c)
    BY <1>2, <2>1
  <2> HIDE DEF m
  <2> QED BY <1>0, <1>2, <1>3, <2>1, <2>2
<1> HIDE DEF m
<1>6. ASSUME n < Chunks(f)
      PROVE  /\ m = c /\ Len(c) = SIZE
             /\ SubSeq(f, 1, p) \o c = SubSeq(f, 1, n * SIZE)
             /\ n * SIZE \in 0 .. Len(f) - 1
  <2>1. n * SIZE < Len(f)
    BY <1>0, <1>6, ChunksFacts
  <2> HIDE DEF p
  <2>2. Len(c) = SIZE
    BY <1>0, <1>1, <1>2, <1>4, <2>1 DEF Least
  <2> QED BY <1>0, <1>1, <1>2, <1>3, <1>4, <2>1, <2>2
<1> HIDE DEF p
<1> QED BY <1>1, <1>2, <1>3, <1>5, <1>6 DEF p, c, m

(* What is sent of the chunks of a file grows by the message of the next.     *)
LEMMA UptoFacts ==
  ASSUME NEW f \in Seq(Byte)
  PROVE  /\ Upto(f, 0) = <<>>
         /\ \A n \in 1 .. Chunks(f) :
               /\ Upto(f, n) = Upto(f, n - 1) \o Message(f, n)
               /\ Upto(f, n - 1) = SubSeq(f, 1, (n - 1) * SIZE)
<1>1. Upto(f, 0) = <<>>
  BY DEF Upto
<1>2. ASSUME NEW n \in 1 .. Chunks(f)
      PROVE  Upto(f, n - 1) = SubSeq(f, 1, (n - 1) * SIZE)
  <2>0. SIZE \in Nat /\ Chunks(f) \in Nat /\ n \in Nat
    BY DuplexAssumption, ChunksFacts
  <2>1. CASE n = 1
    <3>1. n - 1 = 0 /\ 0 * SIZE = 0
      BY <2>0, <2>1
    <3>2. SubSeq(f, 1, 0) = <<>>
      BY SubSeqEmpty
    <3> QED BY <1>1, <3>1, <3>2
  <2>2. CASE n # 1
    <3>1. n - 1 \in 1 .. Chunks(f) /\ n - 1 < Chunks(f) /\ n - 1 # 0
      BY <2>0, <2>2
    <3> DEFINE k == n - 1
    <3> HIDE DEF k
    <3>2. Upto(f, k) = SubSeq(f, 1, (k - 1) * SIZE) \o Message(f, k)
      BY <3>1 DEF Upto, k
    <3> QED BY <3>1, <3>2, MessageFacts DEF k
  <2> QED BY <2>1, <2>2
<1>3. ASSUME NEW n \in 1 .. Chunks(f)
      PROVE  Upto(f, n) = Upto(f, n - 1) \o Message(f, n)
  <2>1. n # 0
    BY ChunksFacts
  <2> QED BY <1>2, <2>1 DEF Upto
<1> QED BY <1>1, <1>2, <1>3

LEMMA Beginning ==
  ASSUME NEW f \in Seq(Byte), NEW b \in Seq(Byte), NEW a \in 0 .. Len(f), NEW k \in 0 .. a
  PROVE  /\ SubSeq(f, 1, a) \in Seq(Byte) /\ Len(SubSeq(f, 1, a)) = a
         /\ SubSeq(SubSeq(f, 1, a) \o b, 1, k) = SubSeq(f, 1, k)
<1> DEFINE s == SubSeq(f, 1, a)
           t == s \o b
<1>1. /\ SubSeq(f, 1, a) \in Seq(Byte) /\ Len(SubSeq(f, 1, a)) = a
      /\ \A j \in 1 .. a : SubSeq(f, 1, a)[j] = f[j]
  OBVIOUS
<1>2. /\ SubSeq(f, 1, k) \in Seq(Byte) /\ Len(SubSeq(f, 1, k)) = k
      /\ \A j \in 1 .. k : SubSeq(f, 1, k)[j] = f[j]
  OBVIOUS
<1>3. s \in Seq(Byte) /\ Len(s) = a /\ \A j \in 1 .. a : s[j] = f[j]
  BY <1>1
<1> HIDE DEF s
<1>4. t \in Seq(Byte) /\ Len(t) = a + Len(b) /\ \A j \in 1 .. a : t[j] = s[j]
  BY <1>3
<1> HIDE DEF t
<1>5. SubSeq(t, 1, k) \in Seq(Byte) /\ Len(SubSeq(t, 1, k)) = k
      /\ \A j \in 1 .. k : SubSeq(t, 1, k)[j] = t[j]
  BY <1>4
<1>6. \A j \in 1 .. k : SubSeq(t, 1, k)[j] = SubSeq(f, 1, k)[j]
  BY <1>2, <1>3, <1>4, <1>5
<1>7. SubSeq(t, 1, k) = SubSeq(f, 1, k)
  BY <1>2, <1>5, <1>6, SeqEqual
<1> QED BY <1>1, <1>7 DEF t, s

(* What is sent of fewer chunks is a beginning of what is sent of more.       *)
LEMMA UptoPrefix ==
  ASSUME NEW f \in Seq(Byte), NEW n \in 0 .. Chunks(f), NEW m \in 0 .. n
  PROVE  /\ Upto(f, n) \in Seq(Byte)
         /\ Len(Upto(f, m)) \in 0 .. Len(Upto(f, n))
         /\ Upto(f, m) = SubSeq(Upto(f, n), 1, Len(Upto(f, m)))
<1>0. /\ SIZE \in Nat /\ SIZE >= 2 /\ Chunks(f) \in Nat /\ Len(f) \in Nat
      /\ n \in Nat /\ m \in Nat /\ m <= n
  BY DuplexAssumption, ChunksFacts
<1> DEFINE a == (n - 1) * SIZE
           u == Upto(f, n)
           v == Upto(f, m)
<1>1. CASE n = 0
  <2>1. u = <<>> /\ v = <<>>
    BY <1>0, <1>1, UptoFacts
  <2> HIDE DEF u, v
  <2>2. u \in Seq(Byte) /\ Len(u) = 0 /\ Len(v) = 0 /\ v = SubSeq(u, 1, 0)
    BY <2>1
  <2> QED BY <2>2 DEF u, v
<1>2. CASE n # 0
  <2>0. n \in 1 .. Chunks(f)
    BY <1>0, <1>2
  <2>1. a \in 0 .. Len(f) /\ Message(f, n) \in Seq(Byte)
    BY <2>0, MessageFacts
  <2>2. u = SubSeq(f, 1, a) \o Message(f, n)
    BY <2>0, UptoFacts
  <2>3. SubSeq(f, 1, a) \in Seq(Byte) /\ Len(SubSeq(f, 1, a)) = a
    <3> HIDE DEF a
    <3> QED BY <2>1
  <2>4. u \in Seq(Byte) /\ Len(u) = a + Len(Message(f, n))
    <3> HIDE DEF a, u
    <3> QED BY <2>1, <2>2, <2>3
  <2>5. CASE m = n
    <3>1. v = u
      BY <2>5
    <3> HIDE DEF u, v
    <3>2. SubSeq(u, 1, Len(u)) = u
      BY <2>4, SubSeqFull
    <3> QED BY <2>4, <3>1, <3>2 DEF u, v
  <2>6. CASE m # n
    <3> DEFINE k == m * SIZE
    <3>1. m + 1 \in 1 .. Chunks(f) /\ (m + 1) - 1 = m
      BY <1>0, <2>0, <2>6
    <3>2. v = SubSeq(f, 1, k)
      BY <3>1, UptoFacts
    <3>3. k \in 0 .. a
      BY <1>0, <2>6
    <3> HIDE DEF a, k, u, v
    <3>4. SubSeq(u, 1, k) = SubSeq(f, 1, k)
      BY <2>1, <2>2, <3>3, Beginning
    <3>5. Len(v) = k
      BY <2>1, <3>2, <3>3
    <3>6. Len(v) \in 0 .. Len(u) /\ v = SubSeq(u, 1, Len(v))
      BY <2>1, <2>4, <3>2, <3>3, <3>4, <3>5
    <3> QED BY <2>4, <3>6 DEF u, v
  <2> QED BY <2>5, <2>6
<1> QED BY <1>1, <1>2

(* A set of numbers that is not empty has a least one. *)
LEMMA HasLeast ==
  ASSUME NEW S \in SUBSET Nat, S # {}
  PROVE  \E m \in S : \A n \in S : m <= n
<1>1. PICK m \in S : \A n \in S : <<n, m>> \notin OpToRel(<, Nat)
  BY WFMin, NatLessThanWellFounded
<1>2. ASSUME NEW n \in S PROVE ~(n < m)
  BY <1>1, Zenon DEF OpToRel
<1> QED BY <1>2

(* The output is to be what is sent of the chunks before the first one that   *)
(* is never answered. *)
LEMMA LastAnsweredFacts ==
  ASSUME NEW f \in Seq(Byte)
  PROVE  /\ LastAnswered(f) \in 0 .. Chunks(f)
         /\ \A n \in 0 .. Chunks(f) : AnsweredTo(f, n) => n <= LastAnswered(f)
<1> DEFINE Is(m) == AnsweredTo(f, m) /\ (m = Chunks(f) \/ ~AnsweredTo(f, m + 1))
           stop  == {n \in 1 .. Chunks(f) : Unanswered(f, n)}
<1>0. Chunks(f) \in Nat
  BY ChunksFacts
<1>1. \E m \in 0 .. Chunks(f) : Is(m)
  <2>1. CASE stop = {}
    <3>1. Is(Chunks(f))
      BY <1>0, <2>1 DEF AnsweredTo
    <3> QED BY <1>0, <3>1
  <2>2. CASE stop # {}
    <3>1. stop \in SUBSET Nat
      BY <1>0
    <3> HIDE DEF stop
    <3>2. PICK k \in stop : \A n \in stop : k <= n
      BY <2>2, <3>1, HasLeast
    <3>3. k \in 1 .. Chunks(f) /\ Unanswered(f, k)
      BY <3>2 DEF stop
    <3>4. ASSUME NEW n \in 1 .. k - 1 PROVE ~Unanswered(f, n)
      BY <1>0, <3>2, <3>3 DEF stop
    <3>5. k - 1 \in 0 .. Chunks(f) /\ (k - 1) + 1 = k /\ k \in 1 .. k
      BY <1>0, <3>3
    <3>6. ~AnsweredTo(f, k)
      BY <3>3, <3>5 DEF AnsweredTo
    <3>7. AnsweredTo(f, k - 1)
      BY <3>4 DEF AnsweredTo
    <3> QED BY <3>5, <3>6, <3>7
  <2> QED BY <2>1, <2>2
<1> DEFINE l == LastAnswered(f)
<1>2. l \in 0 .. Chunks(f) /\ Is(l)
  BY <1>1, Zenon DEF LastAnswered
<1> HIDE DEF l
<1>3. ASSUME NEW n \in 0 .. Chunks(f), AnsweredTo(f, n), n > l
      PROVE  FALSE
  <2>1. ~AnsweredTo(f, l + 1)
    BY <1>0, <1>2, <1>3
  <2>2. l + 1 \in 1 .. n /\ 1 .. l + 1 \subseteq 1 .. n
    BY <1>0, <1>2, <1>3
  <2> QED BY <1>3, <2>1, <2>2 DEF AnsweredTo
<1>4. ASSUME NEW n \in 0 .. Chunks(f), AnsweredTo(f, n)
      PROVE  n <= l
  BY <1>0, <1>2, <1>3, <1>4
<1> QED BY <1>2, <1>4 DEF l

(* The parent is at the end of the q-th chunk. *)
LEMMA RoundFacts ==
  ASSUME TypeOK, NEW q \in 0 .. Chunks(file), Round(q)
  PROVE  /\ file \in Seq(Byte) /\ Len(file) \in Nat /\ q \in Nat /\ Chunks(file) \in Nat
         /\ pos < Len(file) => /\ q < Chunks(file) /\ pos = q * SIZE
                              /\ q + 1 \in 1 .. Chunks(file)
                              /\ Least(pos + SIZE, Len(file)) = Least((q + 1) * SIZE, Len(file))
         /\ pos = Len(file) => q = Chunks(file)
<1>1. /\ file \in Seq(Byte) /\ Len(file) \in Nat /\ Chunks(file) \in Nat /\ q \in Nat
      /\ q <= Chunks(file) /\ pos = Least(q * SIZE, Len(file)) /\ SIZE \in Nat /\ SIZE >= 2
  BY FileIsSeq, ChunksFacts, DuplexAssumption DEF TypeOK, Round
<1>2. q < Chunks(file) <=> q * SIZE < Len(file)
  BY <1>1, ChunksFacts
<1>3. q * SIZE \in Nat /\ (q + 1) * SIZE = q * SIZE + SIZE
  BY <1>1
<1>4. pos < Len(file) => q < Chunks(file) /\ pos = q * SIZE
  BY <1>1, <1>2, <1>3 DEF Least
<1>5. pos = Len(file) => q = Chunks(file)
  BY <1>1, <1>2, <1>3 DEF Least
<1> QED BY <1>1, <1>3, <1>4, <1>5

LEMMA OneMore ==
  ASSUME NEW f, NEW n \in Nat, n >= 1, AnsweredTo(f, n - 1), ~Unanswered(f, n)
  PROVE  AnsweredTo(f, n)
<1>1. \A j \in 1 .. n : j \in 1 .. n - 1 \/ j = n
  OBVIOUS
<1> QED BY <1>1 DEF AnsweredTo

LEMMA RoundStart == Init => Round(0)
<1> SUFFICES ASSUME Init PROVE Round(0)
  OBVIOUS
<1>1. Least(0 * SIZE, Len(file)) = 0
  BY FileIsSeq, DuplexAssumption DEF Init, Least
<1>2. Upto(file, 0) = <<>> /\ AnsweredTo(file, 0)
  BY DEF Upto, AnsweredTo
<1> QED BY <1>1, <1>2 DEF Init, Round, Home, Before

LEMMA RoundFork ==
  ASSUME IInv, NEW q \in 0 .. Chunks(file), Round(q), Fork
  PROVE  Round(q)'
BY DEF Fork, Round, Home

LEMMA RoundSend ==
  ASSUME IInv, NEW q \in 0 .. Chunks(file), Round(q), ParentSend
  PROVE  q + 1 \in 0 .. Chunks(file) /\ Round(q + 1)'
<1> DEFINE c == Chunk(file, pos)
           m == SubSeq(c, 1, Amount)
<1>1. /\ ppc = "send" /\ pos < Len(file) /\ ppc' = "rcv"
      /\ direct' = direct \o m /\ pos' = pos + Len(c)
      /\ UNCHANGED <<file, out, back, cpc, clen, cdata>>
  BY DEF ParentSend, Amount, childVars
<1>2. direct = <<>> /\ back = <<>> /\ cpc = "rcv" /\ plen = SIZE
  BY <1>1 DEF IInv, PingPong
<1>3. /\ file \in Seq(Byte) /\ q < Chunks(file) /\ pos = q * SIZE /\ q \in Nat
      /\ q + 1 \in 1 .. Chunks(file)
      /\ Least(pos + SIZE, Len(file)) = Least((q + 1) * SIZE, Len(file))
      /\ pos \in 0 .. Len(file) - 1
  BY <1>1, RoundFacts DEF IInv, TypeOK
<1>4. c \in Seq(Byte) /\ pos + Len(c) = Least(pos + SIZE, Len(file))
  BY <1>3, ChunkFacts
<1>5. Amount = IF Len(c) # SIZE THEN StrLen(c) ELSE SIZE
  BY <1>2 DEF Amount
<1>6. (q + 1) - 1 = q
  BY <1>3
<1>7. Message(file, q + 1) = IF Len(c) = SIZE THEN c ELSE SubSeq(c, 1, StrLen(c))
  BY <1>3, <1>6 DEF Message
<1> HIDE DEF c
<1>8. m = Message(file, q + 1)
  BY <1>4, <1>5, <1>7, SubSeqFull
<1>9. m \in Seq(Byte)
  BY <1>3, <1>8, MessageFacts
<1> HIDE DEF m
<1>10. Away' = m
  BY <1>1, <1>2, <1>9, ConcatEmptySeq DEF Away
<1>11. AnsweredTo(file, q) /\ out = Upto(file, q) /\ cdata = Before(file, q)
  BY <1>1, <1>3 DEF Round, Home
<1>12. UnderWay(q + 1)'
  BY <1>1, <1>2, <1>3, <1>6, <1>8, <1>10, <1>11 DEF UnderWay
<1>13. pos' = Least((q + 1) * SIZE, Len(file))
  BY <1>1, <1>3, <1>4
<1> QED BY <1>1, <1>3, <1>12, <1>13 DEF Round

LEMMA WholeChunk ==
  ASSUME NEW m \in Seq(Byte), Len(m) = SIZE, NEW d
  PROVE  Over(m, d) = m
<1>1. Over(m, d) = [j \in 1 .. SIZE |-> m[j]]
  BY DuplexAssumption DEF Over
<1>2. m = [j \in 1 .. Len(m) |-> m[j]]
  OBVIOUS
<1> QED BY <1>1, <1>2

LEMMA RoundReceive ==
  ASSUME IInv, NEW q \in 0 .. Chunks(file), Round(q), ParentReceive
  PROVE  /\ Round(q)' /\ q \in 1 .. Chunks(file) /\ AnsweredTo(file, q)
         /\ out = Upto(file, q - 1) /\ out' = Upto(file, q)
         /\ Upto(file, q) = Upto(file, q - 1) \o Message(file, q) /\ Message(file, q) # <<>>
<1>1. /\ ppc = "rcv" /\ ppc' = "send" /\ back # <<>>
      /\ out' = out \o Taken(back)
      /\ UNCHANGED <<file, pos, direct, cpc, clen, cdata>>
  BY DEF ParentReceive, childVars
<1>2. direct = <<>> /\ cpc = "rcv" /\ Len(back) <= SIZE
  BY <1>1 DEF IInv, PingPong
<1>3. back \in Seq(Byte) /\ cdata \in [1 .. SIZE -> Byte]
  BY DEF IInv, TypeOK
<1>4. Taken(back) = back
  BY <1>2, <1>3, OneRead
<1>5. Away = back
  BY <1>2, <1>3, ConcatEmptySeq DEF Away
<1>6. UnderWay(q)
  BY <1>1 DEF Round
<1>7. /\ q >= 1 /\ AnsweredTo(file, q - 1) /\ ~Unanswered(file, q)
      /\ out = Upto(file, q - 1) /\ back = Message(file, q) /\ cdata = Image(file, q)
  BY <1>1, <1>2, <1>5, <1>6 DEF UnderWay
<1>8. file \in Seq(Byte) /\ q \in Nat /\ q \in 1 .. Chunks(file)
  BY <1>7, RoundFacts DEF IInv
<1>9. Upto(file, q) = Upto(file, q - 1) \o Message(file, q)
  BY <1>8, UptoFacts
<1>10. AnsweredTo(file, q)
  BY <1>7, <1>8, OneMore
<1>11. ASSUME q < Chunks(file) PROVE cdata = Before(file, q)
  <2>1. /\ Message(file, q) = Chunk(file, (q - 1) * SIZE) /\ Message(file, q) \in Seq(Byte)
        /\ Len(Message(file, q)) = SIZE
    BY <1>8, <1>11, MessageFacts
  <2>2. Image(file, q) = Message(file, q)
    BY <2>1, WholeChunk DEF Image
  <2> QED BY <1>7, <1>8, <2>1, <2>2 DEF Before
<1>12. out' = Upto(file, q)
  BY <1>1, <1>4, <1>7, <1>9
<1>13. Home(q)'
  BY <1>1, <1>10, <1>11, <1>12 DEF Home
<1>14. Round(q)'
  BY <1>1, <1>13 DEF Round
<1> QED BY <1>1, <1>7, <1>8, <1>9, <1>10, <1>12, <1>14

LEMMA RoundExit ==
  ASSUME IInv, NEW q \in 0 .. Chunks(file), Round(q), ParentExit
  PROVE  Round(q)' /\ q = Chunks(file) /\ AnsweredTo(file, q) /\ out = Upto(file, q)
<1>1. /\ ppc = "send" /\ pos = Len(file) /\ ppc' = "done" /\ UNCHANGED <<file, pos, out>>
  BY DEF ParentExit
<1>2. q = Chunks(file)
  BY <1>1, RoundFacts DEF IInv
<1>3. AnsweredTo(file, q) /\ out = Upto(file, q)
  BY <1>1 DEF Round, Home
<1> QED BY <1>1, <1>2, <1>3 DEF Round

LEMMA RoundChildReceive ==
  ASSUME IInv, NEW q \in 0 .. Chunks(file), Round(q), ChildReceive
  PROVE  Round(q)'
<1>1. /\ cpc = "rcv" /\ cpc' = "reply" /\ direct # <<>>
      /\ cdata' = Over(Taken(direct), cdata) /\ clen' = Len(Taken(direct))
      /\ UNCHANGED <<file, ppc, pos, out, back>>
  BY DEF ChildReceive, parentVars
<1>2. back = <<>> /\ Len(direct) <= SIZE /\ ppc \in {"rcv", "done"}
  BY <1>1 DEF IInv, PingPong, TypeOK
<1>3. direct \in Seq(Byte) /\ cdata \in [1 .. SIZE -> Byte]
  BY DEF IInv, TypeOK
<1>4. Taken(direct) = direct /\ SubSeq(cdata', 1, clen') = direct
  BY <1>1, <1>2, <1>3, OneRead
<1>5. Away = direct /\ Away' = direct
  BY <1>1, <1>2, <1>3, <1>4, ConcatEmptySeq DEF Away
<1>6. ASSUME ppc = "rcv" PROVE UnderWay(q)'
  <2>1. /\ q >= 1 /\ AnsweredTo(file, q - 1) /\ out = Upto(file, q - 1)
        /\ direct = Message(file, q) /\ cdata = Before(file, q - 1)
    BY <1>1, <1>2, <1>5, <1>6 DEF Round, UnderWay
  <2>2. q \in Nat
    BY RoundFacts DEF IInv
  <2>3. (q - 1 = 0 <=> q = 1) /\ (q - 1) - 1 = q - 2
    BY <2>2
  <2>4. Image(file, q) = Over(Message(file, q), Before(file, q - 1))
    BY <2>3 DEF Image, Before
  <2>5. cdata' = Image(file, q)
    BY <1>1, <1>4, <2>1, <2>4
  <2> QED BY <1>1, <1>2, <1>5, <2>1, <2>5 DEF UnderWay
<1> QED BY <1>1, <1>2, <1>6 DEF Round

LEMMA RoundChildReply ==
  ASSUME IInv, NEW q \in 0 .. Chunks(file), Round(q), ChildReply
  PROVE  Round(q)'
<1>1. /\ cpc = "reply"
      /\ UNCHANGED <<file, ppc, pos, out, direct, cdata>>
  BY DEF ChildReply, parentVars
<1>2. direct = <<>> /\ back = <<>> /\ ppc \in {"rcv", "done"}
  BY <1>1 DEF IInv, PingPong, TypeOK
<1>3. ASSUME ppc = "rcv" PROVE UnderWay(q)'
  <2> DEFINE m == SubSeq(cdata, 1, clen)
  <2>1. /\ q >= 1 /\ AnsweredTo(file, q - 1) /\ out = Upto(file, q - 1)
        /\ m = Message(file, q) /\ cdata = Image(file, q)
    BY <1>1, <1>3 DEF Round, UnderWay, Away
  <2>2. CASE IsExit(cdata)
    <3>1. cpc' = "done" /\ back' = back
      BY <2>2 DEF ChildReply
    <3> QED BY <1>1, <1>2, <2>1, <3>1 DEF UnderWay
  <2>3. CASE ~IsExit(cdata)
    <3>1. back' = back \o m /\ cpc' = "rcv"
      BY <2>3 DEF ChildReply
    <3>2. m \in Seq(Byte) /\ m # <<>>
      <4>1. clen \in 1 .. SIZE /\ \A j \in 1 .. clen : cdata[j] \in Byte
        BY DuplexAssumption DEF IInv, TypeOK
      <4>2. m \in Seq(Byte) /\ Len(m) = IF 1 <= clen THEN clen - 1 + 1 ELSE 0
        BY <4>1, SubSeqProperties
      <4> HIDE DEF m
      <4> QED BY <4>1, <4>2
    <3> HIDE DEF m
    <3>3. back' = m
      BY <1>2, <3>1, <3>2, ConcatEmptySeq
    <3>4. Away' = m
      BY <1>1, <1>2, <3>1, <3>2, <3>3, ConcatEmptySeq DEF Away
    <3>5. ~Unanswered(file, q)
      BY <2>1, <2>3, <3>2 DEF Unanswered
    <3> QED BY <1>1, <2>1, <3>1, <3>2, <3>3, <3>4, <3>5 DEF UnderWay
  <2> QED BY <2>2, <2>3
<1> QED BY <1>1, <1>2, <1>3 DEF Round

(* Where the chunk that is away is, and what has come back: for every file.   *)
THEOREM RoundInvariance == Spec => []RoundInv
<1>1. Init => RoundInv
  <2> SUFFICES ASSUME Init PROVE RoundInv
    OBVIOUS
  <2>1. 0 \in 0 .. Chunks(file)
    BY FileIsSeq, ChunksFacts DEF Init
  <2> QED BY <2>1, RoundStart DEF RoundInv
<1>2. IInv /\ RoundInv /\ [Next]_vars => RoundInv'
  <2> SUFFICES ASSUME IInv, RoundInv, [Next]_vars PROVE RoundInv'
    OBVIOUS
  <2>1. PICK q \in 0 .. Chunks(file) : Round(q)
    BY DEF RoundInv
  <2>2. \/ q \in 0 .. Chunks(file) /\ Round(q)'
        \/ q + 1 \in 0 .. Chunks(file) /\ Round(q + 1)'
    <3>1. CASE ParentStep
      BY <2>1, <3>1, RoundFork, RoundSend, RoundReceive, RoundExit DEF ParentStep
    <3>2. CASE ChildStep
      BY <2>1, <3>2, RoundChildReceive, RoundChildReply DEF ChildStep
    <3>3. CASE UNCHANGED vars
      BY <2>1, <3>3 DEF vars, parentVars, childVars, Round, Home, UnderWay, Away
    <3> QED BY <3>1, <3>2, <3>3 DEF Next
  <2>3. file' = file
    BY DEF Next, ParentStep, ChildStep, Fork, ParentSend, ParentReceive, ParentExit,
           ChildReceive, ChildReply, vars, parentVars
  <2> QED BY <2>2, <2>3 DEF RoundInv
<1> QED BY <1>1, <1>2, Invariance, PTL DEF Spec

Outcome(p) == CASE p = "done"   -> "ended"
                [] p = "failed" -> "failed"
                [] OTHER        -> "copying"

LEMMA OutcomeIs ==
  ASSUME NEW p
  PROVE  /\ p \in {"fork", "send", "rcv"} => Outcome(p) = "copying"
         /\ p = "done" => Outcome(p) = "ended"
         /\ p = "failed" => Outcome(p) = "failed"
BY DEF Outcome

(* A step of the two programs is a step of the transfer of Delivered(file): a *)
(* chunk that comes back is received, the parent's end is the transfer's, a   *)
(* fork that fails is its failure, and everything else it does not see.       *)
LEMMA TransferStep ==
  IInv /\ IInv' /\ RoundInv /\ [Next]_vars => [Transfer!FTNext]_(Transfer!ftVars)
<1> SUFFICES ASSUME IInv, IInv', RoundInv, [Next]_vars PROVE [Transfer!FTNext]_(Transfer!ftVars)
  OBVIOUS
<1> DEFINE d == Delivered(file)
           last == LastAnswered(file)
<1>1. PICK q \in 0 .. Chunks(file) : Round(q)
  BY DEF RoundInv
<1>2. file \in Seq(Byte)
  BY RoundFacts, <1>1 DEF IInv
<1>3. last \in 0 .. Chunks(file) /\ (AnsweredTo(file, q) => q <= last)
  BY <1>1, <1>2, LastAnsweredFacts
<1>4. d = Upto(file, last)
  BY DEF Delivered
<1>5. file' = file
  BY DEF Next, ParentStep, ChildStep, Fork, ParentSend, ParentReceive, ParentExit,
         ChildReceive, ChildReply, vars, parentVars
<1>6. d' = d
  BY <1>5
<1>7. TypeOK /\ TypeOK'
  BY DEF IInv
<1> HIDE DEF d, last
<1>8. ASSUME out' = out, Outcome(ppc') = Outcome(ppc)
      PROVE  UNCHANGED Transfer!ftVars
  BY <1>6, <1>8 DEF Transfer!ftVars, Outcome, d
<1>9. CASE Fork /\ ppc' = "send"
  BY <1>7, <1>8, <1>9, OutcomeIs DEF Fork
<1>10. CASE Fork /\ ppc' = "failed"
  <2>1. Outcome(ppc) = "copying" /\ Outcome(ppc') = "failed" /\ out = <<>> /\ out' = out
    BY <1>7, <1>10, OutcomeIs DEF Fork, IInv, EchoInv
  <2> QED BY <1>6, <2>1 DEF Transfer!FTNext, Transfer!Fail, Outcome, d
<1>11. CASE ParentSend
  <2>1. ppc = "send" /\ ppc' = "rcv" /\ out' = out
    BY <1>11 DEF ParentSend
  <2> QED BY <1>7, <1>8, <2>1, OutcomeIs
<1>12. CASE ParentReceive
  <2>1. /\ q \in 1 .. Chunks(file) /\ AnsweredTo(file, q)
        /\ out = Upto(file, q - 1) /\ out' = Upto(file, q)
        /\ Upto(file, q) = Upto(file, q - 1) \o Message(file, q) /\ Message(file, q) # <<>>
    BY <1>1, <1>12, RoundReceive
  <2>2. Outcome(ppc) = "copying" /\ Outcome(ppc') = "copying"
    BY <1>7, <1>12, OutcomeIs DEF ParentReceive
  <2>3. q \in 0 .. last /\ Chunks(file) \in Nat
    BY <1>2, <1>3, <2>1, ChunksFacts
  <2>4. d \in Seq(Byte) /\ Len(out') \in 0 .. Len(d) /\ out' = SubSeq(d, 1, Len(out'))
    BY <1>2, <1>3, <1>4, <2>1, <2>3, UptoPrefix
  <2>5. Len(out') > Len(out)
    <3> DEFINE m == Message(file, q)
    <3>1. m \in Seq(Byte) /\ m # <<>> /\ out \in Seq(Byte) /\ out' = out \o m
      BY <1>2, <1>7, <2>1, MessageFacts DEF TypeOK
    <3> HIDE DEF m
    <3> QED BY <3>1
  <2>6. \E n \in Len(out) + 1 .. Len(d) : out' = SubSeq(d, 1, n)
    <3>1. out \in Seq(Byte) /\ Len(out) \in Nat
      BY <1>7 DEF TypeOK
    <3>2. Len(out') \in Len(out) + 1 .. Len(d)
      BY <2>4, <2>5, <3>1
    <3> QED BY <2>4, <3>2
  <2> QED BY <1>6, <2>2, <2>6 DEF Transfer!FTNext, Transfer!Receive, Outcome, d
<1>13. CASE ParentExit
  <2>1. q = Chunks(file) /\ AnsweredTo(file, q) /\ out = Upto(file, q)
    BY <1>1, <1>13, RoundExit
  <2>2. q = last
    BY <1>2, <1>3, <2>1, ChunksFacts
  <2>3. out = d /\ out' = out
    BY <1>4, <1>13, <2>1, <2>2 DEF ParentExit
  <2>4. Outcome(ppc) = "copying" /\ Outcome(ppc') = "ended"
    BY <1>7, <1>13, OutcomeIs DEF ParentExit
  <2> QED BY <1>6, <2>3, <2>4 DEF Transfer!FTNext, Transfer!End, Outcome, d
<1>14. CASE ChildStep \/ UNCHANGED vars
  <2>1. ppc' = ppc /\ out' = out
    BY <1>14 DEF ChildStep, ChildReceive, ChildReply, parentVars, vars
  <2> QED BY <1>8, <2>1 DEF Outcome
<1> QED BY <1>9, <1>10, <1>11, <1>12, <1>13, <1>14 DEF Next, ParentStep, Fork

(* The duplex pipe implements the transfer of what strlen and "exit" leave of *)
(* a file, whatever the file (main.c:74-87, :44-62).                          *)
THEOREM TransferRefinement == Spec => TransferImplemented
<1>1. Init => Transfer!FTInit
  BY DEF Init, Transfer!FTInit
<1>2. IInv /\ IInv' /\ RoundInv /\ [Next]_vars => [Transfer!FTNext]_(Transfer!ftVars)
  BY TransferStep
<1> QED
  BY <1>1, <1>2, Invariance, RoundInvariance, PTL DEF Spec, TransferImplemented, Transfer!FTSpec
=============================================================================
