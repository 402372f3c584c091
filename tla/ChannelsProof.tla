---------------------------- MODULE ChannelsProof ----------------------------
(***************************************************************************)
(* What holds of the transfers through a queue and a FIFO, and of the      *)
(* token server, for all files, sizes and numbers of clients.              *)
(***************************************************************************)
EXTENDS Channels, SequenceTheorems, FiniteSetTheorems, WellFoundedInduction, TLAPS

(* n bytes are whole chunks. *)
Whole(n) == \E q \in Nat : n = q * SIZE

(* A client that is not at the end of its file is at the end of a chunk. *)
PosInv == AtEof \/ Whole(pos)

(* Whoever has opened the queue finds one. *)
IsQueue(q) == q \in Seq(Seq(Byte)) /\ Len(q) <= MAXMSG

QueueInv ==
  kind = "mq" /\ (cpc = "send" \/ spc \in {"receive", "done"}) => IsQueue(queue)

(* The FIFO is empty until both have opened it.  Until the last chunk is in   *)
(* it, it holds whole chunks, so that a read gets one byte at the end only.   *)
ConnectInv ==
  /\ cpc \in {"start", "opening", "failed"} <=> spc \in {"start", "opening"}
  /\ spc \in {"start", "opening"} => fifo = <<>> /\ pos = 0 /\ out = <<>>

StreamInv ==
  /\ cpc = "done" => AtEof
  /\ AtEof \/ Whole(Len(fifo))
  /\ spc = "done" => AtEof /\ fifo = <<>>

(* No byte is lost or doubled between the file and the output, but for a last *)
(* chunk that was taken for the end. *)
CopyInv ==
  /\ spc # "done" => out \o fifo = SubSeq(file, 1, pos)
  /\ spc = "done" => out = file \/ out \o <<"QUIT">> = file

FifoInv == kind = "fifo" => ConnectInv /\ StreamInv /\ CopyInv

(* A server that is off serves nobody. *)
OffInv == svc = "off" => serving = "nobody"

TransferTypeOK ==
  /\ file \in File /\ pos \in 0 .. Len(file) /\ out \in Seq(Byte)
  /\ cpc \in {"start", "opening", "send", "write", "done", "failed"}
  /\ spc \in {"start", "opening", "receive", "read", "done"}
  /\ spare \in Spares
  /\ queue # NoQueue => IsQueue(queue)
  /\ fifo \in Seq(Byte) /\ Len(fifo) <= Capacity /\ buf \in [1 .. SIZE -> Byte]

TokenTypeOK ==
  /\ asks \in Seq(Asker) /\ serving \in Asker \cup {"nobody"}
  /\ own \in [Asker -> Seq(Nat)] /\ linked \subseteq Asker
  /\ opened \in 0 .. Descriptors /\ token \in Nat \ {0}
  /\ svc \in {"off", "on"} /\ given \in Seq(Asker \X Nat)
  /\ apc \in [Asker -> {"start", "ask", "wait", "failed", "done", "killed"}]

TransferInv == TransferTypeOK /\ PosInv /\ QueueInv /\ FifoInv
TokenInv    == TokenTypeOK /\ OffInv /\ TokensInARow /\ OneUnderWay

Inv == kind \in {"mq", "fifo", "tokens"} /\ TransferInv /\ TokenInv
---------------------------------------------------------------------------
(* The chunks of a file.                                                      *)
LEMMA FileIs ==
  ASSUME NEW f
  PROVE  f \in File <=> f \in Seq(Byte) /\ Len(f) <= MaxLength
<1>1. MaxLength \in Nat
  BY ChunkAssumption
<1>2. ASSUME f \in File PROVE f \in Seq(Byte) /\ Len(f) <= MaxLength
  <2>1. PICK n \in 0 .. MaxLength : f \in [1 .. n -> Byte]
    BY <1>2 DEF File
  <2> QED BY <2>1, <1>1
<1>3. ASSUME f \in Seq(Byte), Len(f) <= MaxLength PROVE f \in File
  <2>1. Len(f) \in 0 .. MaxLength /\ f \in [1 .. Len(f) -> Byte]
    BY <1>1, <1>3
  <2> QED BY <2>1 DEF File
<1> QED BY <1>2, <1>3

LEMMA WholeZero == Whole(0)
<1>1. 0 \in Nat /\ 0 = 0 * SIZE
  BY ChunkAssumption
<1> QED BY <1>1 DEF Whole

LEMMA WholeNext ==
  ASSUME NEW n \in Nat, Whole(n)
  PROVE  Whole(n + SIZE)
<1>1. PICK q \in Nat : n = q * SIZE
  BY DEF Whole
<1>2. (q + 1) * SIZE = q * SIZE + SIZE
  BY ChunkAssumption
<1>3. q + 1 \in Nat
  OBVIOUS
<1> QED BY <1>1, <1>2, <1>3 DEF Whole

(* Whole chunks are none or one at least, and then a chunk less is whole too. *)
LEMMA WholeLess ==
  ASSUME NEW n \in Nat, Whole(n), n # 0
  PROVE  n >= SIZE /\ Whole(n - SIZE)
<1>1. PICK q \in Nat : n = q * SIZE
  BY DEF Whole
<1>2. q # 0
  BY <1>1, ChunkAssumption
<1>3. q - 1 \in Nat
  BY <1>2
<1> DEFINE r == q - 1
<1>4. r \in Nat /\ q = r + 1
  BY <1>3
<1> HIDE DEF r
<1>5. (r + 1) * SIZE = r * SIZE + SIZE
  BY <1>4, ChunkAssumption
<1>6. r * SIZE \in Nat
  BY <1>4, ChunkAssumption
<1>7. n = r * SIZE + SIZE
  BY <1>1, <1>4, <1>5
<1> QED BY <1>4, <1>6, <1>7, ChunkAssumption DEF Whole

LEMMA DivideWhole ==
  ASSUME NEW q \in Nat, NEW r \in 0 .. SIZE - 1
  PROVE  (q * SIZE + r) \div SIZE = q
<1>1. SIZE \in Nat /\ SIZE > 0 /\ q * SIZE \in Nat
  BY ChunkAssumption
<1> QED BY <1>1

(* What fread returns: SIZE bytes, or the rest of the file. *)
Here == IF pos + SIZE <= Len(file) THEN pos + SIZE ELSE Len(file)

LEMMA ReadIs ==
  ASSUME TransferTypeOK, PosInv, ~AtEof
  PROVE  /\ Nth \in DOMAIN Chunks(file)
         /\ DOMAIN Chunks(file) = 1 .. (Len(file) + SIZE - 1) \div SIZE
         /\ Read = SubSeq(file, pos + 1, Here)
         /\ Read \in Seq(Byte) /\ Len(Read) = Here - pos /\ Len(Read) > 0
         /\ Here \in pos + 1 .. Len(file)
<1>1. /\ file \in Seq(Byte) /\ Len(file) \in Nat
      /\ pos \in Nat /\ pos < Len(file)
      /\ SIZE \in Nat /\ SIZE >= 2
  BY FileIs, ChunkAssumption DEF TransferTypeOK, AtEof
<1>2. PICK q \in Nat : pos = q * SIZE
  BY DEF PosInv, Whole
<1>3. pos \div SIZE = q
  BY <1>1, <1>2, DivideWhole
<1>4. (q + 1) * SIZE = pos + SIZE
  BY <1>1, <1>2
<1>5. Nth = q + 1
  BY <1>3 DEF Nth
<1> DEFINE L == (Len(file) + SIZE - 1) \div SIZE
<1>6. q + 1 <= L
  <2>1. (q + 1) * SIZE <= Len(file) + SIZE - 1
    BY <1>1, <1>4
  <2>2. ((q + 1) * SIZE) \div SIZE = q + 1
    <3>1. q + 1 \in Nat /\ 0 \in 0 .. SIZE - 1 /\ (q + 1) * SIZE + 0 = (q + 1) * SIZE
      BY <1>1
    <3> QED BY <3>1, DivideWhole
  <2> QED BY <2>1, <2>2, <1>1
<1>7. L \in Nat
  BY <1>1
<1>8. DOMAIN Chunks(file) = 1 .. L
  BY DEF Chunks
<1>9. Nth \in 1 .. L
  BY <1>5, <1>6, <1>7
<1>10. Here \in pos + 1 .. Len(file)
  BY <1>1 DEF Here
<1>11. Read = SubSeq(file, pos + 1, Here)
  <2>1. (Nth - 1) * SIZE + 1 = pos + 1 /\ Nth * SIZE = pos + SIZE
    BY <1>2, <1>4, <1>5
  <2>2. Read = SubSeq(file, (Nth - 1) * SIZE + 1,
                      IF Nth * SIZE <= Len(file) THEN Nth * SIZE ELSE Len(file))
    BY <1>9 DEF Read, Chunks
  <2> QED BY <2>1, <2>2 DEF Here
<1>12. Read \in Seq(Byte) /\ Len(Read) = Here - pos
  BY <1>1, <1>10, <1>11
<1>13. Len(Read) > 0
  BY <1>1, <1>10, <1>12
<1> QED BY <1>8, <1>9, <1>10, <1>11, <1>12, <1>13

(* After a read the client is at the end of a chunk or of the file. *)
LEMMA PosStep ==
  ASSUME TransferTypeOK, PosInv, ~AtEof, file' = file, pos' = pos + Len(Read)
  PROVE  /\ pos' \in 0 .. Len(file) /\ pos' = Here
         /\ PosInv'
         /\ AtEof' \/ Len(Read) = SIZE
<1>1. /\ Len(file) \in Nat /\ pos \in Nat /\ pos < Len(file)
      /\ SIZE \in Nat /\ SIZE >= 2
  BY FileIs, ChunkAssumption DEF TransferTypeOK, AtEof
<1>2. Here \in pos + 1 .. Len(file) /\ Len(Read) = Here - pos
  BY ReadIs
<1>3. pos' = Here
  BY <1>1, <1>2
<1>4. CASE pos + SIZE <= Len(file)
  <2>1. Here = pos + SIZE
    BY <1>4 DEF Here
  <2>2. Whole(pos + SIZE)
    BY <1>1, WholeNext DEF PosInv
  <2> QED BY <1>1, <1>2, <1>3, <2>1, <2>2 DEF PosInv, Whole
<1>5. CASE ~(pos + SIZE <= Len(file))
  <2>1. Here = Len(file)
    BY <1>5 DEF Here
  <2> QED BY <1>1, <1>2, <1>3, <2>1 DEF PosInv, AtEof
<1> QED BY <1>4, <1>5
---------------------------------------------------------------------------
(* Requests and answers of one client, counted.                               *)
In(s, c) == {k \in 1 .. Len(s) : s[k] = c}

LEMMA InFinite ==
  ASSUME NEW S, NEW s \in Seq(S), NEW c
  PROVE  IsFiniteSet(In(s, c)) /\ Cardinality(In(s, c)) \in Nat
<1>1. IsFiniteSet(1 .. Len(s))
  <2>1. 1 \in Int /\ Len(s) \in Int
    OBVIOUS
  <2> QED BY <2>1, FS_Interval, Zenon
<1>2. In(s, c) \subseteq 1 .. Len(s)
  BY DEF In
<1>3. IsFiniteSet(In(s, c))
  BY <1>1, <1>2, FS_Subset, Zenon
<1> QED BY <1>3, FS_CardinalityType, Zenon

LEMMA InNone ==
  ASSUME NEW c
  PROVE  Cardinality(In(<<>>, c)) = 0
<1>1. In(<<>>, c) = {}
  BY DEF In
<1> QED BY <1>1, FS_EmptySet

LEMMA InAppend ==
  ASSUME NEW S, NEW s \in Seq(S), NEW c, NEW x \in S
  PROVE  Cardinality(In(Append(s, x), c)) =
           Cardinality(In(s, c)) + (IF x = c THEN 1 ELSE 0)
<1>1. /\ Len(Append(s, x)) = Len(s) + 1 /\ Append(s, x)[Len(s) + 1] = x
      /\ \A k \in 1 .. Len(s) : Append(s, x)[k] = s[k]
      /\ Len(s) \in Nat
  OBVIOUS
<1>2. CASE x # c
  <2>1. In(Append(s, x), c) = In(s, c)
    BY <1>1, <1>2 DEF In
  <2>2. Cardinality(In(s, c)) \in Nat
    BY InFinite
  <2> QED BY <1>2, <2>1, <2>2
<1>3. CASE x = c
  <2>1. In(Append(s, x), c) = In(s, c) \cup {Len(s) + 1} /\ Len(s) + 1 \notin In(s, c)
    BY <1>1, <1>3 DEF In
  <2>2. IsFiniteSet(In(s, c))
    BY InFinite
  <2>3. Cardinality(In(s, c) \cup {Len(s) + 1}) = Cardinality(In(s, c)) + 1
    BY <2>1, <2>2, FS_AddElement
  <2> QED BY <1>3, <2>1, <2>3
<1> QED BY <1>2, <1>3

LEMMA InTail ==
  ASSUME NEW S, NEW s \in Seq(S), NEW c, s # <<>>
  PROVE  Cardinality(In(s, c)) =
           Cardinality(In(Tail(s), c)) + (IF Head(s) = c THEN 1 ELSE 0)
<1>1. /\ Len(s) \in Nat /\ Len(s) > 0 /\ Head(s) = s[1]
      /\ Tail(s) \in Seq(S) /\ Len(Tail(s)) = Len(s) - 1
      /\ \A k \in 1 .. Len(s) - 1 : Tail(s)[k] = s[k + 1]
  OBVIOUS
<1> DEFINE T == In(Tail(s), c)
           U == {k \in 2 .. Len(s) : s[k] = c}
           f == [k \in T |-> k + 1]
<1>2. IsFiniteSet(T) /\ Cardinality(T) \in Nat
  BY <1>1, InFinite
<1>3. f \in Bijection(T, U)
  <2>1. T \subseteq Nat
    BY <1>1 DEF In
  <2>2. f \in [T -> U]
    BY <1>1 DEF In
  <2>3. ASSUME NEW j \in T, NEW k \in T, f[j] = f[k] PROVE j = k
    BY <2>1, <2>3
  <2>4. ASSUME NEW k \in U PROVE \E j \in T : f[j] = k
    <3>1. k - 1 \in T /\ (k - 1) + 1 = k
      BY <1>1 DEF In
    <3> QED BY <3>1
  <2> HIDE DEF f, T, U
  <2>5. f \in Injection(T, U)
    BY <2>2, <2>3 DEF Injection, IsInjective
  <2>6. f \in Surjection(T, U)
    BY <2>2, <2>4 DEF Surjection
  <2> QED BY <2>5, <2>6 DEF Bijection
<1>4. IsFiniteSet(U) /\ Cardinality(U) = Cardinality(T)
  <2>1. ExistsBijection(T, U)
    BY <1>3, Zenon DEF ExistsBijection
  <2> HIDE DEF T, U
  <2> QED BY <1>2, <2>1, FS_Bijection
<1>5. CASE Head(s) # c
  <2>1. In(s, c) = U
    BY <1>1, <1>5 DEF In
  <2> QED BY <1>2, <1>4, <1>5, <2>1
<1>6. CASE Head(s) = c
  <2>1. In(s, c) = U \cup {1} /\ 1 \notin U
    BY <1>1, <1>6 DEF In
  <2>2. Cardinality(U \cup {1}) = Cardinality(U) + 1
    <3> HIDE DEF U
    <3> QED BY <1>4, <2>1, FS_AddElement
  <2> QED BY <1>2, <1>4, <1>6, <2>1, <2>2
<1> QED BY <1>5, <1>6
---------------------------------------------------------------------------
(* The token server and its clients.                                          *)
LEMMA UnderWayIs ==
  ASSUME NEW c
  PROVE  UnderWay(c) = Cardinality(In(asks, c)) + Len(own[c]) + (IF serving = c THEN 1 ELSE 0)
BY DEF UnderWay, In

LEMMA UnderWayType ==
  ASSUME TokenTypeOK, NEW c \in Asker
  PROVE  /\ UnderWay(c) \in Nat /\ Cardinality(In(asks, c)) \in Nat /\ Len(own[c]) \in Nat
         /\ own[c] \in Seq(Nat)
<1>1. Cardinality(In(asks, c)) \in Nat
  BY InFinite DEF TokenTypeOK
<1>2. own[c] \in Seq(Nat) /\ Len(own[c]) \in Nat
  BY DEF TokenTypeOK
<1> QED BY <1>1, <1>2, UnderWayIs

LEMMA InitTokens == ASSUME TokenInit PROVE TokenInv
<1>1. TokenTypeOK
  BY TokenAssumption DEF TokenInit, TokenTypeOK
<1>2. OffInv /\ TokensInARow
  BY DEF TokenInit, OffInv, TokensInARow
<1>3. ASSUME NEW c \in Asker PROVE UnderWay(c) = 0
  <2>1. Cardinality(In(asks, c)) = 0
    BY InNone DEF TokenInit
  <2>2. Len(own[c]) = 0 /\ serving # c
    BY TokenAssumption DEF TokenInit
  <2> QED BY <2>1, <2>2, UnderWayIs
<1> QED BY <1>1, <1>2, <1>3 DEF TokenInv, OneUnderWay

(* What is left to show of a step: that nobody has more under way than before *)
(* but the one that asks. *)
LEMMA NoMoreUnderWay ==
  ASSUME TokenInv, NEW c \in Asker,
         UnderWay(c)' \in Nat, UnderWay(c)' <= UnderWay(c),
         UnderWay(c)' = 1 /\ apc[c] \in {"wait", "killed"} => apc'[c] \in {"wait", "killed"}
  PROVE  UnderWay(c)' <= 1 /\ (UnderWay(c)' = 1 => apc'[c] \in {"wait", "killed"})
<1>1. UnderWay(c) \in Nat
  BY UnderWayType DEF TokenInv
<1>2. UnderWay(c) <= 1 /\ (UnderWay(c) = 1 => apc[c] \in {"wait", "killed"})
  BY DEF TokenInv, OneUnderWay
<1> QED BY <1>1, <1>2

LEMMA AskerKeeps ==
  ASSUME TokenInv, NEW a \in Asker, AskerStep(a)
  PROVE  TokenInv'
<1> USE DEF TokenInv
<1>1. CASE StartAsker(a) \/ EndAsker(a) \/ KillAsker(a)
  <2>1. TokenTypeOK' /\ OffInv' /\ TokensInARow'
    BY <1>1 DEF StartAsker, EndAsker, KillAsker, TokenTypeOK, OffInv, TokensInARow, serverVars
  <2>2. ASSUME NEW c \in Asker
        PROVE  UnderWay(c)' <= 1 /\ (UnderWay(c)' = 1 => apc'[c] \in {"wait", "killed"})
    <3>1. UnderWay(c)' = UnderWay(c) /\ UnderWay(c) \in Nat
      BY <1>1, UnderWayType DEF StartAsker, EndAsker, KillAsker, serverVars, UnderWay
    <3>2. apc[c] \in {"wait", "killed"} => apc'[c] \in {"wait", "killed"}
      <4>1. CASE KillAsker(a)
        BY <4>1 DEF KillAsker, TokenTypeOK
      <4>2. CASE StartAsker(a) \/ EndAsker(a)
        BY <4>2 DEF StartAsker, EndAsker, TokenTypeOK
      <4> QED BY <1>1, <4>1, <4>2
    <3> QED BY <3>1, <3>2, NoMoreUnderWay
  <2> QED BY <2>1, <2>2 DEF OneUnderWay
<1>2. CASE Ask(a)
  <2>1. asks' = Append(asks, a) /\ UNCHANGED <<svc, serving, token, opened, given, own, linked>>
    BY <1>2 DEF Ask, serverVars
  <2>2. TokenTypeOK' /\ OffInv' /\ TokensInARow'
    <3>1. asks' \in Seq(Asker)
      BY <2>1 DEF TokenTypeOK
    <3>2. apc' \in [Asker -> {"start", "ask", "wait", "failed", "done", "killed"}]
      BY <1>2 DEF Ask, TokenTypeOK
    <3> QED BY <2>1, <3>1, <3>2 DEF TokenTypeOK, OffInv, TokensInARow
  <2>3. ASSUME NEW c \in Asker
        PROVE  UnderWay(c)' <= 1 /\ (UnderWay(c)' = 1 => apc'[c] \in {"wait", "killed"})
    <3>1. Cardinality(In(asks', c)) = Cardinality(In(asks, c)) + (IF a = c THEN 1 ELSE 0)
      BY <2>1, InAppend DEF TokenTypeOK
    <3>2. UnderWay(c)' = Cardinality(In(asks', c)) + Len(own[c]) + (IF serving = c THEN 1 ELSE 0)
      BY <2>1, UnderWayIs DEF UnderWay, In
    <3>3. UnderWay(c)' = UnderWay(c) + (IF a = c THEN 1 ELSE 0) /\ UnderWay(c) \in Nat
      BY <3>1, <3>2, UnderWayIs, UnderWayType
    <3>4. CASE c = a
      <4>1. UnderWay(c) <= 1 /\ UnderWay(c) # 1
        BY <1>2, <3>4 DEF Ask, OneUnderWay
      <4>2. apc'[c] = "wait"
        BY <1>2, <3>4 DEF Ask, TokenTypeOK
      <4>3. UnderWay(c)' = 1
        BY <3>3, <3>4, <4>1
      <4> QED BY <4>2, <4>3
    <3>5. CASE c # a
      <4>1. UnderWay(c)' = UnderWay(c)
        BY <3>3, <3>5
      <4>2. apc'[c] = apc[c]
        BY <1>2, <3>5 DEF Ask, TokenTypeOK
      <4> QED BY <3>3, <4>1, <4>2, NoMoreUnderWay
    <3> QED BY <3>4, <3>5
  <2> QED BY <2>2, <2>3 DEF OneUnderWay
<1>3. CASE GetToken(a)
  <2>1. /\ own[a] # <<>> /\ own' = [own EXCEPT ![a] = Tail(own[a])]
        /\ UNCHANGED <<svc, serving, token, opened, given, asks, linked>>
    BY <1>3 DEF GetToken, serverVars
  <2>2. own[a] \in Seq(Nat) /\ Tail(own[a]) \in Seq(Nat) /\ Len(Tail(own[a])) = Len(own[a]) - 1
    BY <2>1, UnderWayType
  <2>3. TokenTypeOK' /\ OffInv' /\ TokensInARow'
    <3>1. own' \in [Asker -> Seq(Nat)]
      BY <2>1, <2>2 DEF TokenTypeOK
    <3>2. apc' \in [Asker -> {"start", "ask", "wait", "failed", "done", "killed"}]
      BY <1>3 DEF GetToken, TokenTypeOK
    <3> QED BY <2>1, <3>1, <3>2 DEF TokenTypeOK, OffInv, TokensInARow
  <2>4. ASSUME NEW c \in Asker
        PROVE  UnderWay(c)' <= 1 /\ (UnderWay(c)' = 1 => apc'[c] \in {"wait", "killed"})
    <3>1. Len(own'[c]) = Len(own[c]) - (IF a = c THEN 1 ELSE 0)
      <4>1. Len(own[c]) \in Nat
        BY UnderWayType
      <4>2. own'[c] = IF a = c THEN Tail(own[a]) ELSE own[c]
        BY <2>1 DEF TokenTypeOK
      <4> QED BY <2>2, <4>1, <4>2
    <3>2. UnderWay(c)' = Cardinality(In(asks, c)) + Len(own'[c]) + (IF serving = c THEN 1 ELSE 0)
      BY <2>1 DEF UnderWay, In
    <3>3. UnderWay(c)' = UnderWay(c) - (IF a = c THEN 1 ELSE 0)
      <4>1. Len(own[c]) \in Nat /\ Cardinality(In(asks, c)) \in Nat
        BY UnderWayType
      <4>2. UnderWay(c) = Cardinality(In(asks, c)) + Len(own[c]) + (IF serving = c THEN 1 ELSE 0)
        BY UnderWayIs
      <4> DEFINE o == Len(own[c])  n == Len(own'[c])  j == Cardinality(In(asks, c))
                 s == IF serving = c THEN 1 ELSE 0  d == IF a = c THEN 1 ELSE 0
      <4>3. n = o - d /\ UnderWay(c)' = j + n + s /\ UnderWay(c) = j + o + s
        BY <3>1, <3>2, <4>2
      <4>4. o \in Nat /\ j \in Nat /\ s \in Nat /\ d \in Nat
        BY <4>1
      <4> HIDE DEF o, n, j, s, d
      <4>5. UnderWay(c)' = UnderWay(c) - d
        BY <4>3, <4>4
      <4> QED BY <4>5 DEF d
    <3>4. UnderWay(c) \in Nat /\ UnderWay(c)' \in Nat
      <4>1. Len(own'[c]) \in Nat /\ Cardinality(In(asks, c)) \in Nat
        BY <2>3, UnderWayType DEF TokenTypeOK
      <4> QED BY <3>2, <4>1, UnderWayType
    <3>5. CASE c = a
      <4>1. UnderWay(c) <= 1
        BY DEF OneUnderWay
      <4>2. UnderWay(c)' # 1 /\ UnderWay(c)' <= 1
        BY <3>3, <3>4, <3>5, <4>1
      <4> QED BY <4>2
    <3>6. CASE c # a
      <4>1. UnderWay(c)' = UnderWay(c)
        BY <3>3, <3>4, <3>6
      <4>2. apc'[c] = apc[c]
        BY <1>3, <3>6 DEF GetToken, TokenTypeOK
      <4> QED BY <3>4, <4>1, <4>2, NoMoreUnderWay
    <3> QED BY <3>5, <3>6
  <2> QED BY <2>3, <2>4 DEF OneUnderWay
<1> QED BY <1>1, <1>2, <1>3 DEF AskerStep

LEMMA StartKillKeep ==
  ASSUME TokenInv, StartService \/ KillService
  PROVE  TokenInv'
<1> USE DEF TokenInv
<1>1. UNCHANGED <<asks, own, apc, linked>> /\ serving' = "nobody"
  BY DEF StartService, KillService, askerVars
<1>2. TokenTypeOK'
  <2>1. CASE StartService
    <3>1. given' = <<>> /\ token' = 1 /\ opened' = 0 /\ svc' = "on"
      BY <2>1 DEF StartService
    <3> QED BY <1>1, <3>1, TokenAssumption DEF TokenTypeOK
  <2>2. CASE KillService
    BY <1>1, <2>2 DEF KillService, TokenTypeOK
  <2> QED BY <2>1, <2>2
<1>3. OffInv' /\ TokensInARow'
  BY DEF StartService, KillService, OffInv, TokensInARow
<1>4. ASSUME NEW c \in Asker
      PROVE  UnderWay(c)' <= 1 /\ (UnderWay(c)' = 1 => apc'[c] \in {"wait", "killed"})
  <2>1. UnderWay(c)' = Cardinality(In(asks, c)) + Len(own[c]) + 0
    <3>1. serving' # c
      BY <1>1, TokenAssumption
    <3> QED BY <1>1, <3>1 DEF UnderWay, In
  <2>2. UnderWay(c)' \in Nat /\ UnderWay(c)' <= UnderWay(c)
    BY <2>1, UnderWayIs, UnderWayType
  <2>3. apc'[c] = apc[c]
    BY <1>1
  <2> QED BY <2>2, <2>3, NoMoreUnderWay
<1> QED BY <1>2, <1>3, <1>4 DEF OneUnderWay

LEMMA ReceiveKeeps ==
  ASSUME TokenInv, ReceiveAsk
  PROVE  TokenInv'
<1> USE DEF TokenInv
<1>1. /\ asks # <<>> /\ serving = "nobody" /\ svc = "on"
      /\ serving' = Head(asks) /\ asks' = Tail(asks)
      /\ UNCHANGED <<svc, token, opened, given, own, apc, linked>>
  BY DEF ReceiveAsk, Rest, askerVars
<1>2. asks \in Seq(Asker) /\ Head(asks) \in Asker /\ Tail(asks) \in Seq(Asker)
  BY <1>1 DEF TokenTypeOK
<1>3. TokenTypeOK' /\ OffInv' /\ TokensInARow'
  BY <1>1, <1>2 DEF TokenTypeOK, OffInv, TokensInARow
<1>4. ASSUME NEW c \in Asker
      PROVE  UnderWay(c)' <= 1 /\ (UnderWay(c)' = 1 => apc'[c] \in {"wait", "killed"})
  <2>1. Cardinality(In(asks, c)) = Cardinality(In(asks', c)) + (IF serving' = c THEN 1 ELSE 0)
    BY <1>1, <1>2, InTail
  <2>2. UnderWay(c)' = Cardinality(In(asks', c)) + Len(own[c]) + (IF serving' = c THEN 1 ELSE 0)
    BY <1>1 DEF UnderWay, In
  <2>3. UnderWay(c) = Cardinality(In(asks, c)) + Len(own[c])
    <3>1. serving # c
      BY <1>1, TokenAssumption
    <3> QED BY <3>1, UnderWayIs, UnderWayType
  <2>4. Cardinality(In(asks', c)) \in Nat /\ Len(own[c]) \in Nat
    BY <1>1, <1>2, InFinite, UnderWayType
  <2>5. UnderWay(c)' = UnderWay(c) /\ UnderWay(c) \in Nat
    BY <2>1, <2>2, <2>3, <2>4
  <2>6. apc'[c] = apc[c]
    BY <1>1
  <2> QED BY <2>5, <2>6, NoMoreUnderWay
<1> QED BY <1>3, <1>4 DEF OneUnderWay

LEMMA AnswerKeeps ==
  ASSUME TokenInv, Answer
  PROVE  TokenInv'
<1> USE DEF TokenInv
<1>1. /\ serving \in Asker /\ svc = "on" /\ serving' = "nobody"
      /\ UNCHANGED <<svc, asks, apc, linked>>
  BY DEF Answer, TokenTypeOK, askerVars
<1>2. CASE ~CanOpen
  <2>1. UNCHANGED <<own, given, opened, token>>
    BY <1>2 DEF Answer, NextToken
  <2>2. TokenTypeOK' /\ OffInv' /\ TokensInARow'
    BY <1>1, <2>1 DEF TokenTypeOK, OffInv, TokensInARow
  <2>3. ASSUME NEW c \in Asker
        PROVE  UnderWay(c)' <= 1 /\ (UnderWay(c)' = 1 => apc'[c] \in {"wait", "killed"})
    <3>1. UnderWay(c)' = Cardinality(In(asks, c)) + Len(own[c])
      <4>1. serving' # c
        BY <1>1, TokenAssumption
      <4>2. Cardinality(In(asks, c)) \in Nat /\ Len(own[c]) \in Nat
        BY UnderWayType
      <4>3. UnderWay(c)' = Cardinality(In(asks, c)) + Len(own[c]) + 0
        BY <1>1, <2>1, <4>1 DEF UnderWay, In
      <4> QED BY <4>2, <4>3
    <3>2. UnderWay(c)' \in Nat /\ UnderWay(c)' <= UnderWay(c)
      BY <3>1, UnderWayIs, UnderWayType
    <3>3. apc'[c] = apc[c]
      BY <1>1
    <3> QED BY <3>2, <3>3, NoMoreUnderWay
  <2> QED BY <2>2, <2>3 DEF OneUnderWay
<1>3. CASE CanOpen
  <2>1. /\ own' = [own EXCEPT ![serving] = Append(own[serving], token)]
        /\ given' = Append(given, <<serving, token>>)
        /\ opened' = opened + 1 /\ token' = token + 1
    BY <1>3 DEF Answer, NextToken
  <2>2. /\ own[serving] \in Seq(Nat) /\ Append(own[serving], token) \in Seq(Nat)
        /\ Len(Append(own[serving], token)) = Len(own[serving]) + 1
        /\ token \in Nat \ {0} /\ opened \in Nat
    BY <1>1, UnderWayType, TokenAssumption DEF TokenTypeOK
  <2>3. TokenTypeOK'
    <3>1. own' \in [Asker -> Seq(Nat)]
      BY <1>1, <2>1, <2>2 DEF TokenTypeOK
    <3>2. given' \in Seq(Asker \X Nat)
      <4>1. <<serving, token>> \in Asker \X Nat /\ given \in Seq(Asker \X Nat)
        BY <1>1, <2>2 DEF TokenTypeOK
      <4> QED BY <2>1, <4>1
    <3>3. opened' \in 0 .. Descriptors
      BY <1>3, <2>1, <2>2, TokenAssumption DEF CanOpen, TokenTypeOK
    <3>4. token' \in Nat \ {0}
      BY <2>1, <2>2
    <3> QED BY <1>1, <3>1, <3>2, <3>3, <3>4 DEF TokenTypeOK
  <2>4. OffInv' /\ TokensInARow'
    <3>1. /\ Len(given') = Len(given) + 1 /\ given'[Len(given) + 1] = <<serving, token>>
          /\ \A k \in 1 .. Len(given) : given'[k] = given[k]
          /\ Len(given) \in Nat
      <4>1. given \in Seq(Asker \X Nat) /\ <<serving, token>> \in Asker \X Nat
        BY <1>1, <2>2 DEF TokenTypeOK
      <4> QED BY <2>1, <4>1
    <3>2. token = Len(given) + 1 /\ \A k \in 1 .. Len(given) : given[k][2] = k
      BY DEF TokensInARow
    <3>3. \A k \in 1 .. Len(given') : given'[k][2] = k
      BY <3>1, <3>2
    <3> QED BY <1>1, <2>1, <3>1, <3>2, <3>3 DEF OffInv, TokensInARow
  <2>5. ASSUME NEW c \in Asker
        PROVE  UnderWay(c)' <= 1 /\ (UnderWay(c)' = 1 => apc'[c] \in {"wait", "killed"})
    <3>1. Len(own'[c]) = Len(own[c]) + (IF serving = c THEN 1 ELSE 0)
      <4>1. Len(own[c]) \in Nat
        BY UnderWayType
      <4>2. own'[c] = IF serving = c THEN Append(own[serving], token) ELSE own[c]
        BY <1>1, <2>1 DEF TokenTypeOK
      <4>3. serving = c => Len(own'[c]) = Len(own[c]) + 1
        BY <2>2, <4>2
      <4>4. serving # c => Len(own'[c]) = Len(own[c])
        BY <4>2
      <4>5. CASE serving = c
        BY <4>3, <4>5
      <4>6. CASE serving # c
        <5> DEFINE n == Len(own'[c])  o == Len(own[c])
        <5>1. n = o /\ o \in Nat
          BY <4>1, <4>4, <4>6
        <5> HIDE DEF n, o
        <5>2. n = o + 0
          BY <5>1
        <5> QED BY <4>6, <5>2 DEF n, o
      <4> QED BY <4>5, <4>6
    <3>2. UnderWay(c)' = Cardinality(In(asks, c)) + Len(own'[c]) + 0
      <4>1. serving' # c
        BY <1>1, TokenAssumption
      <4> QED BY <1>1, <4>1 DEF UnderWay, In
    <3>3. Cardinality(In(asks, c)) \in Nat /\ Len(own[c]) \in Nat
      BY UnderWayType
    <3>4. UnderWay(c)' = UnderWay(c) /\ UnderWay(c) \in Nat
      <4> DEFINE o == Len(own[c])  n == Len(own'[c])  j == Cardinality(In(asks, c))
                 s == IF serving = c THEN 1 ELSE 0
      <4>1. n = o + s /\ UnderWay(c)' = j + n + 0 /\ UnderWay(c) = j + o + s
        BY <3>1, <3>2, UnderWayIs
      <4>2. o \in Nat /\ j \in Nat /\ s \in Nat
        BY <3>3
      <4> HIDE DEF o, n, j, s
      <4> QED BY <4>1, <4>2
    <3>5. apc'[c] = apc[c]
      BY <1>1
    <3> QED BY <3>4, <3>5, NoMoreUnderWay
  <2> QED BY <2>3, <2>4, <2>5 DEF OneUnderWay
<1> QED BY <1>2, <1>3

LEMMA TokensKeep == ASSUME TokenInv, TokenStep PROVE TokenInv'
BY AskerKeeps, StartKillKeep, ReceiveKeeps, AnswerKeeps DEF TokenStep, Service

LEMMA TokensStay == ASSUME TokenInv, UNCHANGED tokenVars PROVE TokenInv'
<1>1. UNCHANGED <<svc, serving, asks, token, opened, apc, own, linked, given>>
  BY DEF tokenVars, serverVars, askerVars
<1> QED BY <1>1 DEF TokenInv, TokenTypeOK, OffInv, TokensInARow, OneUnderWay, UnderWay
---------------------------------------------------------------------------
(* The transfer through the queue.                                            *)
LEMMA InitTransfer == ASSUME Init PROVE TransferInv
<1>1. /\ file \in File /\ pos = 0 /\ out = <<>> /\ cpc = "start" /\ spc = "start"
      /\ queue = NoQueue /\ spare \in Spares
      /\ fifo = <<>> /\ rest \in Byte /\ buf = [j \in 1 .. SIZE |-> rest]
  BY DEF Init, ChunkInit, QueueInit, FifoInit
<1>2. file \in Seq(Byte) /\ Len(file) \in Nat
  BY <1>1, FileIs
<1>3. TransferTypeOK
  BY <1>1, <1>2, FifoAssumption, ChunkAssumption DEF TransferTypeOK
<1>4. PosInv /\ QueueInv
  BY <1>1, WholeZero DEF PosInv, QueueInv
<1>5. FifoInv
  <2>1. Len(fifo) = 0 /\ out \o fifo = <<>> /\ SubSeq(file, 1, pos) = <<>>
    BY <1>1, <1>2
  <2> QED BY <1>1, <2>1, WholeZero DEF FifoInv, ConnectInv, StreamInv, CopyInv
<1> QED BY <1>3, <1>4, <1>5 DEF TransferInv

LEMMA SendKeeps ==
  ASSUME TransferInv, kind = "mq", kind' = kind, UNCHANGED fifoVars, ClientSend
  PROVE  TransferInv'
<1> USE DEF TransferInv
<1>1. /\ cpc = "send" /\ Len(queue) < MAXMSG /\ ~AtEof
      /\ queue' = Append(queue, Append(Read, spare[Nth])) /\ pos' = pos + Len(Read)
      /\ UNCHANGED <<file, cpc, spc, out, spare, fifo, buf>>
  BY DEF ClientSend, HasRoom, fifoVars
<1>2. PosInv' /\ pos' \in 0 .. Len(file)
  BY <1>1, PosStep
<1>3. Append(Read, spare[Nth]) \in Seq(Byte)
  <2>1. Len(file) \in Nat /\ Len(file) <= MaxLength
    BY FileIs DEF TransferTypeOK
  <2>2. Nth \in 1 .. (Len(file) + SIZE - 1) \div SIZE
    BY <1>1, ReadIs
  <2>3. (Len(file) + SIZE - 1) \div SIZE <= (MaxLength + SIZE - 1) \div SIZE
    BY <2>1, ChunkAssumption
  <2>4. (Len(file) + SIZE - 1) \div SIZE \in Nat /\ (MaxLength + SIZE - 1) \div SIZE \in Nat
    BY <2>1, ChunkAssumption
  <2>5. Nth \in 1 .. (MaxLength + SIZE - 1) \div SIZE
    BY <2>2, <2>3, <2>4
  <2>6. spare[Nth] \in Byte
    BY <2>5 DEF TransferTypeOK, Spares
  <2> QED BY <1>1, <2>6, ReadIs
<1>4. IsQueue(queue')
  <2>1. IsQueue(queue)
    BY <1>1 DEF QueueInv
  <2> QED BY <1>1, <1>3, <2>1, QueueAssumption DEF IsQueue
<1>5. TransferTypeOK'
  BY <1>1, <1>2, <1>4 DEF TransferTypeOK
<1> QED BY <1>1, <1>2, <1>4, <1>5 DEF QueueInv, FifoInv

LEMMA QueueKeeps ==
  ASSUME TransferInv, kind = "mq", kind' = kind, UNCHANGED fifoVars,
         QueueClient \/ QueueServer
  PROVE  TransferInv'
<1> USE DEF TransferInv
<1>1. UNCHANGED <<fifo, buf>>
  BY DEF fifoVars
<1>2. CASE ClientOpen
  <2>1. UNCHANGED <<file, pos, spc, out, queue, spare>> /\ cpc' \in {"failed", "send"}
    BY <1>2 DEF ClientOpen, queueVars
  <2>2. cpc' = "send" => queue # NoQueue
    BY <1>2 DEF ClientOpen
  <2>3. TransferTypeOK' /\ PosInv'
    BY <1>1, <2>1 DEF TransferTypeOK, PosInv, AtEof
  <2> QED BY <2>1, <2>2, <2>3 DEF QueueInv, FifoInv, TransferTypeOK
<1>3. CASE ClientSend
  BY <1>3, SendKeeps
<1>4. CASE ClientQuit
  <2>1. /\ cpc = "send" /\ Len(queue) < MAXMSG /\ queue' = Append(queue, Quit) /\ cpc' = "done"
        /\ UNCHANGED <<file, pos, spc, out, spare>>
    BY <1>4 DEF ClientQuit, HasRoom
  <2>2. IsQueue(queue')
    <3>1. IsQueue(queue)
      BY <2>1 DEF QueueInv
    <3>2. Quit \in Seq(Byte)
      BY DEF Quit, Byte
    <3> QED BY <2>1, <3>1, <3>2, QueueAssumption DEF IsQueue
  <2>3. TransferTypeOK' /\ PosInv'
    BY <1>1, <2>1, <2>2 DEF TransferTypeOK, PosInv, AtEof
  <2> QED BY <2>1, <2>2, <2>3 DEF QueueInv, FifoInv
<1>5. CASE ServerOpen
  <2>1. /\ UNCHANGED <<file, pos, cpc, out, spare>> /\ spc' = "receive"
        /\ queue' = IF queue = NoQueue THEN <<>> ELSE queue
    BY <1>5 DEF ServerOpen
  <2>2. IsQueue(queue')
    <3>1. <<>> \in Seq(Seq(Byte)) /\ Len(<<>>) = 0
      OBVIOUS
    <3>2. IsQueue(<<>>)
      BY <3>1, QueueAssumption DEF IsQueue
    <3> QED BY <2>1, <3>2 DEF TransferTypeOK
  <2>3. TransferTypeOK' /\ PosInv'
    BY <1>1, <2>1, <2>2 DEF TransferTypeOK, PosInv, AtEof
  <2> QED BY <2>1, <2>2, <2>3 DEF QueueInv, FifoInv
<1>6. CASE ServerReceive
  <2>1. /\ spc = "receive" /\ queue # <<>> /\ queue' = Tail(queue)
        /\ spc' \in {"receive", "done"} /\ out' \in {out, out \o Head(queue)}
        /\ UNCHANGED <<file, pos, cpc, spare>>
    BY <1>6 DEF ServerReceive
  <2>2. IsQueue(queue)
    BY <2>1 DEF QueueInv
  <2>3. IsQueue(queue') /\ Head(queue) \in Seq(Byte)
    BY <2>1, <2>2, QueueAssumption DEF IsQueue
  <2>4. out' \in Seq(Byte)
    <3> DEFINE m == Head(queue)
    <3>1. m \in Seq(Byte) /\ out \in Seq(Byte) /\ out' \in {out, out \o m}
      BY <2>1, <2>3 DEF TransferTypeOK
    <3> HIDE DEF m
    <3>2. out \o m \in Seq(Byte)
      BY <3>1
    <3> QED BY <3>1, <3>2
  <2>5. TransferTypeOK' /\ PosInv'
    BY <1>1, <2>1, <2>3, <2>4 DEF TransferTypeOK, PosInv, AtEof
  <2> QED BY <2>1, <2>3, <2>5 DEF QueueInv, FifoInv
<1> QED BY <1>2, <1>3, <1>4, <1>5, <1>6 DEF QueueClient, QueueServer

LEMMA NextRunKeeps ==
  ASSUME TransferInv, kind = "mq", kind' = kind, UNCHANGED fifoVars, NextRun
  PROVE  TransferInv'
<1> USE DEF TransferInv
<1>1. /\ file' \in File /\ spare' \in Spares /\ pos' = 0 /\ cpc' = "start" /\ spc' = "start"
      /\ out' = <<>> /\ queue' = queue /\ UNCHANGED <<fifo, buf>>
  BY DEF NextRun, fifoVars
<1>2. Len(file') \in Nat
  BY <1>1, FileIs
<1>3. TransferTypeOK'
  BY <1>1, <1>2 DEF TransferTypeOK
<1>4. Whole(pos)'
  BY <1>1, WholeZero DEF Whole
<1> QED BY <1>1, <1>3, <1>4 DEF PosInv, QueueInv, FifoInv
---------------------------------------------------------------------------
(* The transfer through the FIFO.                                             *)
(* What is written and what is read next to it are one stream. *)
LEMMA OneStream ==
  ASSUME NEW r \in Seq(Byte), NEW s \in Seq(Byte), NEW t \in Seq(Byte)
  PROVE  (r \o s) \o t = r \o (s \o t)
BY ConcatAssociative

LEMMA WriteKeeps ==
  ASSUME TransferInv, kind = "fifo", kind' = kind, UNCHANGED queueVars, WriteChunk
  PROVE  TransferInv'
<1> USE DEF TransferInv
<1>1. /\ cpc = "write" /\ ~AtEof /\ Len(fifo) + Len(Read) <= Capacity
      /\ fifo' = fifo \o Read /\ pos' = pos + Len(Read)
      /\ UNCHANGED <<file, cpc, spc, out, buf, queue, spare>>
  BY DEF WriteChunk, queueVars
<1>2. /\ PosInv' /\ pos' \in 0 .. Len(file) /\ pos' = Here
      /\ AtEof' \/ Len(Read) = SIZE
  BY <1>1, PosStep
<1>3. /\ Read = SubSeq(file, pos + 1, Here) /\ Read \in Seq(Byte)
      /\ Here \in pos + 1 .. Len(file)
  BY <1>1, ReadIs
<1>4. /\ file \in Seq(Byte) /\ fifo \in Seq(Byte) /\ out \in Seq(Byte)
      /\ pos \in 0 .. Len(file)
  BY FileIs DEF TransferTypeOK
<1>5. fifo' \in Seq(Byte) /\ Len(fifo') = Len(fifo) + Len(Read)
  BY <1>1, <1>3, <1>4, ConcatProperties
<1>6. TransferTypeOK'
  BY <1>1, <1>2, <1>5 DEF TransferTypeOK
<1>7. ConnectInv' /\ spc # "done"
  BY <1>1 DEF FifoInv, ConnectInv, StreamInv
<1>8. StreamInv'
  <2>1. Whole(Len(fifo))
    BY <1>1 DEF FifoInv, StreamInv
  <2>2. Whole(Len(fifo) + SIZE)
    BY <1>4, <2>1, WholeNext
  <2>3. AtEof' \/ Whole(Len(fifo'))
    BY <1>2, <1>5, <2>2
  <2> QED BY <1>1, <1>7, <2>3 DEF StreamInv, Whole
<1>9. CopyInv'
  <2>1. out \o fifo = SubSeq(file, 1, pos)
    BY <1>7 DEF FifoInv, CopyInv
  <2>2. out \o (fifo \o Read) = (out \o fifo) \o Read
    <3>1. Read \in Seq(Byte) /\ fifo \in Seq(Byte) /\ out \in Seq(Byte)
      BY <1>3, <1>4
    <3> QED BY <3>1, OneStream
  <2>3. SubSeq(file, 1, pos) \o SubSeq(file, pos + 1, Here) = SubSeq(file, 1, Here)
    <3>1. /\ 1 \in 1 .. Len(file) + 1 /\ pos \in 1 - 1 .. Len(file) /\ Here \in pos .. Len(file)
      BY <1>3, <1>4
    <3> QED BY <1>4, <3>1, ConcatAdjacentSubSeq
  <2> QED BY <1>1, <1>2, <1>3, <1>7, <2>1, <2>2, <2>3 DEF CopyInv
<1> QED BY <1>1, <1>2, <1>6, <1>7, <1>8, <1>9 DEF QueueInv, FifoInv

(* A read takes SIZE bytes of a FIFO that has as many, or all of it. *)
LEMMA AmountIs ==
  ASSUME TransferInv, fifo # <<>>
  PROVE  /\ Amount \in 1 .. Len(fifo) /\ Amount <= SIZE
         /\ Amount = Len(fifo) \/ Amount = SIZE
         /\ SubSeq(fifo, 1, Amount) \in Seq(Byte)
         /\ SubSeq(fifo, Amount + 1, Len(fifo)) \in Seq(Byte)
         /\ Len(SubSeq(fifo, Amount + 1, Len(fifo))) = Len(fifo) - Amount
         /\ fifo = SubSeq(fifo, 1, Amount) \o SubSeq(fifo, Amount + 1, Len(fifo))
         /\ Filled \in [1 .. SIZE -> Byte] /\ Filled[1] = fifo[1]
<1>1. /\ fifo \in Seq(Byte) /\ Len(fifo) \in Nat /\ Len(fifo) > 0
      /\ SIZE \in Nat /\ SIZE >= 2 /\ buf \in [1 .. SIZE -> Byte]
  BY ChunkAssumption DEF TransferInv, TransferTypeOK
<1>2. /\ Amount \in 1 .. Len(fifo) /\ Amount <= SIZE
      /\ Amount = Len(fifo) \/ Amount = SIZE
  BY <1>1 DEF Amount
<1>3. /\ SubSeq(fifo, 1, Amount) \in Seq(Byte)
      /\ SubSeq(fifo, Amount + 1, Len(fifo)) \in Seq(Byte)
      /\ Len(SubSeq(fifo, Amount + 1, Len(fifo))) = Len(fifo) - Amount
  BY <1>1, <1>2
<1>4. SubSeq(fifo, 1, Amount) \o SubSeq(fifo, Amount + 1, Len(fifo)) = SubSeq(fifo, 1, Len(fifo))
  <2>1. /\ 1 \in 1 .. Len(fifo) + 1 /\ Amount \in 1 - 1 .. Len(fifo)
        /\ Len(fifo) \in Amount .. Len(fifo)
    BY <1>1, <1>2
  <2> QED BY <1>1, <2>1, ConcatAdjacentSubSeq
<1>5. SubSeq(fifo, 1, Len(fifo)) = fifo
  BY <1>1, SubSeqFull
<1>6. Filled \in [1 .. SIZE -> Byte]
  <2>1. ASSUME NEW j \in 1 .. SIZE
        PROVE  (IF j <= Amount THEN fifo[j] ELSE buf[j]) \in Byte
    BY <1>1, <1>2
  <2> QED BY <2>1 DEF Filled
<1>7. Filled[1] = fifo[1]
  BY <1>1, <1>2 DEF Filled
<1> QED BY <1>2, <1>3, <1>4, <1>5, <1>6, <1>7

LEMMA ReadKeeps ==
  ASSUME TransferInv, kind = "fifo", kind' = kind, UNCHANGED queueVars, ReadChunk
  PROVE  TransferInv'
<1> USE DEF TransferInv
<1> DEFINE first == SubSeq(fifo, 1, Amount)
           last  == SubSeq(fifo, Amount + 1, Len(fifo))
<1>1. /\ spc = "read" /\ fifo # <<>> /\ buf' = Filled /\ fifo' = last
      /\ SaysQuit => spc' = "done" /\ out' = out
      /\ ~SaysQuit => spc' = spc /\ out' = out \o first
      /\ UNCHANGED <<file, pos, cpc, queue, spare>>
  BY DEF ReadChunk, queueVars
<1>2. /\ Amount \in 1 .. Len(fifo) /\ Amount <= SIZE
      /\ Amount = Len(fifo) \/ Amount = SIZE
      /\ first \in Seq(Byte) /\ last \in Seq(Byte) /\ Len(last) = Len(fifo) - Amount
      /\ fifo = first \o last
      /\ Filled \in [1 .. SIZE -> Byte] /\ Filled[1] = fifo[1]
  BY <1>1, AmountIs
<1>3. /\ file \in Seq(Byte) /\ fifo \in Seq(Byte) /\ out \in Seq(Byte)
      /\ Len(fifo) \in Nat /\ pos \in 0 .. Len(file) /\ SIZE \in Nat /\ SIZE >= 2
  BY FileIs, ChunkAssumption DEF TransferTypeOK
<1>4. /\ AtEof \/ Whole(Len(fifo))
      /\ out \o fifo = SubSeq(file, 1, pos)
      /\ cpc = "done" => AtEof
      /\ cpc \notin {"start", "opening", "failed"}
  BY <1>1 DEF FifoInv, ConnectInv, StreamInv, CopyInv
<1> HIDE DEF first, last
<1>5. PosInv' /\ (AtEof' <=> AtEof) /\ \A n : Whole(n)' <=> Whole(n)
  BY <1>1 DEF PosInv, AtEof, Whole
<1>6. CASE SaysQuit
  <2>1. Amount = 1 /\ Len(fifo) = 1 /\ fifo[1] = "QUIT"
    BY <1>2, <1>3, <1>6 DEF SaysQuit
  <2>2. AtEof
    <3>1. SUFFICES ASSUME Whole(Len(fifo)) PROVE FALSE
      BY <1>4
    <3> QED BY <1>3, <2>1, <3>1, WholeLess
  <2>3. fifo' = <<>> /\ fifo = <<"QUIT">>
    <3>1. last \in Seq(Byte) /\ Len(last) = 0
      BY <1>2, <2>1
    <3>2. last = <<>>
      BY <3>1
    <3>3. fifo = <<"QUIT">>
      BY <1>3, <2>1
    <3> QED BY <1>1, <3>2, <3>3
  <2>4. SubSeq(file, 1, pos) = file
    BY <1>3, <2>2, SubSeqFull DEF AtEof
  <2>5. TransferTypeOK'
    <3>1. fifo' \in Seq(Byte) /\ Len(fifo') <= Capacity
      BY <2>3, FifoAssumption, ChunkAssumption
    <3>2. buf' \in [1 .. SIZE -> Byte] /\ spc' = "done" /\ out' = out
      BY <1>1, <1>2, <1>6
    <3> QED BY <1>1, <3>1, <3>2 DEF TransferTypeOK
  <2>6. ConnectInv' /\ StreamInv'
    BY <1>1, <1>4, <1>5, <1>6, <2>2, <2>3 DEF ConnectInv, StreamInv
  <2>7. CopyInv'
    BY <1>1, <1>4, <1>6, <2>3, <2>4 DEF CopyInv
  <2> QED BY <1>1, <1>5, <2>5, <2>6, <2>7 DEF QueueInv, FifoInv
<1>7. CASE ~SaysQuit
  <2>1. out \o first \in Seq(Byte) /\ out \o fifo = (out \o first) \o last
    <3>1. first \in Seq(Byte) /\ last \in Seq(Byte) /\ out \in Seq(Byte) /\ fifo = first \o last
      BY <1>2, <1>3
    <3>2. (out \o first) \o last = out \o (first \o last)
      BY <3>1, OneStream
    <3> QED BY <3>1, <3>2, ConcatProperties, Zenon
  <2>2. Len(fifo') <= Len(fifo)
    BY <1>1, <1>2, <1>3
  <2>3. TransferTypeOK'
    <3>1. Len(fifo') <= Capacity
      BY <1>1, <1>2, <1>3, <2>2, FifoAssumption DEF TransferTypeOK
    <3> QED BY <1>1, <1>2, <1>7, <2>1, <3>1 DEF TransferTypeOK
  <2>4. AtEof \/ Whole(Len(fifo'))
    <3>1. SUFFICES ASSUME Whole(Len(fifo)) PROVE Whole(Len(fifo'))
      BY <1>4
    <3>2. Len(fifo) >= SIZE /\ Whole(Len(fifo) - SIZE)
      BY <1>2, <1>3, <3>1, WholeLess
    <3>3. Amount = SIZE
      BY <1>2, <1>3, <3>2
    <3> QED BY <1>1, <1>2, <3>2, <3>3
  <2>5. ConnectInv' /\ StreamInv'
    BY <1>1, <1>4, <1>5, <1>7, <2>4 DEF ConnectInv, StreamInv
  <2>6. CopyInv'
    BY <1>1, <1>4, <1>7, <2>1 DEF CopyInv
  <2> QED BY <1>1, <1>5, <2>3, <2>5, <2>6 DEF QueueInv, FifoInv
<1> QED BY <1>6, <1>7

LEMMA FifoKeeps ==
  ASSUME TransferInv, kind = "fifo", kind' = kind, UNCHANGED queueVars,
         FifoWriter \/ FifoReader
  PROVE  TransferInv'
<1> USE DEF TransferInv
<1>1. UNCHANGED <<queue, spare>>
  BY DEF queueVars
<1>2. CASE WriteChunk
  BY <1>2, WriteKeeps
<1>3. CASE ReadChunk
  BY <1>3, ReadKeeps
<1>4. CASE WriterStart \/ ReaderStart \/ Connect \/ WriterClose \/ ReadEof
  <2>1. UNCHANGED <<file, pos, out, fifo, buf>>
    BY <1>4 DEF WriterStart, ReaderStart, Connect, WriterClose, ReadEof, fifoVars
  <2>2. /\ cpc' \in {"start", "opening", "send", "write", "done", "failed"}
        /\ spc' \in {"start", "opening", "receive", "read", "done"}
    BY <1>4 DEF WriterStart, ReaderStart, Connect, WriterClose, ReadEof, TransferTypeOK
  <2>3. TransferTypeOK' /\ PosInv'
    BY <1>1, <2>1, <2>2 DEF TransferTypeOK, PosInv, AtEof
  <2>4. (AtEof' <=> AtEof) /\ (Whole(Len(fifo))' <=> Whole(Len(fifo)))
    BY <2>1 DEF AtEof, Whole
  <2>5. ConnectInv /\ StreamInv /\ CopyInv
    BY DEF FifoInv
  <2>6. ConnectInv'
    BY <1>4, <2>1, <2>5
    DEF WriterStart, ReaderStart, Connect, WriterClose, ReadEof, ConnectInv
  <2>7. StreamInv'
    BY <1>4, <2>1, <2>4, <2>5
    DEF WriterStart, ReaderStart, Connect, WriterClose, ReadEof, ConnectInv, StreamInv
  <2>8. CopyInv'
    <3>1. CASE ReadEof
      <4>1. spc = "read" /\ fifo = <<>> /\ cpc = "done" /\ spc' = "done"
        BY <3>1 DEF ReadEof
      <4>2. file \in Seq(Byte) /\ out \in Seq(Byte) /\ pos = Len(file)
        BY <2>5, <4>1, FileIs DEF StreamInv, AtEof, TransferTypeOK
      <4>3. out \o <<>> = out
        BY <4>2
      <4>4. SubSeq(file, 1, pos) = file
        BY <4>2, SubSeqFull
      <4>5. out = file
        BY <2>5, <4>1, <4>3, <4>4 DEF CopyInv
      <4> QED BY <2>1, <4>1, <4>5 DEF CopyInv
    <3>2. CASE ~ReadEof
      <4>1. spc' = "done" <=> spc = "done"
        BY <1>4, <3>2 DEF WriterStart, ReaderStart, Connect, WriterClose
      <4> QED BY <2>1, <2>5, <4>1 DEF CopyInv
    <3> QED BY <3>1, <3>2
  <2> QED BY <1>1, <2>3, <2>6, <2>7, <2>8 DEF QueueInv, FifoInv
<1> QED BY <1>2, <1>3, <1>4 DEF FifoWriter, FifoReader

LEMMA TransferStays ==
  ASSUME TransferInv, kind' = kind, UNCHANGED transferVars
  PROVE  TransferInv'
<1>1. UNCHANGED <<file, pos, cpc, spc, out, queue, spare, fifo, buf>>
  BY DEF transferVars, chunkVars, queueVars, fifoVars
<1>2. (AtEof' <=> AtEof) /\ \A n : Whole(n)' <=> Whole(n)
  BY <1>1 DEF AtEof, Whole
<1>3. TransferTypeOK' /\ PosInv' /\ QueueInv'
  BY <1>1, <1>2 DEF TransferInv, TransferTypeOK, PosInv, QueueInv, AtEof, Whole
<1>4. FifoInv'
  BY <1>1, <1>2 DEF TransferInv, FifoInv, ConnectInv, StreamInv, CopyInv, AtEof, Whole
<1> QED BY <1>3, <1>4 DEF TransferInv
---------------------------------------------------------------------------
(* All of it.                                                                 *)
LEMMA InitInv == Init => Inv
BY InitTransfer, InitTokens DEF Init, Inv

LEMMA NextInv == Inv /\ [Next]_vars => Inv'
<1> SUFFICES ASSUME Inv, [Next]_vars PROVE Inv'
  OBVIOUS
<1> USE DEF Inv
<1>1. CASE Queue(QueueClient) \/ Queue(QueueServer) \/ Queue(NextRun)
  <2>1. /\ kind = "mq" /\ UNCHANGED <<kind, fifoVars, tokenVars>>
        /\ QueueClient \/ QueueServer \/ NextRun
    BY <1>1 DEF Queue
  <2> QED BY <2>1, QueueKeeps, NextRunKeeps, TokensStay
<1>2. CASE Fifo(FifoWriter) \/ Fifo(FifoReader)
  <2>1. /\ kind = "fifo" /\ UNCHANGED <<kind, queueVars, tokenVars>>
        /\ FifoWriter \/ FifoReader
    BY <1>2 DEF Fifo
  <2> QED BY <2>1, FifoKeeps, TokensStay
<1>3. CASE Tokens(TokenStep)
  <2>1. TokenStep /\ UNCHANGED <<kind, transferVars>>
    BY <1>3 DEF Tokens
  <2> QED BY <2>1, TransferStays, TokensKeep
<1>4. CASE UNCHANGED vars
  <2>1. UNCHANGED <<kind, transferVars, tokenVars>>
    BY <1>4 DEF vars
  <2> QED BY <2>1, TransferStays, TokensStay
<1> QED BY <1>1, <1>2, <1>3, <1>4 DEF Next, Client, Server

(* The chunks of the queue and of the FIFO are sequences of the file's bytes, *)
(* what the FIFO holds lies between what is written and what is read, and     *)
(* every client of the token server has one request or answer under way.      *)
THEOREM Invariance == Spec => []Inv
BY InitInv, NextInv, PTL DEF Spec

(* Every variable keeps its type: the queue never holds more than its limit,  *)
(* the FIFO no more than its capacity, and the server opens no more queues    *)
(* than it may.                                                               *)
THEOREM TypeCorrect == Spec => []TypeOK
<1>1. Inv => TypeOK
  BY DEF Inv, TransferInv, TokenInv, TransferTypeOK, TokenTypeOK, TypeOK, IsQueue
<1> QED BY <1>1, Invariance, PTL

(* fifo_writer.c never writes to a FIFO without a reader: the reader takes no *)
(* chunk for "quit" but the last.                                             *)
THEOREM ReaderStays == Spec => []NoBrokenPipe
<1>1. Inv => NoBrokenPipe
  BY DEF Inv, TransferInv, FifoInv, StreamInv, NoBrokenPipe
<1> QED BY <1>1, Invariance, PTL

(* What the reader of the FIFO has written when it ends is the file, or all   *)
(* of it but a last chunk that reads "quit".                                  *)
FifoCopies ==
  kind = "fifo" /\ spc = "done" => out = file \/ out \o <<"QUIT">> = file

THEOREM FifoCopiesFile == Spec => []FifoCopies
<1>1. Inv => FifoCopies
  BY DEF Inv, TransferInv, FifoInv, CopyInv, FifoCopies
<1> QED BY <1>1, Invariance, PTL

(* One run of the token server hands out 1, 2, 3 and so on, each once, also   *)
(* when clients vanish between their request and its answer.                  *)
THEOREM TokensAreUnique == Spec => []TokensInARow
<1>1. Inv => TokensInARow
  BY DEF Inv, TokenInv
<1> QED BY <1>1, Invariance, PTL

(* A client of the token server never has a second request or answer under    *)
(* way, so that what it reads answers what it has asked last.                 *)
THEOREM AnswersFit == Spec => []OneUnderWay
<1>1. Inv => OneUnderWay
  BY DEF Inv, TokenInv
<1> QED BY <1>1, Invariance, PTL

---------------------------------------------------------------------------
(* The FIFO implements the transfer.                                          *)

(* Division in whole chunks. *)
LEMMA RemainderWhole ==
  ASSUME NEW m \in Nat, NEW i \in 0 .. SIZE - 1
  PROVE  (m * SIZE + i) % SIZE = i
<1> DEFINE a == m * SIZE + i
           r == a \div SIZE
           k == a % SIZE
<1>1. SIZE \in Nat /\ SIZE >= 2 /\ m * SIZE \in Nat
  BY ChunkAssumption
<1>2. a \in Nat
  BY <1>1
<1>3. a = m * SIZE + i
  OBVIOUS
<1>4. r = m
  BY DivideWhole
<1> HIDE DEF a
<1>5. r \in Nat /\ k \in 0 .. SIZE - 1 /\ a = SIZE * r + k
  BY <1>1, <1>2
<1> HIDE DEF r, k
<1>6. SIZE * r = m * SIZE
  BY <1>1, <1>4
<1>7. k = i
  BY <1>1, <1>3, <1>5, <1>6
<1> QED BY <1>7 DEF a, k

LEMMA Remainder ==
  ASSUME NEW n \in Nat, n % SIZE = 0, NEW r \in 0 .. SIZE - 1
  PROVE  (n + r) % SIZE = r /\ (n + SIZE) % SIZE = 0
<1> DEFINE q == n \div SIZE
<1>1. SIZE \in Nat /\ SIZE >= 2
  BY ChunkAssumption
<1>2. q \in Nat /\ n = SIZE * q
  BY <1>1
<1> HIDE DEF q
<1>3. q * SIZE = n
  BY <1>1, <1>2
<1>4. (n + r) % SIZE = r
  BY <1>2, <1>3, RemainderWhole
<1>5. (q + 1) * SIZE + 0 = n + SIZE
  BY <1>1, <1>2, <1>3
<1>6. q + 1 \in Nat /\ 0 \in 0 .. SIZE - 1
  BY <1>1, <1>2
<1>7. ((q + 1) * SIZE + 0) % SIZE = 0
  BY <1>6, RemainderWhole
<1> QED BY <1>4, <1>5, <1>7

(* Elements of a part and of a concatenation, for sequences of bytes. *)
LEMMA Part ==
  ASSUME NEW s \in Seq(Byte), NEW n \in 0 .. Len(s)
  PROVE  /\ SubSeq(s, 1, n) \in Seq(Byte) /\ Len(SubSeq(s, 1, n)) = n
         /\ \A j \in 1 .. n : SubSeq(s, 1, n)[j] = s[j]
OBVIOUS

LEMMA Concatenated ==
  ASSUME NEW s \in Seq(Byte), NEW t \in Seq(Byte)
  PROVE  /\ s \o t \in Seq(Byte) /\ Len(s \o t) = Len(s) + Len(t)
         /\ Len(s) \in Nat /\ Len(t) \in Nat
         /\ \A j \in 1 .. Len(s) : (s \o t)[j] = s[j]
         /\ \A j \in 1 .. Len(t) : (s \o t)[Len(s) + j] = t[j]
OBVIOUS

LEMMA OneByteLeft ==
  ASSUME NEW s \in Seq(Byte), NEW b \in Byte, NEW f \in Seq(Byte), s \o <<b>> = f
  PROVE  Len(f) = Len(s) + 1 /\ f[Len(f)] = b /\ SubSeq(f, 1, Len(f) - 1) = s
<1>1. f = Append(s, b)
  OBVIOUS
<1>2. /\ Len(f) = Len(s) + 1 /\ f[Len(s) + 1] = b /\ Len(s) \in Nat
      /\ \A j \in 1 .. Len(s) : f[j] = s[j]
  BY <1>1
<1>3. /\ SubSeq(f, 1, Len(s)) \in Seq(Byte) /\ Len(SubSeq(f, 1, Len(s))) = Len(s)
      /\ \A j \in 1 .. Len(s) : SubSeq(f, 1, Len(s))[j] = f[j]
  BY <1>2
<1>4. SubSeq(f, 1, Len(s)) = s
  BY <1>2, <1>3, SeqEqual
<1> QED BY <1>2, <1>4

(* What a read that is not the end does to the output. *)
LEMMA ReadOn ==
  ASSUME TransferInv, BufferInv, kind = "fifo", ReadChunk, ~SaysQuit
  PROVE  /\ BufferInv'
         /\ out' \in Seq(Byte) /\ Len(out') \in Len(out) + 1 .. Len(FifoDelivers)
         /\ out' = SubSeq(FifoDelivers, 1, Len(out'))
<1> DEFINE first == SubSeq(fifo, 1, Amount)
           last  == SubSeq(fifo, Amount + 1, Len(fifo))
           l == Len(file)
           o == Len(out)
<1>1. /\ spc = "read" /\ spc' = "read" /\ fifo # <<>> /\ buf' = Filled /\ fifo' = last
      /\ out' = out \o first /\ UNCHANGED <<file, pos, cpc, rest>>
  BY DEF ReadChunk
<1>2. /\ Amount \in 1 .. Len(fifo) /\ Amount <= SIZE
      /\ Amount = Len(fifo) \/ Amount = SIZE
  BY <1>1, AmountIs
<1>3. Len(fifo) \in Nat /\ fifo \in Seq(Byte) /\ Len(file) \in Nat /\ Len(out) \in Nat
      /\ SIZE \in Nat /\ SIZE >= 2
  BY FileIs, ChunkAssumption DEF TransferInv, TransferTypeOK
<1>4. /\ Amount \in 1 .. Len(fifo) /\ Amount <= SIZE
      /\ Amount = Len(fifo) \/ Amount = SIZE
      /\ first \in Seq(Byte) /\ last \in Seq(Byte) /\ Len(last) = Len(fifo) - Amount
      /\ fifo = first \o last
  BY <1>1, AmountIs
<1>5. /\ file \in Seq(Byte) /\ fifo \in Seq(Byte) /\ out \in Seq(Byte)
      /\ Len(fifo) \in Nat /\ l \in Nat /\ o \in Nat /\ pos \in 0 .. l
      /\ SIZE \in Nat /\ SIZE >= 2 /\ buf \in [1 .. SIZE -> Byte]
  BY FileIs, ChunkAssumption DEF TransferInv, TransferTypeOK
<1>6. /\ AtEof \/ Whole(Len(fifo))
      /\ out \o fifo = SubSeq(file, 1, pos)
  BY <1>1 DEF TransferInv, FifoInv, StreamInv, CopyInv
<1> DEFINE whole == SubSeq(file, 1, pos)
<1>7. /\ whole \in Seq(Byte) /\ Len(whole) = pos
      /\ \A j \in 1 .. pos : whole[j] = file[j]
  BY <1>5
<1>8. /\ Len(out \o fifo) = o + Len(fifo)
      /\ \A j \in 1 .. o : (out \o fifo)[j] = out[j]
      /\ \A j \in 1 .. Len(fifo) : (out \o fifo)[o + j] = fifo[j]
  BY <1>5
<1>9. /\ o + Len(fifo) = pos
      /\ \A j \in 1 .. o : out[j] = file[j]
      /\ \A j \in 1 .. Len(fifo) : fifo[j] = file[o + j]
  <2> DEFINE both == out \o fifo
  <2>1. whole = both
    BY <1>6
  <2>2. /\ Len(both) = o + Len(fifo)
        /\ \A j \in 1 .. o : both[j] = out[j]
        /\ \A j \in 1 .. Len(fifo) : both[o + j] = fifo[j]
    BY <1>8
  <2> HIDE DEF whole, both
  <2>3. o + Len(fifo) = pos
    BY <1>7, <2>1, <2>2
  <2>4. ASSUME NEW j \in 1 .. o PROVE out[j] = file[j]
    <3>1. j \in 1 .. pos
      BY <1>5, <2>3
    <3> QED BY <1>7, <2>1, <2>2, <3>1
  <2>5. ASSUME NEW j \in 1 .. Len(fifo) PROVE fifo[j] = file[o + j]
    <3>1. o + j \in 1 .. pos
      BY <1>5, <2>3
    <3> QED BY <1>7, <2>1, <2>2, <3>1
  <2> QED BY <2>3, <2>4, <2>5
<1>10. Len(first) = Amount /\ \A j \in 1 .. Amount : first[j] = fifo[j]
  <2>1. Amount \in 0 .. Len(fifo)
    BY <1>2, <1>3
  <2> QED BY <1>3, <2>1, Part
<1> HIDE DEF first, last
<1>11. /\ out' \in Seq(Byte) /\ Len(out') = o + Amount
      /\ \A j \in 1 .. o + Amount : out'[j] = file[j]
  <2>1. /\ out \o first \in Seq(Byte) /\ Len(out \o first) = o + Amount
        /\ \A j \in 1 .. o : (out \o first)[j] = out[j]
        /\ \A j \in 1 .. Amount : (out \o first)[o + j] = first[j]
    BY <1>4, <1>5, <1>10, Concatenated
  <2>2. ASSUME NEW j \in 1 .. o + Amount PROVE (out \o first)[j] = file[j]
    <3> HIDE DEF o
    <3>1. ASSUME j <= o PROVE (out \o first)[j] = file[j]
      BY <1>5, <1>9, <2>1, <3>1
    <3>2. ASSUME j > o PROVE (out \o first)[j] = file[j]
      <4> DEFINE i == j - o
      <4>1. i \in 1 .. Amount /\ i \in 1 .. Len(fifo) /\ o + i = j
        BY <1>4, <1>5, <3>2
      <4> HIDE DEF i
      <4>2. (out \o first)[o + i] = first[i] /\ first[i] = fifo[i] /\ fifo[i] = file[o + i]
        BY <1>9, <1>10, <2>1, <4>1
      <4> QED BY <4>1, <4>2
    <3>3. o \in Nat /\ j \in Nat
      BY <1>2, <1>3, <1>5
    <3>4. j <= o \/ j > o
      BY <3>3
    <3> QED BY <3>1, <3>2, <3>4, Zenon
  <2> QED BY <1>1, <2>1, <2>2
<1>12. o + Amount <= l /\ o < l
  BY <1>4, <1>5, <1>9
<1> HIDE DEF l, o
<1>13. o % SIZE = 0 /\ buf[2] = (IF out = <<>> THEN rest ELSE file[o - SIZE + 2])
  BY <1>12 DEF BufferInv, l, o
<1>14. Amount = SIZE \/ (o + Amount = l /\ Amount < SIZE)
  <2>1. CASE Whole(Len(fifo))
    <3>1. Len(fifo) >= SIZE
      BY <1>1, <1>4, <1>5, <2>1, WholeLess
    <3> QED BY <1>4, <1>5, <3>1
  <2>2. CASE AtEof
    <3>1. pos = l
      BY <2>2 DEF AtEof, l
    <3> QED BY <1>4, <1>5, <1>9, <3>1
  <2> QED BY <1>6, <2>1, <2>2
<1>15. ASSUME o + Amount < l
       PROVE  /\ (o + Amount) % SIZE = 0
              /\ buf'[2] = file[(o + Amount) - SIZE + 2] /\ out' # <<>>
  <2>1. Amount = SIZE /\ (o + SIZE) % SIZE = 0
    <3>1. 0 \in 0 .. SIZE - 1
      BY <1>5
    <3>2. o \in Nat
      BY <1>3 DEF o
    <3>3. Amount = SIZE
      <4>1. l \in Nat /\ Amount \in Nat
        BY <1>2, <1>3 DEF l
      <4> QED BY <1>14, <1>15, <3>2, <4>1
    <3> QED BY <1>13, <3>1, <3>2, <3>3, Remainder
  <2>2. 2 \in 1 .. SIZE /\ 2 <= Amount /\ 2 \in 1 .. Len(fifo)
    BY <1>4, <1>5, <2>1
  <2>3. buf'[2] = fifo[2]
    BY <1>1, <2>2 DEF Filled
  <2>4. (o + Amount) - SIZE + 2 = o + 2
    BY <1>5, <2>1
  <2>5. out' # <<>>
    BY <1>5, <1>11, <2>1
  <2> QED BY <1>9, <2>1, <2>2, <2>3, <2>4, <2>5
<1>16. ASSUME o + Amount = l
       PROVE  ~TakenForEnd
  <2>1. SUFFICES ASSUME TakenForEnd PROVE FALSE
    OBVIOUS
  <2>2. /\ l % SIZE = 1 /\ file[l] = "QUIT"
        /\ (IF l = 1 THEN rest ELSE file[l - SIZE + 1]) = "NUL"
    BY <2>1 DEF TakenForEnd, l
  <2>3. Amount # SIZE
    <3>1. SUFFICES ASSUME Amount = SIZE PROVE FALSE
      OBVIOUS
    <3>2. 0 \in 0 .. SIZE - 1
      BY <1>5
    <3>3. (o + SIZE) % SIZE = 0
      BY <1>5, <1>13, <3>2, Remainder
    <3> QED BY <1>16, <2>2, <3>1, <3>3
  <2>4. Amount \in 0 .. SIZE - 1
    BY <1>4, <1>5, <2>3
  <2>5. Amount = 1
    <3>1. (o + Amount) % SIZE = Amount
      BY <1>5, <1>13, <2>4, Remainder
    <3> QED BY <1>16, <2>2, <3>1
  <2>6. Filled[1] = "QUIT"
    <3>1. Filled[1] = fifo[1]
      BY <1>1, AmountIs
    <3>2. fifo[1] = file[o + 1]
      BY <1>4, <1>9, <2>5
    <3> QED BY <1>16, <2>2, <2>5, <3>1, <3>2
  <2>7. Filled[2] = buf[2]
    BY <1>5, <2>5 DEF Filled
  <2>8. buf[2] = "NUL"
    <3>1. CASE out = <<>>
      <4>1. o = 0 /\ l = 1
        BY <1>5, <1>16, <2>5, <3>1 DEF o
      <4> QED BY <1>13, <2>2, <3>1, <4>1
    <3>2. CASE out # <<>>
      <4>1. o # 0 /\ l # 1 /\ l - SIZE + 1 = o - SIZE + 2
        BY <1>5, <1>16, <2>5, <3>2 DEF o
      <4> QED BY <1>13, <2>2, <3>2, <4>1
    <3> QED BY <3>1, <3>2
  <2> QED BY <2>5, <2>6, <2>7, <2>8 DEF SaysQuit
<1>17. BufferInv'
  <2>1. Len(out') < Len(file') =>
           /\ Len(out') % SIZE = 0
           /\ buf'[2] = IF out' = <<>> THEN rest' ELSE file'[Len(out') - SIZE + 2]
    BY <1>1, <1>11, <1>15 DEF l
  <2>2. Len(out') = Len(file') => ~TakenForEnd'
    BY <1>1, <1>11, <1>16 DEF l, TakenForEnd
  <2> QED BY <1>1, <2>1, <2>2 DEF BufferInv
<1>18. FifoDelivers \in Seq(Byte) /\ o + Amount <= Len(FifoDelivers)
       /\ \A j \in 1 .. o + Amount : FifoDelivers[j] = file[j]
  <2>1. CASE ~TakenForEnd
    BY <1>5, <1>12, <2>1 DEF FifoDelivers, l
  <2>2. CASE TakenForEnd
    <3>1. o + Amount <= l - 1
      BY <1>4, <1>5, <1>12, <1>16, <2>2
    <3>2. FifoDelivers = SubSeq(file, 1, l - 1)
      BY <2>2 DEF FifoDelivers, l
    <3>3. l - 1 \in 0 .. Len(file)
      BY <1>4, <1>5, <3>1 DEF l
    <3> DEFINE k == l - 1
    <3>4. k \in 0 .. Len(file) /\ o + Amount <= k /\ FifoDelivers = SubSeq(file, 1, k)
      BY <3>1, <3>2, <3>3
    <3> HIDE DEF k
    <3>5. /\ SubSeq(file, 1, k) \in Seq(Byte) /\ Len(SubSeq(file, 1, k)) = k
          /\ \A j \in 1 .. k : SubSeq(file, 1, k)[j] = file[j]
      BY <1>5, <3>4
    <3> QED BY <1>4, <1>5, <3>4, <3>5
  <2> QED BY <2>1, <2>2
<1>19. out' = SubSeq(FifoDelivers, 1, o + Amount)
  <2> DEFINE d == FifoDelivers
             n == o + Amount
  <2>1. d \in Seq(Byte) /\ n \in Nat /\ n <= Len(d) /\ out' \in Seq(Byte) /\ Len(out') = n
        /\ \A j \in 1 .. n : out'[j] = d[j]
    <3>1. n \in Nat
      BY <1>2, <1>3 DEF o
    <3> QED BY <1>11, <1>18, <3>1
  <2> HIDE DEF d, n
  <2>2. /\ SubSeq(d, 1, n) \in Seq(Byte) /\ Len(SubSeq(d, 1, n)) = n
        /\ \A j \in 1 .. n : SubSeq(d, 1, n)[j] = d[j]
    BY <2>1
  <2>3. out' = SubSeq(d, 1, n)
    BY <2>1, <2>2, SeqEqual
  <2> QED BY <2>3 DEF d, n
<1>20. Len(out') \in o + 1 .. Len(FifoDelivers)
  BY <1>4, <1>5, <1>11, <1>18
<1> QED BY <1>11, <1>17, <1>19, <1>20 DEF o

(* The read that takes the last byte for the end, because the NUL of the      *)
(* chunk before is behind it. *)
LEMMA ReadQuit ==
  ASSUME TransferInv, BufferInv, kind = "fifo", ReadChunk, SaysQuit
  PROVE  /\ BufferInv' /\ UNCHANGED <<file, rest, out, cpc>>
         /\ spc = "read" /\ spc' = "done" /\ out = FifoDelivers
<1> DEFINE l == Len(file)
           o == Len(out)
<1>1. /\ spc = "read" /\ spc' = "done" /\ fifo # <<>> /\ buf' = Filled
      /\ UNCHANGED <<file, rest, out, cpc, pos>>
  BY DEF ReadChunk
<1>2. Amount = 1 /\ Filled[1] = "QUIT" /\ Filled[2] = "NUL"
  BY DEF SaysQuit
<1>3. /\ file \in Seq(Byte) /\ fifo \in Seq(Byte) /\ out \in Seq(Byte)
      /\ Len(fifo) \in Nat /\ l \in Nat /\ o \in Nat /\ pos \in 0 .. l
      /\ SIZE \in Nat /\ SIZE >= 2
  BY FileIs, ChunkAssumption DEF TransferInv, TransferTypeOK
<1>4. out \o <<"QUIT">> = file
  <2>1. /\ AtEof \/ Whole(Len(fifo))
        /\ out \o fifo = SubSeq(file, 1, pos)
    BY <1>1 DEF TransferInv, FifoInv, StreamInv, CopyInv
  <2>2. Len(fifo) = 1 /\ fifo[1] = "QUIT"
    BY <1>1, <1>2, <1>3, AmountIs
  <2>3. fifo = <<"QUIT">>
    BY <1>3, <2>2
  <2>4. AtEof
    <3>1. SUFFICES ASSUME Whole(Len(fifo)) PROVE FALSE
      BY <2>1
    <3> QED BY <1>3, <2>2, <3>1, WholeLess
  <2>5. SubSeq(file, 1, pos) = file
    BY <1>3, <2>4, SubSeqFull DEF AtEof
  <2> QED BY <2>1, <2>3, <2>5
<1>5. l = o + 1 /\ file[l] = "QUIT" /\ SubSeq(file, 1, l - 1) = out
  <2>1. "QUIT" \in Byte
    BY DEF Byte
  <2> QED BY <1>3, <1>4, <2>1, OneByteLeft
<1>6. Filled[2] = buf[2]
  BY <1>2, <1>3 DEF Filled
<1>7. o % SIZE = 0 /\ buf[2] = (IF out = <<>> THEN rest ELSE file[o - SIZE + 2])
  <2>1. o < l
    BY <1>3, <1>5
  <2> QED BY <2>1 DEF BufferInv
<1>8. TakenForEnd
  <2>1. l % SIZE = 1
    <3>1. 1 \in 0 .. SIZE - 1
      BY <1>3
    <3> HIDE DEF l, o
    <3>2. (o + 1) % SIZE = 1
      BY <1>3, <1>7, <3>1, Remainder
    <3> QED BY <1>5, <3>2
  <2>2. (IF l = 1 THEN rest ELSE file[l - SIZE + 1]) = "NUL"
    <3>1. CASE out = <<>>
      <4>1. l = 1
        BY <1>5, <3>1
      <4> QED BY <1>2, <1>6, <1>7, <3>1, <4>1
    <3>2. CASE out # <<>>
      <4>1. o # 0
        BY <1>3, <3>2
      <4> HIDE DEF l, o
      <4>2. l # 1 /\ l - SIZE + 1 = o - SIZE + 2
        BY <1>3, <1>5, <4>1
      <4> QED BY <1>2, <1>6, <1>7, <3>2, <4>2
    <3> QED BY <3>1, <3>2
  <2> QED BY <1>5, <2>1, <2>2 DEF TakenForEnd
<1>9. out = FifoDelivers
  BY <1>5, <1>8 DEF FifoDelivers
<1>10. BufferInv'
  <2>1. FifoDelivers' = FifoDelivers
    BY <1>1 DEF FifoDelivers, TakenForEnd
  <2>2. buf'[2] = buf[2]
    BY <1>1, <1>6
  <2> QED BY <1>1, <1>7, <1>9, <2>1, <2>2 DEF BufferInv
<1> QED BY <1>1, <1>9, <1>10

LEMMA ReadEnd ==
  ASSUME TransferInv, BufferInv, kind = "fifo", ReadEof
  PROVE  /\ BufferInv' /\ UNCHANGED <<file, rest, out, cpc>>
         /\ spc = "read" /\ spc' = "done" /\ out = FifoDelivers
<1>1. /\ spc = "read" /\ spc' = "done" /\ fifo = <<>> /\ cpc = "done"
      /\ UNCHANGED <<file, rest, out, cpc, buf>>
  BY DEF ReadEof, fifoVars
<1>2. file \in Seq(Byte) /\ out \in Seq(Byte) /\ pos = Len(file)
  BY <1>1, FileIs DEF TransferInv, FifoInv, StreamInv, AtEof, TransferTypeOK
<1>3. out = file
  <2>1. out \o <<>> = out
    BY <1>2
  <2>2. SubSeq(file, 1, pos) = file
    BY <1>2, SubSeqFull
  <2> QED BY <1>1, <2>1, <2>2 DEF TransferInv, FifoInv, CopyInv
<1>4. out = FifoDelivers
  <2>1. ~TakenForEnd
    BY <1>1, <1>3 DEF BufferInv
  <2> QED BY <1>3, <2>1 DEF FifoDelivers
<1>5. FifoDelivers' = FifoDelivers
  BY <1>1 DEF FifoDelivers, TakenForEnd
<1>6. BufferInv'
  <2>1. ~(Len(out) < Len(file))
    BY <1>2, <1>3
  <2> QED BY <1>1, <1>4, <1>5, <2>1 DEF BufferInv
<1> QED BY <1>1, <1>4, <1>6

LEMMA NothingTaken ==
  ASSUME Len(file) = 0
  PROVE  ~TakenForEnd
<1>1. 0 \in Nat /\ 0 \in 0 .. SIZE - 1 /\ 0 * SIZE + 0 = 0
  BY ChunkAssumption
<1>2. 0 % SIZE = 0
  BY <1>1, RemainderWhole
<1> QED BY <1>2 DEF TakenForEnd

LEMMA BufferStart == Init /\ kind = "fifo" => BufferInv
<1> SUFFICES ASSUME Init PROVE BufferInv
  OBVIOUS
<1>1. /\ out = <<>> /\ spc = "start" /\ buf = [j \in 1 .. SIZE |-> rest]
      /\ SIZE \in Nat /\ SIZE >= 2
  BY ChunkAssumption DEF Init, ChunkInit, FifoInit
<1>2. buf[2] = rest
  BY <1>1
<1>3. Len(out) % SIZE = 0
  <2>1. 0 \in Nat /\ 0 \in 0 .. SIZE - 1 /\ 0 * SIZE + 0 = 0 /\ Len(out) = 0
    BY <1>1
  <2> QED BY <2>1, RemainderWhole
<1> QED BY <1>1, <1>2, <1>3 DEF BufferInv

(* The steps that neither read nor come to the end of the stream. *)
LEMMA OtherFifoStep ==
  ASSUME TransferInv, BufferInv, kind = "fifo",
         WriterStart \/ ReaderStart \/ Connect \/ WriteChunk \/ WriterClose
  PROVE  /\ BufferInv' /\ UNCHANGED <<file, rest, out>>
         /\ spc' = spc \/ (spc # "done" /\ spc' # "done")
         /\ cpc' = cpc \/ (cpc # "failed" /\ cpc' # "failed")
              \/ (cpc = "start" /\ cpc' = "failed" /\ spc # "done" /\ spc' = spc /\ out = <<>>)
<1> USE DEF WriterStart, ReaderStart, Connect, WriteChunk, WriterClose, fifoVars
<1>1. UNCHANGED <<file, rest, out, buf>>
  OBVIOUS
<1>2. ConnectInv
  BY DEF TransferInv, FifoInv
<1>3. spc' = spc \/ (spc # "done" /\ spc' # "done" /\ (spc' = "read" => out = <<>>))
  BY <1>2 DEF ConnectInv
<1>4. \/ cpc' = cpc \/ (cpc # "failed" /\ cpc' # "failed")
      \/ (cpc = "start" /\ cpc' = "failed" /\ spc # "done" /\ spc' = spc /\ out = <<>>)
  BY <1>2 DEF ConnectInv
<1>5. FifoDelivers' = FifoDelivers /\ (TakenForEnd' <=> TakenForEnd)
  BY <1>1 DEF FifoDelivers, TakenForEnd
<1>6. spc' = "read" /\ Len(out') = Len(file') => ~TakenForEnd'
  <2>1. CASE spc' = spc
    BY <1>1, <1>5, <2>1 DEF BufferInv
  <2>2. CASE spc' = "read" /\ spc' # spc
    <3>1. Len(out) = 0
      BY <1>3, <2>2
    <3> QED BY <1>1, <1>5, <3>1, NothingTaken
  <2> QED BY <1>3, <2>1, <2>2
<1>7. BufferInv'
  <2>1. spc' = "done" => out' = FifoDelivers'
    BY <1>1, <1>3, <1>5 DEF BufferInv
  <2>2. Len(out') < Len(file') =>
           /\ Len(out') % SIZE = 0
           /\ buf'[2] = IF out' = <<>> THEN rest' ELSE file'[Len(out') - SIZE + 2]
    BY <1>1 DEF BufferInv
  <2> QED BY <1>6, <2>1, <2>2 DEF BufferInv
<1> QED BY <1>1, <1>3, <1>4, <1>7

(* Where the reader is in the file, and what of it is in its buffer, for all  *)
(* files and sizes of a chunk: the test for "quit" reads a byte of the chunk  *)
(* before.                                                                    *)
FifoBuffer == kind = "fifo" => BufferInv

LEMMA KindStays == Inv /\ [Next]_vars => kind' = kind
BY DEF Next, Client, Server, Queue, Fifo, Tokens, vars

LEMMA FifoBufferStep == Inv /\ FifoBuffer /\ [Next]_vars => FifoBuffer'
<1> SUFFICES ASSUME Inv, FifoBuffer, [Next]_vars, kind' = "fifo" PROVE BufferInv'
  BY DEF FifoBuffer
<1>1. kind = "fifo" /\ TransferInv /\ BufferInv
  BY KindStays DEF Inv, FifoBuffer
<1>2. CASE FifoWriter \/ FifoReader
  BY <1>1, <1>2, ReadOn, ReadQuit, ReadEnd, OtherFifoStep DEF FifoWriter, FifoReader
<1>3. CASE UNCHANGED vars
  <2>1. UNCHANGED <<file, rest, out, buf, spc>>
    BY <1>3 DEF vars, transferVars, chunkVars, fifoVars
  <2> QED BY <1>1, <2>1 DEF BufferInv, FifoDelivers, TakenForEnd
<1> QED BY <1>1, <1>2, <1>3 DEF Next, Client, Server, Queue, Fifo, Tokens

THEOREM FifoBufferInvariance == Spec => []FifoBuffer
<1>1. Init => FifoBuffer
  BY BufferStart DEF FifoBuffer
<1> QED BY <1>1, FifoBufferStep, Invariance, PTL DEF Spec

Outcome(c, s) == CASE s = "done"   -> "ended"
                   [] c = "failed" -> "failed"
                   [] OTHER        -> "copying"

LEMMA OutcomeIs ==
  ASSUME NEW c, NEW s
  PROVE  /\ s = "done" /\ c # "failed" => Outcome(c, s) = "ended"
         /\ s # "done" /\ c = "failed" => Outcome(c, s) = "failed"
         /\ s # "done" /\ c # "failed" => Outcome(c, s) = "copying"
BY DEF Outcome

LEMMA FifoStep ==
  ASSUME Inv, FifoBuffer, kind = "fifo", kind' = kind, FifoWriter \/ FifoReader
  PROVE  [Transfer!FTNext]_(Transfer!ftVars)
<1>1. TransferInv /\ BufferInv /\ ConnectInv
  BY DEF Inv, FifoBuffer, TransferInv, FifoInv
<1>2. ASSUME UNCHANGED <<file, rest>>
      PROVE  Delivered = FifoDelivers /\ Delivered' = Delivered
  BY <1>2 DEF Delivered, FifoDelivers, TakenForEnd
<1>3. CASE ReadChunk /\ ~SaysQuit
  <2>1. /\ Len(out') \in Len(out) + 1 .. Len(FifoDelivers)
        /\ out' = SubSeq(FifoDelivers, 1, Len(out'))
    BY <1>1, <1>3, ReadOn
  <2>2. UNCHANGED <<file, rest, cpc, spc>> /\ spc = "read"
    BY <1>3 DEF ReadChunk
  <2>3. cpc # "failed"
    BY <1>1, <2>2 DEF ConnectInv
  <2>4. Outcome(cpc, spc) = "copying" /\ Outcome(cpc', spc') = "copying"
    BY <2>2, <2>3, OutcomeIs
  <2> QED BY <1>2, <2>1, <2>2, <2>4 DEF Transfer!FTNext, Transfer!Receive, Outcome
<1>4. CASE (ReadChunk /\ SaysQuit) \/ ReadEof
  <2>1. /\ UNCHANGED <<file, rest, out, cpc>>
        /\ spc = "read" /\ spc' = "done" /\ out = FifoDelivers
    BY <1>1, <1>4, ReadQuit, ReadEnd
  <2>2. cpc # "failed"
    BY <1>1, <2>1 DEF ConnectInv
  <2>3. Outcome(cpc, spc) = "copying" /\ Outcome(cpc', spc') = "ended"
    BY <2>1, <2>2, OutcomeIs
  <2> QED BY <1>2, <2>1, <2>3 DEF Transfer!FTNext, Transfer!End, Outcome
<1>5. CASE WriterStart \/ ReaderStart \/ Connect \/ WriteChunk \/ WriterClose
  <2>1. /\ UNCHANGED <<file, rest, out>>
        /\ spc' = spc \/ (spc # "done" /\ spc' # "done")
        /\ cpc' = cpc \/ (cpc # "failed" /\ cpc' # "failed")
             \/ (cpc = "start" /\ cpc' = "failed" /\ spc # "done" /\ spc' = spc /\ out = <<>>)
    BY <1>1, <1>5, OtherFifoStep
  <2>2. cpc = "failed" => spc # "done"
    BY <1>1 DEF ConnectInv
  <2>3. CASE Outcome(cpc', spc') = Outcome(cpc, spc)
    BY <1>2, <2>1, <2>3 DEF Transfer!ftVars, Outcome
  <2>4. CASE Outcome(cpc', spc') # Outcome(cpc, spc)
    <3>1. out = <<>> /\ Outcome(cpc, spc) = "copying" /\ Outcome(cpc', spc') = "failed"
      BY <2>1, <2>4, <2>2, OutcomeIs
    <3> QED BY <1>2, <2>1, <3>1 DEF Transfer!FTNext, Transfer!Fail, Outcome
  <2> QED BY <2>3, <2>4
<1> QED BY <1>3, <1>4, <1>5 DEF FifoWriter, FifoReader
---------------------------------------------------------------------------
(* The messages of the queue, and what they make of the output.               *)

(* A set of numbers that is not empty has a least one. *)
LEMMA HasLeast ==
  ASSUME NEW S \in SUBSET Nat, S # {}
  PROVE  \E m \in S : \A n \in S : m <= n
<1>1. PICK m \in S : \A n \in S : <<n, m>> \notin OpToRel(<, Nat)
  BY WFMin, NatLessThanWellFounded
<1>2. ASSUME NEW n \in S PROVE ~(n < m)
  BY <1>1, Zenon DEF OpToRel
<1>3. \A n \in S : m <= n
  BY <1>2
<1> QED BY <1>3

(* The bytes of the first n messages, for any number of them. *)
LEMMA JoinedExist ==
  ASSUME NEW ms \in Seq(Seq(Byte))
  PROVE  \E g \in [0 .. Len(ms) -> Seq(Byte)] :
           g[0] = <<>> /\ \A k \in 1 .. Len(ms) : g[k] = g[k - 1] \o ms[k]
<1> DEFINE Good(g, n) == /\ g \in [0 .. n -> Seq(Byte)] /\ g[0] = <<>>
                         /\ \A k \in 1 .. n : g[k] = g[k - 1] \o ms[k]
           Bad == {n \in 0 .. Len(ms) : ~\E g : Good(g, n)}
<1>1. Len(ms) \in Nat
  OBVIOUS
<1> HIDE DEF Good
<1>2. Bad = {}
  <2>1. SUFFICES ASSUME Bad # {} PROVE FALSE
    OBVIOUS
  <2>2. PICK m \in Bad : \A n \in Bad : m <= n
    <3>1. Bad \in SUBSET Nat
      BY <1>1
    <3> HIDE DEF Bad
    <3> QED BY <2>1, <3>1, HasLeast
  <2>3. m \in 0 .. Len(ms) /\ m \in Nat
    BY <1>1
  <2>4. m # 0
    <3>1. Good([k \in 0 .. 0 |-> <<>>], 0)
      BY DEF Good
    <3> QED BY <2>2, <3>1
  <2>5. m - 1 \in 0 .. Len(ms) /\ m - 1 \notin Bad
    <3>1. m - 1 \in 0 .. Len(ms) /\ ~(m <= m - 1)
      BY <1>1, <2>3, <2>4
    <3> HIDE DEF Bad
    <3> QED BY <2>2, <3>1, Zenon
  <2>6. PICK g : Good(g, m - 1)
    BY <2>5
  <2> DEFINE h == [k \in 0 .. m |-> IF k = m THEN g[m - 1] \o ms[m] ELSE g[k]]
  <2>7. g[m - 1] \in Seq(Byte) /\ ms[m] \in Seq(Byte)
    BY <1>1, <2>3, <2>4, <2>6 DEF Good
  <2>8. g[m - 1] \o ms[m] \in Seq(Byte)
    BY <2>7, Concatenated
  <2>9. Good(h, m)
    <3>1. ASSUME NEW k \in 0 .. m PROVE h[k] \in Seq(Byte)
      BY <2>3, <2>6, <2>8 DEF Good
    <3>2. h \in [0 .. m -> Seq(Byte)]
      BY <3>1
    <3>3. h[0] = <<>>
      BY <2>3, <2>4, <2>6 DEF Good
    <3>4. ASSUME NEW k \in 1 .. m PROVE h[k] = h[k - 1] \o ms[k]
      <4>1. k - 1 \in 0 .. m /\ k - 1 # m /\ h[k - 1] = g[k - 1]
        BY <2>3
      <4>2. CASE k = m
        <5>1. h[m] = g[m - 1] \o ms[m]
          <6>1. m \in 0 .. m
            BY <2>3
          <6> QED BY <6>1, Zenon
        <5> QED BY <4>1, <4>2, <5>1, Zenon
      <4>3. CASE k # m
        <5>1. k \in 1 .. m - 1 /\ k \in 0 .. m
          BY <2>3, <4>3
        <5>2. h[k] = g[k] /\ g[k] = g[k - 1] \o ms[k]
          BY <2>6, <4>3, <5>1 DEF Good
        <5> QED BY <4>1, <5>2
      <4> QED BY <4>2, <4>3
    <3> HIDE DEF h
    <3> QED BY <3>2, <3>3, <3>4 DEF Good
  <2> QED BY <2>2, <2>9
<1>3. \E g : Good(g, Len(ms))
  BY <1>1, <1>2
<1> QED BY <1>3 DEF Good

LEMMA JoinedIs ==
  ASSUME NEW ms \in Seq(Seq(Byte))
  PROVE  /\ Joined(ms) \in [0 .. Len(ms) -> Seq(Byte)] /\ Joined(ms)[0] = <<>>
         /\ \A k \in 1 .. Len(ms) : Joined(ms)[k] = Joined(ms)[k - 1] \o ms[k]
<1> DEFINE Step(f) == [n \in 0 .. Len(ms) |-> IF n = 0 THEN <<>> ELSE f[n - 1] \o ms[n]]
           j == Joined(ms)
           Bad == {n \in 0 .. Len(ms) : j[n] \notin Seq(Byte)}
<1>1. Len(ms) \in Nat
  OBVIOUS
<1>2. \E g : g = Step(g)
  <2>1. PICK g \in [0 .. Len(ms) -> Seq(Byte)] :
          g[0] = <<>> /\ \A k \in 1 .. Len(ms) : g[k] = g[k - 1] \o ms[k]
    BY JoinedExist
  <2>2. ASSUME NEW n \in 0 .. Len(ms) PROVE g[n] = Step(g)[n]
    <3>1. Step(g)[n] = IF n = 0 THEN <<>> ELSE g[n - 1] \o ms[n]
      OBVIOUS
    <3>2. n # 0 => n \in 1 .. Len(ms)
      BY <1>1
    <3> HIDE DEF Step
    <3> QED BY <2>1, <3>1, <3>2, Zenon
  <2>3. g = [n \in 0 .. Len(ms) |-> g[n]]
    BY <2>1
  <2>4. g = Step(g)
    BY <2>2, <2>3
  <2> QED BY <2>4
<1>3. j = CHOOSE f : f = Step(f)
  BY DEF Joined
<1>4. j = Step(j)
  <2> HIDE DEF Step, j
  <2> QED BY <1>2, <1>3, Zenon
<1> HIDE DEF j
<1>5. j[0] = <<>> /\ \A k \in 1 .. Len(ms) : j[k] = j[k - 1] \o ms[k]
  <2>1. Step(j)[0] = <<>>
    BY <1>1
  <2>2. ASSUME NEW k \in 1 .. Len(ms) PROVE Step(j)[k] = j[k - 1] \o ms[k]
    <3>1. k \in 0 .. Len(ms) /\ k # 0
      BY <1>1
    <3>2. Step(j)[k] = IF k = 0 THEN <<>> ELSE j[k - 1] \o ms[k]
      BY <3>1
    <3> QED BY <3>1, <3>2, Zenon
  <2> HIDE DEF Step
  <2> QED BY <1>4, <2>1, <2>2, Zenon
<1>6. Bad = {}
  <2>1. SUFFICES ASSUME Bad # {} PROVE FALSE
    OBVIOUS
  <2>2. PICK m \in Bad : \A n \in Bad : m <= n
    <3>1. Bad \in SUBSET Nat
      BY <1>1
    <3> HIDE DEF Bad
    <3> QED BY <2>1, <3>1, HasLeast
  <2>3. m \in 0 .. Len(ms) /\ m # 0
    <3>1. <<>> \in Seq(Byte)
      OBVIOUS
    <3> QED BY <1>5, <2>2, <3>1
  <2>4. m - 1 \in 0 .. Len(ms) /\ m - 1 \notin Bad /\ m \in 1 .. Len(ms)
    BY <1>1, <2>2, <2>3
  <2>5. j[m - 1] \in Seq(Byte) /\ ms[m] \in Seq(Byte) /\ j[m] = j[m - 1] \o ms[m]
    <3>1. ms[m] \in Seq(Byte) /\ j[m - 1] \in Seq(Byte)
      BY <2>4
    <3> QED BY <1>5, <2>4, <3>1, Zenon
  <2>6. j[m] \in Seq(Byte)
    <3> DEFINE x == j[m - 1]  y == ms[m]
    <3>1. x \in Seq(Byte) /\ y \in Seq(Byte) /\ j[m] = x \o y
      BY <2>5
    <3> HIDE DEF x, y
    <3> QED BY <3>1, Concatenated
  <2> QED BY <2>6
<1>7. j \in [0 .. Len(ms) -> Seq(Byte)]
  BY <1>4, <1>6
<1> QED BY <1>5, <1>7 DEF j

LEMMA LongerPrefix ==
  ASSUME NEW s \in Seq(Byte), NEW t \in Seq(Byte), NEW u \in Seq(Byte),
         Len(s) <= Len(t), s = SubSeq(t, 1, Len(s))
  PROVE  Len(s) <= Len(t \o u) /\ s = SubSeq(t \o u, 1, Len(s))
<1>1. /\ t \o u \in Seq(Byte) /\ Len(t \o u) = Len(t) + Len(u) /\ Len(t) \in Nat
      /\ Len(u) \in Nat /\ Len(s) \in Nat
      /\ \A k \in 1 .. Len(t) : (t \o u)[k] = t[k]
  BY Concatenated
<1> DEFINE v == t \o u
           n == Len(s)
<1>2. v \in Seq(Byte) /\ n \in 0 .. Len(v) /\ n \in 0 .. Len(t)
  BY <1>1
<1>3. \A k \in 1 .. n : v[k] = t[k]
  BY <1>1, <1>2
<1> HIDE DEF v
<1>4. /\ SubSeq(v, 1, n) \in Seq(Byte) /\ Len(SubSeq(v, 1, n)) = n
      /\ \A k \in 1 .. n : SubSeq(v, 1, n)[k] = v[k]
  BY <1>2, Part
<1>5. \A k \in 1 .. n : s[k] = t[k]
  BY <1>2, Part
<1>6. SubSeq(v, 1, n) = s
  BY <1>3, <1>4, <1>5, SeqEqual
<1> QED BY <1>2, <1>6 DEF v

LEMMA JoinedPrefix ==
  ASSUME NEW ms \in Seq(Seq(Byte)), NEW a \in 0 .. Len(ms), NEW b \in a .. Len(ms)
  PROVE  /\ Len(Joined(ms)[a]) <= Len(Joined(ms)[b])
         /\ Joined(ms)[a] = SubSeq(Joined(ms)[b], 1, Len(Joined(ms)[a]))
<1> DEFINE j == Joined(ms)
           Is(n) == Len(j[a]) <= Len(j[n]) /\ j[a] = SubSeq(j[n], 1, Len(j[a]))
           Bad == {n \in a .. Len(ms) : ~Is(n)}
<1>1. /\ j \in [0 .. Len(ms) -> Seq(Byte)]
      /\ \A k \in 1 .. Len(ms) : j[k] = j[k - 1] \o ms[k]
      /\ Len(ms) \in Nat
  <2>1. Len(ms) \in Nat
    OBVIOUS
  <2> QED BY <2>1, JoinedIs, Zenon
<1> HIDE DEF j
<1>2. Bad = {}
  <2>1. SUFFICES ASSUME Bad # {} PROVE FALSE
    OBVIOUS
  <2>2. PICK m \in Bad : \A n \in Bad : m <= n
    <3>1. Bad \in SUBSET Nat
      BY <1>1
    <3> HIDE DEF Bad
    <3> QED BY <2>1, <3>1, HasLeast
  <2>3. j[a] \in Seq(Byte) /\ m \in a .. Len(ms)
    BY <1>1
  <2>4. m # a
    <3> DEFINE s == j[a]
    <3>1. s \in Seq(Byte)
      BY <2>3
    <3> HIDE DEF s
    <3>2. Len(s) <= Len(s) /\ s = SubSeq(s, 1, Len(s))
      BY <3>1, SubSeqFull
    <3>3. Is(a)
      BY <3>2 DEF s
    <3> QED BY <3>3
  <2>5. m - 1 \in a .. Len(ms) /\ m - 1 \notin Bad /\ m \in 1 .. Len(ms)
    BY <1>1, <2>2, <2>3, <2>4
  <2>6. Is(m - 1) /\ j[m - 1] \in Seq(Byte) /\ ms[m] \in Seq(Byte) /\ j[m] = j[m - 1] \o ms[m]
    <3>1. m - 1 \in 0 .. Len(ms)
      BY <1>1, <2>5
    <3>2. j[m - 1] \in Seq(Byte) /\ ms[m] \in Seq(Byte)
      <4>1. ms[m] \in Seq(Byte)
        BY <2>5
      <4>2. j[m - 1] \in Seq(Byte)
        BY <1>1, <3>1, Zenon
      <4> QED BY <4>1, <4>2
    <3>3. Is(m - 1)
      BY <2>5
    <3> HIDE DEF Is
    <3> QED BY <1>1, <2>5, <3>2, <3>3, Zenon
  <2> DEFINE s == j[a]
             t == j[m - 1]
             u == ms[m]
  <2>7. s \in Seq(Byte) /\ t \in Seq(Byte) /\ u \in Seq(Byte)
        /\ Len(s) <= Len(t) /\ s = SubSeq(t, 1, Len(s)) /\ j[m] = t \o u
    BY <2>3, <2>6
  <2> HIDE DEF s, t, u
  <2>8. Len(s) <= Len(t \o u) /\ s = SubSeq(t \o u, 1, Len(s))
    BY <2>7, LongerPrefix
  <2>9. Is(m)
    BY <2>7, <2>8 DEF s
  <2> QED BY <2>9
<1>3. Is(b)
  BY <1>2
<1> QED BY <1>3 DEF j

(* A queue that holds the messages r + 1 to p. *)
LEMMA SliceAppend ==
  ASSUME NEW ms \in Seq(Seq(Byte)), NEW p \in 0 .. Len(ms) - 1, NEW r \in 0 .. p
  PROVE  Append(SubSeq(ms, r + 1, p), ms[p + 1]) = SubSeq(ms, r + 1, p + 1)
OBVIOUS

LEMMA SliceTail ==
  ASSUME NEW ms \in Seq(Seq(Byte)), NEW p \in 0 .. Len(ms), NEW r \in 0 .. p,
         SubSeq(ms, r + 1, p) # <<>>
  PROVE  /\ r < p /\ Head(SubSeq(ms, r + 1, p)) = ms[r + 1]
         /\ Tail(SubSeq(ms, r + 1, p)) = SubSeq(ms, (r + 1) + 1, p)
<1>1. r < p
  OBVIOUS
<1>2. Head(SubSeq(ms, r + 1, p)) = ms[r + 1]
  BY <1>1
<1>3. Tail(SubSeq(ms, r + 1, p)) = SubSeq(ms, (r + 1) + 1, p)
  BY <1>1
<1> QED BY <1>1, <1>2, <1>3

LEMMA OneMore ==
  ASSUME NEW S, NEW s \in Seq(S), NEW x \in S
  PROVE  /\ s \o <<x>> \in Seq(S) /\ Len(s \o <<x>>) = Len(s) + 1
         /\ \A k \in 1 .. Len(s) : (s \o <<x>>)[k] = s[k]
         /\ (s \o <<x>>)[Len(s) + 1] = x
OBVIOUS

LEMMA OneAfterTwo ==
  ASSUME NEW S, NEW s \in Seq(S), NEW t \in Seq(S), NEW x \in S
  PROVE  /\ s \o t \o <<x>> \in Seq(S) /\ Len(s \o t \o <<x>>) = Len(s) + Len(t) + 1
         /\ Len(s) \in Nat /\ Len(t) \in Nat
         /\ \A k \in 1 .. Len(s) : (s \o t \o <<x>>)[k] = s[k]
         /\ \A k \in 1 .. Len(t) : (s \o t \o <<x>>)[Len(s) + k] = t[k]
         /\ (s \o t \o <<x>>)[Len(s) + Len(t) + 1] = x
<1> DEFINE st == s \o t
           u  == st \o <<x>>
<1>1. /\ st \in Seq(S) /\ Len(st) = Len(s) + Len(t)
      /\ Len(s) \in Nat /\ Len(t) \in Nat
      /\ \A k \in 1 .. Len(s) : st[k] = s[k]
      /\ \A k \in 1 .. Len(t) : st[Len(s) + k] = t[k]
  OBVIOUS
<1> HIDE DEF st
<1>2. /\ u \in Seq(S) /\ Len(u) = Len(st) + 1
      /\ \A k \in 1 .. Len(st) : u[k] = st[k]
      /\ u[Len(st) + 1] = x
  BY <1>1, OneMore
<1> HIDE DEF u
<1>3. ASSUME NEW k \in 1 .. Len(s) PROVE u[k] = s[k]
  <2>1. k \in 1 .. Len(st)
    BY <1>1
  <2> QED BY <1>1, <1>2, <2>1
<1>4. ASSUME NEW k \in 1 .. Len(t) PROVE u[Len(s) + k] = t[k]
  <2>1. Len(s) + k \in 1 .. Len(st)
    BY <1>1
  <2> QED BY <1>1, <1>2, <2>1
<1>5. /\ u \in Seq(S) /\ Len(u) = Len(s) + Len(t) + 1 /\ u[Len(s) + Len(t) + 1] = x
  BY <1>1, <1>2
<1> QED BY <1>1, <1>3, <1>4, <1>5 DEF st, u

LEMMA ChunksAre ==
  ASSUME TransferTypeOK
  PROVE  /\ Len(Chunks(file)) = (Len(file) + SIZE - 1) \div SIZE /\ Len(Chunks(file)) \in Nat
         /\ \A n \in 1 .. Len(Chunks(file)) : Append(Chunks(file)[n], spare[n]) \in Seq(Byte)
<1> DEFINE n0 == (Len(file) + SIZE - 1) \div SIZE
           m0 == (MaxLength + SIZE - 1) \div SIZE
<1>1. /\ file \in Seq(Byte) /\ Len(file) \in Nat /\ Len(file) <= MaxLength
      /\ SIZE \in Nat /\ SIZE >= 2 /\ MaxLength \in Nat /\ spare \in [1 .. m0 -> Byte]
  BY FileIs, ChunkAssumption DEF TransferTypeOK, Spares
<1>2. n0 \in Nat /\ m0 \in Nat /\ n0 <= m0
  BY <1>1
<1>3. DOMAIN Chunks(file) = 1 .. n0
  BY DEF Chunks
<1>4. \A n \in 1 .. n0 :
        Chunks(file)[n] = SubSeq(file, (n - 1) * SIZE + 1,
                                 IF n * SIZE <= Len(file) THEN n * SIZE ELSE Len(file))
  BY DEF Chunks
<1> HIDE DEF n0, m0
<1>5. ASSUME NEW n \in 1 .. n0 PROVE Append(Chunks(file)[n], spare[n]) \in Seq(Byte)
  <2> DEFINE a == (n - 1) * SIZE + 1
             b == IF n * SIZE <= Len(file) THEN n * SIZE ELSE Len(file)
             c == SubSeq(file, a, b)
  <2>1. a \in Nat /\ a >= 1 /\ b \in Nat /\ b <= Len(file)
    <3>1. n - 1 \in Nat /\ n \in Nat
      BY <1>2
    <3>2. (n - 1) * SIZE \in Nat /\ n * SIZE \in Nat
      BY <1>1, <3>1
    <3> QED BY <1>1, <3>2
  <2> HIDE DEF a, b
  <2>2. c \in Seq(Byte)
    BY <1>1, <2>1
  <2>3. spare[n] \in Byte
    BY <1>1, <1>2
  <2>4. Chunks(file)[n] = c
    BY <1>4 DEF a, b
  <2> HIDE DEF c
  <2> QED BY <2>2, <2>3, <2>4
<1>6. Len(Chunks(file)) = n0
  <2>1. Chunks(file) = [n \in 1 .. n0 |-> Chunks(file)[n]]
    BY DEF Chunks, n0
  <2> DEFINE c == Chunks(file)
  <2>2. c = [n \in 1 .. n0 |-> c[n]]
    BY <2>1
  <2> HIDE DEF c
  <2>3. Len(c) = n0
    BY <1>2, <2>2
  <2> QED BY <2>3 DEF c
<1> QED BY <1>2, <1>5, <1>6 DEF n0

LEMMA MessagesAre ==
  ASSUME TransferTypeOK, old \in Seq(Seq(Byte))
  PROVE  /\ Messages \in Seq(Seq(Byte))
         /\ Len(old) \in Nat /\ Len(Chunks(file)) \in Nat
         /\ Len(Messages) = Len(old) + Len(Chunks(file)) + 1
         /\ \A k \in 1 .. Len(old) : Messages[k] = old[k]
         /\ \A n \in 1 .. Len(Chunks(file)) :
               Messages[Len(old) + n] = Append(Chunks(file)[n], spare[n])
         /\ Messages[Len(Messages)] = Quit
<1> DEFINE c == [n \in 1 .. Len(Chunks(file)) |-> Append(Chunks(file)[n], spare[n])]
           q == Quit
<1>1. Len(Chunks(file)) \in Nat /\ c \in [1 .. Len(Chunks(file)) -> Seq(Byte)]
  BY ChunksAre
<1>2. q \in Seq(Byte)
  BY DEF Quit, Byte
<1>3. Messages = old \o c \o <<q>>
  BY DEF Messages
<1>4. \A n \in 1 .. Len(Chunks(file)) : c[n] = Append(Chunks(file)[n], spare[n])
  OBVIOUS
<1> HIDE DEF c, q
<1>5. c \in Seq(Seq(Byte)) /\ Len(c) = Len(Chunks(file))
  BY <1>1
<1> HIDE DEF Messages
<1> DEFINE S == Seq(Byte)
<1>6. c \in Seq(S) /\ old \in Seq(S) /\ q \in S
  BY <1>2, <1>5
<1> HIDE DEF S
<1>7. /\ old \o c \o <<q>> \in Seq(S) /\ Len(old \o c \o <<q>>) = Len(old) + Len(c) + 1
      /\ Len(old) \in Nat /\ Len(c) \in Nat
      /\ \A k \in 1 .. Len(old) : (old \o c \o <<q>>)[k] = old[k]
      /\ \A k \in 1 .. Len(c) : (old \o c \o <<q>>)[Len(old) + k] = c[k]
      /\ (old \o c \o <<q>>)[Len(old) + Len(c) + 1] = q
  BY <1>6, OneAfterTwo
<1> DEFINE m == Messages
<1>8. /\ m \in Seq(S) /\ Len(m) = Len(old) + Len(c) + 1
      /\ \A k \in 1 .. Len(old) : m[k] = old[k]
      /\ \A k \in 1 .. Len(c) : m[Len(old) + k] = c[k]
      /\ m[Len(m)] = q
  BY <1>3, <1>7
<1> HIDE DEF m
<1>9. \A n \in 1 .. Len(Chunks(file)) : m[Len(old) + n] = Append(Chunks(file)[n], spare[n])
  BY <1>4, <1>5, <1>8
<1> QED BY <1>1, <1>5, <1>7, <1>8, <1>9 DEF m, q, S

(* The first message that ends the server is there, the client's at the latest. *)
LEMMA QuitAtIs ==
  ASSUME TransferTypeOK, old \in Seq(Seq(Byte))
  PROVE  /\ QuitAt \in 1 .. Len(Messages) /\ Ends(Messages[QuitAt])
         /\ \A k \in 1 .. QuitAt - 1 : ~Ends(Messages[k])
<1> DEFINE E == {n \in 1 .. Len(Messages) : Ends(Messages[n])}
           First(n) == Ends(Messages[n]) /\ \A k \in 1 .. n - 1 : ~Ends(Messages[k])
<1>1. Len(Messages) \in Nat /\ Len(Messages) >= 1 /\ Ends(Messages[Len(Messages)])
  BY MessagesAre DEF Ends, Quit
<1>2. E \in SUBSET Nat /\ E # {}
  <2>1. Len(Messages) \in E
    BY <1>1
  <2>2. \A n \in E : n \in Nat
    BY <1>1
  <2> QED BY <2>1, <2>2, Zenon
<1>3. PICK m \in E : \A n \in E : m <= n
  <2> HIDE DEF E
  <2> QED BY <1>2, HasLeast
<1>4. m \in 1 .. Len(Messages) /\ First(m)
  <2>1. ASSUME NEW k \in 1 .. m - 1 PROVE ~Ends(Messages[k])
    <3>1. k \in 1 .. Len(Messages) /\ ~(m <= k)
      BY <1>1, <1>3
    <3> QED BY <1>3, <3>1
  <2> QED BY <1>3, <2>1
<1>5. QuitAt = CHOOSE n \in 1 .. Len(Messages) : First(n)
  BY DEF QuitAt
<1> HIDE DEF First
<1>6. QuitAt \in 1 .. Len(Messages) /\ First(QuitAt)
  BY <1>4, <1>5, Zenon
<1> QED BY <1>6 DEF First

(* What one more chunk makes of the number of messages handed over. *)
LEMMA NthStep ==
  ASSUME TransferTypeOK, PosInv, ~AtEof, file' = file, pos' = pos + Len(Read)
  PROVE  /\ Nth \in 1 .. Len(Chunks(file)) /\ pos \div SIZE = Nth - 1
         /\ AtEof' => Nth = Len(Chunks(file))
         /\ ~AtEof' => pos' \div SIZE = Nth
<1>1. /\ Len(file) \in Nat /\ pos \in Nat /\ pos < Len(file)
      /\ SIZE \in Nat /\ SIZE >= 2
  BY FileIs, ChunkAssumption DEF TransferTypeOK, AtEof
<1>2. /\ Nth \in DOMAIN Chunks(file) /\ pos' = Here
      /\ DOMAIN Chunks(file) = 1 .. Len(Chunks(file)) /\ Len(Chunks(file)) \in Nat
      /\ Len(Chunks(file)) = (Len(file) + SIZE - 1) \div SIZE
  BY ReadIs, PosStep, ChunksAre
<1>3. PICK q \in Nat : pos = q * SIZE
  BY DEF PosInv, Whole
<1>4. pos \div SIZE = q /\ Nth = q + 1
  BY <1>1, <1>3, DivideWhole DEF Nth
<1>5. (q + 1) * SIZE = pos + SIZE
  BY <1>1, <1>3
<1>6. ASSUME AtEof' PROVE Nth = Len(Chunks(file))
  <2> DEFINE i == Len(file) - pos - 1
  <2>1. Len(file) <= pos + SIZE
    BY <1>1, <1>2, <1>6 DEF AtEof, Here
  <2>2. i \in 0 .. SIZE - 1 /\ Len(file) + SIZE - 1 = (q + 1) * SIZE + i
    BY <1>1, <1>5, <2>1
  <2> HIDE DEF i
  <2>3. ((q + 1) * SIZE + i) \div SIZE = q + 1
    BY <2>2, DivideWhole
  <2> QED BY <1>2, <1>4, <2>2, <2>3
<1>7. ASSUME ~AtEof' PROVE pos' \div SIZE = Nth
  <2>1. pos' = pos + SIZE
    BY <1>1, <1>2, <1>7 DEF AtEof, Here
  <2>2. pos' = (q + 1) * SIZE + 0 /\ 0 \in 0 .. SIZE - 1 /\ q + 1 \in Nat
    BY <1>1, <1>5, <2>1
  <2> QED BY <1>4, <2>2, DivideWhole
<1> QED BY <1>2, <1>4, <1>6, <1>7

(* In a step of the two programs the messages of the run stay what they are.  *)
LEMMA SameMessages ==
  ASSUME UNCHANGED <<file, spare, old>>
  PROVE  /\ UNCHANGED <<Messages, QuitAt, QueueDelivers>> /\ Chunks(file)' = Chunks(file)
         /\ \A n : Messages'[n] = Messages[n]
         /\ \A n : Joined(Messages)'[n] = Joined(Messages)[n]
BY DEF Messages, QuitAt, QueueDelivers, Chunks

LEMMA HandedIs ==
  ASSUME TransferTypeOK, PosInv, old \in Seq(Seq(Byte))
  PROVE  /\ cpc = "done" => Handed = Len(Messages)
         /\ cpc # "done" /\ AtEof => Handed = Len(Messages) - 1
         /\ cpc # "done" /\ ~AtEof => /\ Handed = Len(old) + (Nth - 1)
                                      /\ Nth \in 1 .. Len(Chunks(file))
         /\ Handed \in 0 .. Len(Messages)
<1>1. /\ Len(old) \in Nat /\ Len(Chunks(file)) \in Nat
      /\ Len(Messages) = Len(old) + Len(Chunks(file)) + 1
  BY MessagesAre
<1>2. CASE cpc = "done"
  BY <1>1, <1>2 DEF Handed
<1>3. CASE cpc # "done" /\ AtEof
  BY <1>1, <1>3 DEF Handed
<1>4. CASE cpc # "done" /\ ~AtEof
  <2>1. Handed = Len(old) + pos \div SIZE
    BY <1>4 DEF Handed
  <2>2. Nth - 1 = pos \div SIZE /\ Nth \in 1 .. Len(Chunks(file))
    <3>1. /\ Nth \in DOMAIN Chunks(file)
          /\ DOMAIN Chunks(file) = 1 .. Len(Chunks(file))
      BY <1>4, ReadIs, ChunksAre
    <3>2. pos \div SIZE \in Int
      BY ChunkAssumption DEF TransferTypeOK
    <3> QED BY <3>1, <3>2 DEF Nth
  <2> QED BY <1>1, <1>4, <2>1, <2>2
<1> QED BY <1>2, <1>3, <1>4

LEMMA TakenNext ==
  ASSUME UNCHANGED <<file, spare, old>>, NEW h, Handed' = h, NEW r
  PROVE  Taken(r)' <=>
           /\ r <= h
           /\ queue' = NoQueue => h = 0 /\ spc' = "start" /\ cpc' \in {"start", "failed"}
           /\ queue' # NoQueue => queue' = SubSeq(Messages, r + 1, h)
           /\ spc' = "done" => r = QuitAt /\ out' = QueueDelivers
           /\ spc' # "done" => /\ out' = Joined(Messages)[r]
                               /\ \A k \in 1 .. r : ~Ends(Messages[k])
BY SameMessages DEF Taken, Ends

LEMMA SliceIs ==
  ASSUME NEW ms \in Seq(Seq(Byte)), NEW p \in 0 .. Len(ms), NEW r \in 0 .. p
  PROVE  SubSeq(ms, r + 1, p) \in Seq(Seq(Byte)) /\ SubSeq(ms, r + 1, p) # NoQueue
<1> DEFINE S == Seq(Byte)
<1>1. ms \in Seq(S)
  OBVIOUS
<1> HIDE DEF S
<1>2. SubSeq(ms, r + 1, p) \in Seq(S)
  BY <1>1
<1> QED BY <1>2, QueueAssumption DEF S

LEMMA SendMessage ==
  ASSUME TransferInv, kind = "mq", MessageInv, ClientSend
  PROVE  MessageInv'
<1>1. /\ TransferTypeOK /\ PosInv /\ old \in Seq(Seq(Byte))
      /\ cpc = "send" /\ ~AtEof /\ UNCHANGED <<file, cpc, spc, out, spare, old>>
      /\ queue' = Append(queue, Append(Read, spare[Nth])) /\ pos' = pos + Len(Read)
  BY DEF TransferInv, MessageInv, ClientSend
<1>2. PICK r \in 0 .. Len(Messages) : Taken(r)
  BY DEF MessageInv
<1>3. /\ Messages \in Seq(Seq(Byte)) /\ Len(Messages) \in Nat /\ Len(old) \in Nat
      /\ Len(Messages) = Len(old) + Len(Chunks(file)) + 1 /\ Len(Chunks(file)) \in Nat
      /\ Handed = Len(old) + (Nth - 1) /\ Nth \in 1 .. Len(Chunks(file))
      /\ Messages[Len(old) + Nth] = Append(Read, spare[Nth])
  <2>1. Handed = Len(old) + (Nth - 1) /\ Nth \in 1 .. Len(Chunks(file))
    BY <1>1, HandedIs
  <2>2. Messages[Len(old) + Nth] = Append(Chunks(file)[Nth], spare[Nth])
    BY <1>1, <2>1, MessagesAre
  <2> QED BY <1>1, <2>1, <2>2, MessagesAre DEF Read
<1>4. Handed \in 0 .. Len(Messages) - 1 /\ Len(old) + Nth = Handed + 1 /\ r \in 0 .. Handed
  <2>1. r <= Handed
    BY <1>2 DEF Taken
  <2>2. /\ Len(Messages) \in Nat /\ Len(old) \in Nat /\ Len(Chunks(file)) \in Nat
        /\ Len(Messages) = Len(old) + Len(Chunks(file)) + 1
        /\ Handed = Len(old) + (Nth - 1) /\ Nth \in 1 .. Len(Chunks(file))
    BY <1>3, Zenon
  <2>3. Handed \in 0 .. Len(Messages) - 1 /\ Len(old) + Nth = Handed + 1
    BY <2>2
  <2>4. r \in Nat
    BY <1>2, <2>2
  <2> QED BY <2>1, <2>3, <2>4
<1>5. Handed' = Handed + 1
  <2>1. Handed' = Len(old) + CASE AtEof'  -> Len(Chunks(file))
                               [] OTHER -> pos' \div SIZE
    BY <1>1, SameMessages DEF Handed
  <2>2. (AtEof' => Nth = Len(Chunks(file))) /\ (~AtEof' => pos' \div SIZE = Nth)
    BY <1>1, NthStep
  <2>3. Handed' = Len(old) + Nth
    BY <2>1, <2>2
  <2> QED BY <1>4, <2>3
<1>6. queue = SubSeq(Messages, r + 1, Handed) /\ queue # NoQueue
  <2>1. queue # NoQueue
    BY <1>1, <1>2 DEF Taken
  <2> QED BY <1>2, <2>1 DEF Taken
<1>7. queue' = SubSeq(Messages, r + 1, Handed + 1)
  BY <1>1, <1>3, <1>4, <1>6, SliceAppend
<1>8. queue' # NoQueue
  <2>1. Handed + 1 \in 0 .. Len(Messages) /\ r \in 0 .. Handed + 1
    <3>1. Len(Messages) \in Nat
      BY <1>3, Zenon
    <3> QED BY <1>4, <3>1
  <2> QED BY <1>3, <1>7, <2>1, SliceIs
<1>9. Taken(r)'
  <2>1. /\ r <= Handed + 1
        /\ spc' = "done" => r = QuitAt /\ out' = QueueDelivers
        /\ spc' # "done" => out' = Joined(Messages)[r] /\ \A k \in 1 .. r : ~Ends(Messages[k])
    <3>1. r <= Handed + 1
      BY <1>4
    <3> QED BY <1>1, <1>2, <3>1 DEF Taken
  <2> QED BY <1>1, <1>5, <1>7, <1>8, <2>1, TakenNext
<1>10. Len(Messages)' = Len(Messages)
  BY <1>1, SameMessages
<1> QED BY <1>1, <1>2, <1>9, <1>10 DEF MessageInv

LEMMA SendQuit ==
  ASSUME TransferInv, kind = "mq", MessageInv, ClientQuit
  PROVE  MessageInv'
<1>1. /\ TransferTypeOK /\ PosInv /\ old \in Seq(Seq(Byte))
      /\ cpc = "send" /\ cpc' = "done" /\ AtEof
      /\ UNCHANGED <<file, pos, spc, out, spare, old>> /\ queue' = Append(queue, Quit)
  BY DEF TransferInv, MessageInv, ClientQuit
<1>2. PICK r \in 0 .. Len(Messages) : Taken(r)
  BY DEF MessageInv
<1>3. /\ Messages \in Seq(Seq(Byte)) /\ Len(Messages) \in Nat
      /\ Len(Messages) = Len(old) + Len(Chunks(file)) + 1
      /\ Len(old) \in Nat /\ Len(Chunks(file)) \in Nat
      /\ Messages[Len(Messages)] = Quit /\ Handed = Len(Messages) - 1
  BY <1>1, MessagesAre, HandedIs
<1>4. Handed \in 0 .. Len(Messages) - 1 /\ r \in 0 .. Handed /\ Len(Messages) = Handed + 1
  <2>1. r <= Handed
    BY <1>2 DEF Taken
  <2> QED BY <1>2, <1>3, <2>1
<1>5. Handed' = Handed + 1
  <2>1. Handed' = Len(old) + (Len(Chunks(file)) + 1)
    BY <1>1, SameMessages DEF Handed
  <2> QED BY <1>3, <2>1
<1>6. queue # NoQueue /\ queue = SubSeq(Messages, r + 1, Handed)
  <2>1. queue # NoQueue
    BY <1>1, <1>2 DEF Taken
  <2> QED BY <1>2, <2>1 DEF Taken
<1>7. queue' = SubSeq(Messages, r + 1, Handed + 1)
  BY <1>1, <1>3, <1>4, <1>6, SliceAppend
<1>8. queue' # NoQueue
  <2>1. Handed + 1 \in 0 .. Len(Messages) /\ r \in 0 .. Handed + 1
    <3>1. Len(Messages) \in Nat
      BY <1>3, Zenon
    <3> QED BY <1>4, <3>1
  <2> QED BY <1>3, <1>7, <2>1, SliceIs
<1>9. Taken(r)'
  <2>1. r <= Handed + 1
    BY <1>4
  <2>2. /\ spc' = "done" => r = QuitAt /\ out' = QueueDelivers
        /\ spc' # "done" => out' = Joined(Messages)[r] /\ \A k \in 1 .. r : ~Ends(Messages[k])
    BY <1>1, <1>2 DEF Taken
  <2> QED BY <1>1, <1>5, <1>7, <1>8, <2>1, <2>2, TakenNext
<1>10. Len(Messages)' = Len(Messages)
  BY <1>1, SameMessages
<1> QED BY <1>1, <1>2, <1>9, <1>10 DEF MessageInv

(* The steps that hand nothing over. *)
LEMMA SameHanded ==
  ASSUME UNCHANGED <<file, pos, spare, old>>, cpc' = "done" <=> cpc = "done"
  PROVE  Handed' = Handed
BY SameMessages DEF Handed, AtEof

LEMMA OpenQueue ==
  ASSUME TransferInv, kind = "mq", MessageInv, ClientOpen \/ ServerOpen
  PROVE  MessageInv'
<1>1. /\ TransferTypeOK /\ PosInv /\ old \in Seq(Seq(Byte))
      /\ UNCHANGED <<file, pos, out, spare, old>>
  BY DEF TransferInv, MessageInv, ClientOpen, ServerOpen, queueVars
<1>2. PICK r \in 0 .. Len(Messages) : Taken(r)
  BY DEF MessageInv
<1>3. Messages \in Seq(Seq(Byte)) /\ Len(Messages) \in Nat /\ Handed \in 0 .. Len(Messages)
  BY <1>1, MessagesAre, HandedIs
<1>4. r <= Handed /\ (queue = NoQueue => Handed = 0 /\ r = 0)
  <2>1. r <= Handed /\ (queue = NoQueue => Handed = 0)
    BY <1>2 DEF Taken
  <2> QED BY <1>2, <1>3, <2>1
<1>5. CASE ClientOpen
  <2>1. /\ cpc = "start" /\ cpc' = IF queue = NoQueue THEN "failed" ELSE "send"
        /\ UNCHANGED <<spc, queue>>
    BY <1>5 DEF ClientOpen, queueVars
  <2>2. Handed' = Handed
    BY <1>1, <2>1, SameHanded
  <2>3. Taken(r)'
    <3>1. /\ queue' = NoQueue => Handed = 0 /\ spc' = "start" /\ cpc' \in {"start", "failed"}
          /\ queue' # NoQueue => queue' = SubSeq(Messages, r + 1, Handed)
      BY <1>2, <2>1 DEF Taken
    <3>2. /\ spc' = "done" => r = QuitAt /\ out' = QueueDelivers
          /\ spc' # "done" => out' = Joined(Messages)[r] /\ \A k \in 1 .. r : ~Ends(Messages[k])
      BY <1>1, <1>2, <2>1 DEF Taken
    <3> QED BY <1>1, <1>4, <2>2, <3>1, <3>2, TakenNext
  <2>4. cpc' = "failed" => old' = <<>> /\ spc' # "done"
    <3>1. SUFFICES ASSUME queue = NoQueue PROVE old = <<>> /\ spc = "start"
      BY <1>1, <2>1
    <3>2. spc = "start"
      BY <1>2, <3>1 DEF Taken
    <3>3. Handed = 0 /\ Len(Messages) = Len(old) + Len(Chunks(file)) + 1
          /\ Len(old) \in Nat /\ Len(Chunks(file)) \in Nat
      BY <1>1, <1>4, <3>1, MessagesAre
    <3>4. Handed >= Len(old)
      BY <1>1, <2>1, <3>3, HandedIs
    <3>5. Len(old) = 0
      BY <3>3, <3>4
    <3> QED BY <1>1, <3>2, <3>5
  <2>5. Len(Messages)' = Len(Messages)
    BY <1>1, SameMessages
  <2>6. pos' = 0 \/ cpc' \notin {"start", "failed"}
    BY <1>1, <2>1 DEF MessageInv
  <2> QED BY <1>1, <1>2, <2>3, <2>4, <2>5, <2>6 DEF MessageInv
<1>6. CASE ServerOpen
  <2>1. /\ spc = "start" /\ spc' = "receive" /\ cpc' = cpc
        /\ queue' = IF queue = NoQueue THEN <<>> ELSE queue
    BY <1>6 DEF ServerOpen
  <2>2. Handed' = Handed
    BY <1>1, <2>1, SameHanded
  <2>3. queue' # NoQueue /\ queue' = SubSeq(Messages, r + 1, Handed)
    <3>1. CASE queue # NoQueue
      BY <1>2, <2>1, <3>1 DEF Taken
    <3>2. CASE queue = NoQueue
      <4>1. SubSeq(Messages, 0 + 1, 0) = <<>>
        OBVIOUS
      <4>2. <<>> # NoQueue
        <5>1. <<>> \in Seq(Seq(Byte))
          OBVIOUS
        <5> QED BY <5>1, QueueAssumption
      <4> QED BY <1>4, <2>1, <3>2, <4>1, <4>2
    <3> QED BY <3>1, <3>2
  <2>4. Taken(r)'
    <3>1. spc' # "done" => out' = Joined(Messages)[r] /\ \A k \in 1 .. r : ~Ends(Messages[k])
      BY <1>1, <1>2, <2>1 DEF Taken
    <3> QED BY <1>1, <1>4, <2>1, <2>2, <2>3, <3>1, TakenNext
  <2>5. Len(Messages)' = Len(Messages)
    BY <1>1, SameMessages
  <2> QED BY <1>1, <1>2, <2>1, <2>4, <2>5 DEF MessageInv
<1> QED BY <1>5, <1>6

(* A run begins: nothing is handed over but what the last run has left. *)
FreshRun ==
  /\ pos = 0 /\ cpc = "start" /\ spc = "start" /\ out = <<>>
  /\ old \in Seq(Seq(Byte))
  /\ IF queue = NoQueue THEN old = <<>> ELSE queue = old

LEMMA NothingRead ==
  ASSUME TransferTypeOK, pos = 0, cpc # "done", old \in Seq(Seq(Byte))
  PROVE  Handed = Len(old)
<1>1. 0 \in Nat /\ 0 \in 0 .. SIZE - 1 /\ 0 * SIZE + 0 = 0 /\ 0 * SIZE + (SIZE - 1) = SIZE - 1
      /\ SIZE - 1 \in 0 .. SIZE - 1
  BY ChunkAssumption
<1>2. pos \div SIZE = 0
  BY <1>1, DivideWhole
<1>3. AtEof => Len(Chunks(file)) = 0
  <2>1. AtEof => Len(file) + SIZE - 1 = 0 * SIZE + (SIZE - 1)
    BY <1>1, ChunkAssumption DEF AtEof
  <2> QED BY <1>1, <2>1, ChunksAre, DivideWhole
<1>4. Len(old) \in Nat
  BY MessagesAre
<1> QED BY <1>2, <1>3, <1>4 DEF Handed

LEMMA FreshRunIs == TransferInv /\ FreshRun => MessageInv
<1> SUFFICES ASSUME TransferInv, FreshRun PROVE MessageInv
  OBVIOUS
<1>1. /\ TransferTypeOK /\ PosInv /\ old \in Seq(Seq(Byte))
      /\ pos = 0 /\ cpc = "start" /\ spc = "start" /\ out = <<>>
      /\ IF queue = NoQueue THEN old = <<>> ELSE queue = old
  BY DEF TransferInv, FreshRun
<1>2. /\ Messages \in Seq(Seq(Byte)) /\ Len(Messages) \in Nat /\ Len(old) \in 0 .. Len(Messages)
      /\ \A k \in 1 .. Len(old) : Messages[k] = old[k]
  BY <1>1, MessagesAre
<1>3. Handed = Len(old)
  BY <1>1, NothingRead
<1>4. old = SubSeq(Messages, 0 + 1, Len(old))
  <2> DEFINE S == Seq(Byte)
             m == Messages
             o == old
  <2>1. m \in Seq(S) /\ o \in Seq(S) /\ Len(o) \in 0 .. Len(m)
        /\ \A k \in 1 .. Len(o) : m[k] = o[k]
    BY <1>1, <1>2
  <2> HIDE DEF S, m, o
  <2>2. /\ SubSeq(m, 1, Len(o)) \in Seq(S) /\ Len(SubSeq(m, 1, Len(o))) = Len(o)
        /\ \A k \in 1 .. Len(o) : SubSeq(m, 1, Len(o))[k] = m[k]
    BY <2>1
  <2>3. SubSeq(m, 1, Len(o)) = o
    BY <2>1, <2>2, SeqEqual
  <2> QED BY <2>3 DEF m, o
<1>5. Joined(Messages)[0] = <<>>
  BY <1>2, JoinedIs
<1>6. Taken(0)
  <2>1. queue = NoQueue => Handed = 0
    BY <1>1, <1>3
  <2>2. queue # NoQueue => queue = SubSeq(Messages, 0 + 1, Handed)
    BY <1>1, <1>3, <1>4
  <2>3. 0 <= Handed
    BY <1>2, <1>3
  <2> QED BY <1>1, <1>5, <2>1, <2>2, <2>3 DEF Taken
<1> QED BY <1>1, <1>2, <1>6 DEF MessageInv

LEMMA MessageStart == Init => MessageInv
<1>1. Init => FreshRun
  BY DEF Init, ChunkInit, QueueInit, FreshRun
<1> QED BY <1>1, InitTransfer, FreshRunIs

LEMMA NextRunMessages == Inv /\ kind = "mq" /\ NextRun /\ TransferInv' => MessageInv'
<1>1. Inv /\ kind = "mq" /\ NextRun => FreshRun'
  <2> SUFFICES ASSUME Inv, kind = "mq", NextRun PROVE FreshRun'
    OBVIOUS
  <2>1. /\ pos' = 0 /\ cpc' = "start" /\ spc' = "start" /\ out' = <<>>
        /\ spc = "done" /\ old' = queue /\ queue' = queue
    BY DEF NextRun
  <2>2. queue \in Seq(Seq(Byte)) /\ queue # NoQueue
    BY <2>1, QueueAssumption DEF Inv, TransferInv, QueueInv, IsQueue
  <2> QED BY <2>1, <2>2 DEF FreshRun
<1>2. TransferInv' /\ FreshRun' => MessageInv'
  BY FreshRunIs, PTL
<1> QED BY <1>1, <1>2

(* The server takes the first message of the queue: the next of the run. *)
LEMMA ReceiveMessage ==
  ASSUME TransferInv, kind = "mq", MessageInv, ServerReceive
  PROVE  /\ MessageInv' /\ cpc # "failed"
         /\ spc' = "done" => out' = out /\ out = QueueDelivers
         /\ spc' # "done" => /\ spc' = spc /\ out' \in Seq(Byte)
                             /\ Len(out) <= Len(out') /\ out = SubSeq(out', 1, Len(out))
                             /\ Len(out') <= Len(QueueDelivers)
                             /\ out' = SubSeq(QueueDelivers, 1, Len(out'))
<1>1. /\ TransferTypeOK /\ PosInv /\ old \in Seq(Seq(Byte))
      /\ spc = "receive" /\ queue # <<>> /\ queue' = Tail(queue)
      /\ UNCHANGED <<file, pos, cpc, spare, old>>
      /\ IF IsQuit(Head(queue)) THEN spc' = "done" /\ out' = out
         ELSE spc' = spc /\ out' = out \o Head(queue)
  BY DEF TransferInv, MessageInv, ServerReceive
<1>2. PICK r \in 0 .. Len(Messages) : Taken(r)
  BY DEF MessageInv
<1>3. Messages \in Seq(Seq(Byte)) /\ Len(Messages) \in Nat /\ Handed \in 0 .. Len(Messages)
  BY <1>1, MessagesAre, HandedIs
<1>4. queue # NoQueue /\ queue = SubSeq(Messages, r + 1, Handed) /\ r \in 0 .. Handed
  <2>1. queue # NoQueue
    BY <1>1, <1>2 DEF Taken
  <2>2. queue = SubSeq(Messages, r + 1, Handed) /\ r <= Handed
    BY <1>2, <2>1 DEF Taken
  <2> QED BY <1>2, <1>3, <2>1, <2>2
<1>5. /\ r < Handed /\ Head(queue) = Messages[r + 1]
      /\ queue' = SubSeq(Messages, (r + 1) + 1, Handed)
  BY <1>1, <1>3, <1>4, SliceTail
<1>6. r + 1 \in 1 .. Len(Messages) /\ r + 1 \in 0 .. Handed /\ r + 1 <= Handed
  BY <1>3, <1>4, <1>5
<1>7. IsQuit(Head(queue)) <=> Ends(Messages[r + 1])
  BY <1>5 DEF IsQuit, Ends
<1>8. out = Joined(Messages)[r] /\ \A k \in 1 .. r : ~Ends(Messages[k])
  BY <1>1, <1>2 DEF Taken
<1>9. Handed' = Handed
  BY <1>1, SameHanded
<1>10. queue' # NoQueue
  BY <1>3, <1>5, <1>6, SliceIs
<1>11. cpc # "failed"
  <2>1. SUFFICES ASSUME cpc = "failed" PROVE FALSE
    OBVIOUS
  <2>2. pos = 0 /\ old = <<>>
    BY <2>1 DEF MessageInv
  <2>3. Handed = 0
    BY <1>1, <2>1, <2>2, NothingRead
  <2> QED BY <1>4, <1>5, <2>3
<1>12. Len(Messages)' = Len(Messages)
  BY <1>1, SameMessages
<1>13. ASSUME Taken(r + 1)' PROVE MessageInv'
  <2>1. r + 1 \in 0 .. Len(Messages)
    BY <1>6
  <2>2. \E n \in 0 .. Len(Messages)' : Taken(n)'
    BY <1>12, <1>13, <2>1
  <2>3. cpc' \in {"start", "failed"} => pos' = 0
    BY <1>1 DEF MessageInv
  <2> QED BY <1>1, <1>11, <2>2, <2>3 DEF MessageInv
<1>14. /\ QuitAt \in 1 .. Len(Messages) /\ Ends(Messages[QuitAt])
       /\ \A k \in 1 .. QuitAt - 1 : ~Ends(Messages[k])
  BY <1>1, QuitAtIs
<1>15. QuitAt > r
  BY <1>4, <1>8, <1>14
<1>16. CASE Ends(Messages[r + 1])
  <2>1. r + 1 = QuitAt /\ QuitAt - 1 = r
    <3>1. ~(r + 1 \in 1 .. QuitAt - 1)
      BY <1>14, <1>16
    <3> QED BY <1>4, <1>14, <1>15, <3>1
  <2>2. out = QueueDelivers
    BY <1>8, <2>1 DEF QueueDelivers
  <2>3. spc' = "done" /\ out' = out
    BY <1>1, <1>7, <1>16
  <2>4. Taken(r + 1)'
    BY <1>1, <1>5, <1>6, <1>9, <1>10, <2>1, <2>2, <2>3, TakenNext
  <2> QED BY <1>11, <1>13, <2>2, <2>3, <2>4
<1>17. CASE ~Ends(Messages[r + 1])
  <2> DEFINE j == Joined(Messages)
  <2>1. spc' = spc /\ spc' # "done" /\ out' = out \o Messages[r + 1]
    BY <1>1, <1>5, <1>7, <1>17
  <2>2. j[r + 1] = j[(r + 1) - 1] \o Messages[r + 1]
    BY <1>3, <1>6, JoinedIs
  <2>3. out' = j[r + 1]
    <3>1. (r + 1) - 1 = r
      BY <1>2
    <3> QED BY <1>8, <2>1, <2>2, <3>1
  <2>4. \A k \in 1 .. r + 1 : ~Ends(Messages[k])
    <3>1. \A k \in 1 .. r + 1 : k \in 1 .. r \/ k = r + 1
      BY <1>4
    <3> QED BY <1>8, <1>17, <3>1
  <2>5. Taken(r + 1)'
    BY <1>1, <1>5, <1>6, <1>9, <1>10, <2>1, <2>3, <2>4, TakenNext
  <2>6. QuitAt # r + 1
    BY <1>14, <1>17
  <2>7. r \in 0 .. Len(Messages) /\ r + 1 \in r .. Len(Messages)
        /\ r + 1 \in 0 .. Len(Messages) /\ QuitAt - 1 \in r + 1 .. Len(Messages)
    BY <1>3, <1>4, <1>6, <1>14, <1>15, <2>6
  <2> HIDE DEF j
  <2>8. Len(j[r]) <= Len(j[r + 1]) /\ j[r] = SubSeq(j[r + 1], 1, Len(j[r]))
    BY <1>3, <2>7, JoinedPrefix DEF j
  <2>9. /\ Len(j[r + 1]) <= Len(j[QuitAt - 1])
        /\ j[r + 1] = SubSeq(j[QuitAt - 1], 1, Len(j[r + 1]))
    BY <1>3, <2>7, JoinedPrefix DEF j
  <2>10. j[r + 1] \in Seq(Byte)
    BY <1>3, <2>7, JoinedIs DEF j
  <2>11. out = j[r] /\ QueueDelivers = j[QuitAt - 1]
    BY <1>8 DEF QueueDelivers, j
  <2> QED BY <1>11, <1>13, <2>1, <2>3, <2>5, <2>8, <2>9, <2>10, <2>11
<1> QED BY <1>16, <1>17

(* What holds of the queue, when that is what the programs use.               *)
QueueMessages == kind = "mq" => MessageInv

LEMMA MessagesStay ==
  ASSUME MessageInv, UNCHANGED transferVars
  PROVE  MessageInv'
<1>1. UNCHANGED <<file, pos, cpc, spc, out, queue, spare, old>>
  BY DEF transferVars, chunkVars, queueVars
<1>2. PICK r \in 0 .. Len(Messages) : Taken(r)
  BY DEF MessageInv
<1>3. Handed' = Handed /\ Len(Messages)' = Len(Messages)
  BY <1>1, SameHanded, SameMessages
<1>4. Taken(r)'
  <2>1. /\ r <= Handed
        /\ queue = NoQueue => Handed = 0 /\ spc = "start" /\ cpc \in {"start", "failed"}
        /\ queue # NoQueue => queue = SubSeq(Messages, r + 1, Handed)
        /\ spc = "done" => r = QuitAt /\ out = QueueDelivers
        /\ spc # "done" => out = Joined(Messages)[r] /\ \A k \in 1 .. r : ~Ends(Messages[k])
    BY <1>2 DEF Taken
  <2> QED BY <1>1, <1>3, <2>1, TakenNext
<1> QED BY <1>1, <1>2, <1>3, <1>4 DEF MessageInv

LEMMA QueueMessagesStep == Inv /\ Inv' /\ QueueMessages /\ [Next]_vars => QueueMessages'
<1> SUFFICES ASSUME Inv, Inv', kind' = "mq", QueueMessages, [Next]_vars PROVE MessageInv'
  BY DEF QueueMessages
<1>1. kind = "mq" /\ MessageInv /\ TransferInv /\ TransferInv'
  BY KindStays DEF QueueMessages, Inv
<1>2. CASE QueueClient \/ QueueServer
  BY <1>1, <1>2, OpenQueue, SendMessage, SendQuit, ReceiveMessage DEF QueueClient, QueueServer
<1>3. CASE NextRun
  BY <1>1, <1>3, NextRunMessages
<1>4. CASE UNCHANGED transferVars
  BY <1>1, <1>4, MessagesStay
<1> QED BY <1>1, <1>2, <1>3, <1>4 DEF Next, Client, Server, Queue, Fifo, Tokens, vars

(* The queue holds what has been handed over and not been received, across    *)
(* runs, and the server has written what it has received.                     *)
THEOREM MessageInvariance == Spec => []QueueMessages
<1>1. Init => QueueMessages
  BY MessageStart DEF QueueMessages
<1> QED BY <1>1, QueueMessagesStep, Invariance, PTL DEF Spec

LEMMA QueueStep ==
  ASSUME Inv, MessageInv, kind = "mq", kind' = kind, QueueClient \/ QueueServer \/ NextRun
  PROVE  [Transfer!FTNext]_(Transfer!ftVars)
<1>1. TransferInv
  BY DEF Inv
<1>2. ASSUME UNCHANGED <<file, spare, old>>
      PROVE  Delivered = QueueDelivers /\ Delivered' = Delivered
  BY <1>2, SameMessages DEF Delivered
<1>3. CASE ClientOpen /\ queue = NoQueue
  <2>1. /\ cpc = "start" /\ cpc' = "failed" /\ UNCHANGED <<file, spc, out, spare, old>>
    BY <1>3 DEF ClientOpen, queueVars
  <2>2. spc = "start" /\ out = <<>>
    <3>1. PICK r \in 0 .. Len(Messages) : Taken(r)
      BY DEF MessageInv
    <3>2. spc = "start" /\ r <= 0
      BY <1>3, <3>1 DEF Taken
    <3>3. Messages \in Seq(Seq(Byte)) /\ Len(Messages) \in Nat
      BY <1>1, MessagesAre DEF TransferInv, MessageInv
    <3>4. r = 0
      BY <3>1, <3>2, <3>3
    <3>5. out = Joined(Messages)[0]
      BY <3>1, <3>2, <3>4 DEF Taken
    <3> QED BY <3>2, <3>3, <3>5, JoinedIs
  <2>3. Outcome(cpc, spc) = "copying" /\ Outcome(cpc', spc') = "failed"
    BY <2>1, <2>2, OutcomeIs
  <2> QED BY <1>2, <2>1, <2>2, <2>3 DEF Transfer!FTNext, Transfer!Fail, Outcome
<1>4. CASE (ClientOpen /\ queue # NoQueue) \/ ClientSend \/ ClientQuit \/ ServerOpen
  <2>1. /\ UNCHANGED <<file, out, spare, old>>
        /\ spc' = spc \/ (spc # "done" /\ spc' # "done")
        /\ cpc' = cpc \/ (cpc # "failed" /\ cpc' # "failed")
    BY <1>4 DEF ClientOpen, ClientSend, ClientQuit, ServerOpen, queueVars
  <2>2. cpc = "failed" => spc # "done"
    BY DEF MessageInv
  <2>3. Outcome(cpc', spc') = Outcome(cpc, spc)
    <3>1. CASE spc = "done"
      BY <2>1, <2>2, <3>1, OutcomeIs
    <3>2. CASE spc # "done" /\ cpc = "failed"
      BY <2>1, <3>2, OutcomeIs
    <3>3. CASE spc # "done" /\ cpc # "failed"
      BY <2>1, <3>3, OutcomeIs
    <3> QED BY <3>1, <3>2, <3>3
  <2> QED BY <1>2, <2>1, <2>3 DEF Transfer!ftVars, Outcome
<1>5. CASE ServerReceive
  <2>1. UNCHANGED <<file, cpc, spare, old>> /\ spc = "receive" /\ out \in Seq(Byte)
    BY <1>1, <1>5 DEF ServerReceive, TransferInv, TransferTypeOK
  <2>2. /\ cpc # "failed"
        /\ spc' = "done" => out' = out /\ out = QueueDelivers
        /\ spc' # "done" => /\ spc' = spc /\ out' \in Seq(Byte)
                            /\ Len(out) <= Len(out') /\ out = SubSeq(out', 1, Len(out))
                            /\ Len(out') <= Len(QueueDelivers)
                            /\ out' = SubSeq(QueueDelivers, 1, Len(out'))
    BY <1>1, <1>5, ReceiveMessage
  <2>3. Outcome(cpc, spc) = "copying"
    BY <2>1, <2>2, OutcomeIs
  <2>4. CASE spc' = "done"
    <3>1. Outcome(cpc', spc') = "ended"
      BY <2>1, <2>2, <2>4, OutcomeIs
    <3> QED BY <1>2, <2>1, <2>2, <2>3, <2>4, <3>1 DEF Transfer!FTNext, Transfer!End, Outcome
  <2>5. CASE spc' # "done" /\ Len(out') = Len(out)
    <3>1. out' = out
      <4> DEFINE o == out'
      <4>1. o \in Seq(Byte) /\ Len(o) = Len(out) /\ out = SubSeq(o, 1, Len(out))
        BY <2>2, <2>5
      <4> HIDE DEF o
      <4>2. SubSeq(o, 1, Len(o)) = o
        BY <4>1
      <4> QED BY <4>1, <4>2 DEF o
    <3> QED BY <1>2, <2>1, <2>2, <2>5, <3>1 DEF Transfer!ftVars
  <2>6. CASE spc' # "done" /\ Len(out') # Len(out)
    <3>1. Delivered = QueueDelivers /\ Delivered' = Delivered /\ spc' = spc /\ cpc' = cpc
      BY <1>2, <2>1, <2>2, <2>6
    <3>2. Len(out') \in Len(out) + 1 .. Len(QueueDelivers)
      <4>1. Len(out) \in Nat /\ Len(out') \in Nat /\ Len(out) <= Len(out')
            /\ Len(out') <= Len(QueueDelivers) /\ Len(QueueDelivers) \in Int
        <5>1. QueueDelivers \in Seq(Byte)
          <6>1. /\ Messages \in Seq(Seq(Byte)) /\ Len(Messages) \in Nat
                /\ QuitAt \in 1 .. Len(Messages)
            BY <1>1, MessagesAre, QuitAtIs DEF TransferInv, MessageInv
          <6>2. QuitAt - 1 \in 0 .. Len(Messages)
            BY <6>1
          <6> DEFINE j == Joined(Messages)
                     n == QuitAt - 1
          <6>3. j \in [0 .. Len(Messages) -> Seq(Byte)] /\ QueueDelivers = j[n]
            BY <6>1, JoinedIs DEF QueueDelivers
          <6>4. n \in 0 .. Len(Messages)
            BY <6>2
          <6> HIDE DEF j, n
          <6> QED BY <6>3, <6>4
        <5>2. /\ out' \in Seq(Byte) /\ Len(out) <= Len(out')
              /\ Len(out') <= Len(QueueDelivers)
          BY <2>2, <2>6
        <5>3. \A s \in Seq(Byte) : Len(s) \in Nat
          OBVIOUS
        <5>4. Len(out) \in Nat /\ Len(out') \in Nat /\ Len(QueueDelivers) \in Nat
          BY <2>1, <5>1, <5>2, <5>3, Zenon
        <5> QED BY <5>2, <5>4
      <4> QED BY <2>6, <4>1
    <3>3. out' = SubSeq(QueueDelivers, 1, Len(out'))
      BY <2>2, <2>6
    <3> QED BY <2>3, <3>1, <3>2, <3>3 DEF Transfer!FTNext, Transfer!Receive, Outcome
  <2> QED BY <2>4, <2>5, <2>6
<1>6. CASE NextRun
  <2>1. cpc = "done" /\ spc = "done" /\ cpc' = "start" /\ spc' = "start" /\ out' = <<>>
    BY <1>6 DEF NextRun
  <2>2. Outcome(cpc, spc) = "ended" /\ Outcome(cpc', spc') = "copying"
    BY <2>1, OutcomeIs
  <2> QED BY <2>1, <2>2 DEF Transfer!FTNext, Transfer!Again, Outcome
<1> QED BY <1>3, <1>4, <1>5, <1>6 DEF QueueClient, QueueServer

(* mq_client_posix.c and mq_server_posix.c, fifo_writer.c and fifo_reader.c   *)
(* implement the transfer: the output only grows along what is to be          *)
(* received, and the server ends with all of it.  For the queue that is what  *)
(* the last run has left and then the messages of this one, up to the first   *)
(* that reads "quit"; for the FIFO the file, without a last chunk that reads  *)
(* "quit" and has a NUL behind it.                                            *)
THEOREM TransferRefinement == Spec => TransferImplemented
<1>1. Init => Transfer!FTInit
  BY DEF Init, ChunkInit, Transfer!FTInit
<1>2. Inv /\ FifoBuffer /\ QueueMessages /\ [Next]_vars => [Transfer!FTNext]_(Transfer!ftVars)
  <2> SUFFICES ASSUME Inv, FifoBuffer, QueueMessages, [Next]_vars
               PROVE  [Transfer!FTNext]_(Transfer!ftVars)
    OBVIOUS
  <2>1. kind' = kind
    BY KindStays
  <2>2. CASE kind = "fifo" /\ (FifoWriter \/ FifoReader)
    BY <2>1, <2>2, FifoStep
  <2>3. CASE kind = "mq" /\ (QueueClient \/ QueueServer \/ NextRun)
    BY <2>1, <2>3, QueueStep DEF QueueMessages
  <2>4. CASE UNCHANGED transferVars
    <3>1. UNCHANGED <<file, rest, out, cpc, spc, spare, old>>
      BY <2>4 DEF transferVars, chunkVars, queueVars, fifoVars
    <3>2. Delivered' = Delivered
      BY <2>1, <3>1, SameMessages DEF Delivered, FifoDelivers, TakenForEnd
    <3> QED BY <3>1, <3>2 DEF Transfer!ftVars
  <2> QED BY <2>2, <2>3, <2>4 DEF Next, Client, Server, Queue, Fifo, Tokens, vars
<1> QED
  BY <1>1, <1>2, Invariance, FifoBufferInvariance, MessageInvariance, PTL
  DEF Spec, TransferImplemented, Transfer!FTSpec
=============================================================================
