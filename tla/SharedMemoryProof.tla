------------------------- MODULE SharedMemoryProof -------------------------
(***************************************************************************)
(* What holds of the two programs whose parts work on the same memory.     *)
(*                                                                         *)
(* Of the shared memory transfer, for every chunk size, every file and any *)
(* number of runs: the types of its variables, and that the client and the *)
(* server never have the object at the same time.                          *)
(*                                                                         *)
(* Of monte_carlo, for every number of threads and however many of them    *)
(* cannot be created: no addition to res_square is lost, the result is     *)
(* whole, no thread outlives its arguments, and the function implements    *)
(* the atomic sum of ParallelSum.                                          *)
(***************************************************************************)
EXTENDS SharedMemory, MonteCarlo, SequenceTheorems, WellFoundedInduction, TLAPS

---------------------------------------------------------------------------
(* The shared memory transfer.                                                *)


(* A file is a sequence of bytes. *)
LEMMA FileIsSeq ==
  ASSUME NEW f \in File
  PROVE  /\ f \in Seq(Byte)
         /\ Len(f) \in Nat
BY SharedMemoryAssumption DEF File

(* A chunk has at most SIZE bytes, at least one as long as the file goes on,  *)
(* and never reaches beyond the file.                                         *)
LEMMA ChunkBounds ==
  ASSUME NEW f \in File, NEW p \in 0 .. Len(f)
  PROVE  /\ Chunk(f, p) \in Seq(Byte)
         /\ Len(Chunk(f, p)) \in 0 .. SIZE
         /\ p + Len(Chunk(f, p)) \in 0 .. Len(f)
<1> DEFINE e == IF p + SIZE <= Len(f) THEN p + SIZE ELSE Len(f)
<1>1. f \in Seq(Byte) /\ Len(f) \in Nat
  BY FileIsSeq
<1>2. e \in Nat /\ p <= e /\ e <= Len(f) /\ e <= p + SIZE
  BY <1>1, SharedMemoryAssumption
<1>3. \A j \in p + 1 .. e : f[j] \in Byte
  BY <1>1, <1>2
<1>4. Chunk(f, p) = SubSeq(f, p + 1, e)
  BY DEF Chunk
<1>5. SubSeq(f, p + 1, e) \in Seq(Byte) /\ Len(SubSeq(f, p + 1, e)) = e - p
  <2> HIDE DEF e
  <2> QED BY <1>1, <1>2, <1>3
<1> HIDE DEF e
<1> QED BY <1>1, <1>2, <1>4, <1>5, SharedMemoryAssumption

(* What the client copies next consists of at most SIZE bytes. *)
LEMMA OutgoingBounds ==
  ASSUME TypeOK
  PROVE  /\ Len(Outgoing) \in 0 .. SIZE
         /\ \A j \in 1 .. Len(Outgoing) : Outgoing[j] \in Byte
<1>1. CASE pos < Len(file)
  <2> DEFINE c == Chunk(file, pos)
  <2>1. c \in Seq(Byte) /\ Len(c) \in 0 .. SIZE
    BY ChunkBounds DEF TypeOK
  <2>2. Outgoing = Copied(c)
    BY <1>1 DEF Outgoing
  <2> HIDE DEF c
  <2>3. /\ Copied(c) = [j \in 1 .. Len(c) |->
             IF \E l \in 1 .. j - 1 : c[l] = "NUL" THEN "NUL" ELSE c[j]]
        /\ \A j \in 1 .. Len(c) : Copied(c)[j] \in Byte
    BY <2>1 DEF Copied, Byte
  <2>4. Len(Copied(c)) = Len(c)
    BY <2>1, <2>3
  <2> QED
    BY <2>1, <2>2, <2>3, <2>4
<1>2. CASE ~(pos < Len(file))
  BY <1>2, SharedMemoryAssumption DEF Outgoing, Byte
<1> QED
  BY <1>1, <1>2

(* An object that ftruncate has filled is one. *)
LEMMA BlankIsObject == Blank \in [1 .. SIZE -> Byte]
BY DEF Blank, Byte

(* The first run starts in a state that satisfies the invariant. *)
LEMMA InitIInv ==
  ASSUME Init
  PROVE  IInv
<1>1. file \in File /\ 0 \in 0 .. Len(file) /\ 0 \in 0 .. SIZE
  BY SharedMemoryAssumption, FileIsSeq DEF Init
<1>3. TypeOK
  <2>1. out \in Seq(Byte)
    BY DEF Init
  <2>2. shm \in [1 .. SIZE -> Byte]
    BY BlankIsObject DEF Init
  <2> QED
    BY <1>1, <2>1, <2>2 DEF Init, TypeOK, ClientPhase, ServerPhase
<1>2. TokenInv /\ MutexInv
  BY DEF Init, TokenInv, MutexInv, OneIf
<1> QED
  BY <1>2, <1>3 DEF IInv

(* Every step of the client keeps the invariant: it has the token from        *)
(* sem_wait(full_sem) to sem_post(empty_sem).                                 *)
LEMMA ClientKeeps ==
  ASSUME IInv, ClientStep
  PROVE  IInv'
<1> USE DEF IInv, TypeOK, ClientPhase, ServerPhase, TokenInv, MutexInv, OneIf,
            kernel, clientVars, serverVars
<1>1. CASE ClientOpen
  BY <1>1, BlankIsObject DEF ClientOpen
<1>2. CASE ClientWaitFull
  BY <1>2 DEF ClientWaitFull
<1>3. CASE ClientLock
  BY <1>3 DEF ClientLock
<1>4. CASE ClientCopy
  <2>0. Len(Outgoing) \in 0 .. SIZE /\ \A j \in 1 .. Len(Outgoing) : Outgoing[j] \in Byte
    BY OutgoingBounds
  <2>1. /\ ci + 1 \in 1 .. Len(Outgoing) /\ ci + 1 \in 1 .. SIZE
        /\ Outgoing[ci + 1] \in Byte
    BY <1>4, <2>0, SharedMemoryAssumption DEF ClientCopy
  <2> QED
    BY <1>4, <2>1 DEF ClientCopy
<1>5. CASE ClientUnlock
  BY <1>5 DEF ClientUnlock
<1>6. CASE ClientPost
  <2>1. pos + Len(Chunk(file, pos)) \in 0 .. Len(file)
    BY ChunkBounds
  <2> QED
    BY <1>6, <2>1, SharedMemoryAssumption DEF ClientPost
<1> QED
  BY <1>1, <1>2, <1>3, <1>4, <1>5, <1>6 DEF ClientStep

(* Every step of the server keeps it: it has the token from                   *)
(* sem_wait(empty_sem) to sem_post(full_sem), or takes it away.               *)
LEMMA ServerKeeps ==
  ASSUME IInv, ServerStep
  PROVE  IInv'
<1> USE DEF IInv, TypeOK, ClientPhase, ServerPhase, TokenInv, MutexInv, OneIf,
            kernel, clientVars, serverVars
<1>1. CASE ServerOpen
  BY <1>1 DEF ServerOpen
<1>2. CASE ServerWaitEmpty
  BY <1>2 DEF ServerWaitEmpty
<1>3. CASE ServerLock
  BY <1>3 DEF ServerLock
<1>4. CASE ServerTest
  BY <1>4 DEF ServerTest
<1>5. CASE ServerWrite
  <2>1. si + 1 \in 1 .. SIZE /\ shm[si + 1] \in Byte
    BY <1>5, SharedMemoryAssumption DEF ServerWrite
  <2> QED
    BY <1>5, <2>1 DEF ServerWrite
<1>6. CASE ServerUnlock
  BY <1>6, SharedMemoryAssumption DEF ServerUnlock
<1>7. CASE ServerPost
  BY <1>7 DEF ServerPost
<1>8. CASE ServerUnlink
  BY <1>8 DEF ServerUnlink
<1> QED
  BY <1>1, <1>2, <1>3, <1>4, <1>5, <1>6, <1>7, <1>8 DEF ServerStep

(* A new run takes over whatever the last one has left in the semaphores.     *)
LEMMA NextRunKeeps ==
  ASSUME IInv, NextRun
  PROVE  IInv'
BY SharedMemoryAssumption, FileIsSeq
   DEF IInv, TypeOK, ClientPhase, ServerPhase, TokenInv, MutexInv, OneIf, NextRun, kernel

(* The invariant of the two programs and the kernel's semaphores: it holds    *)
(* in every state of every run.                                               *)
THEOREM Invariance == Spec => []IInv
<1>1. IInv /\ [Next]_vars => IInv'
  <2> SUFFICES ASSUME IInv, [Next]_vars PROVE IInv'
    OBVIOUS
  <2>1. CASE UNCHANGED vars
    BY <2>1 DEF vars, kernel, clientVars, serverVars, IInv, TypeOK, TokenInv, MutexInv, OneIf
  <2> QED
    BY <2>1, ClientKeeps, ServerKeeps, NextRunKeeps DEF Next
<1> QED
  BY <1>1, InitIInv, PTL DEF Spec

(* The variables keep their types: no index leaves the object or the file.    *)
THEOREM TypeCorrect == Spec => []TypeOK
<1>1. IInv => TypeOK
  BY DEF IInv
<1> QED
  BY <1>1, Invariance, PTL

(* The client never fills the object while the server reads it, for every     *)
(* file and in every run, also in one that starts with the semaphores of the  *)
(* last (shmem_client_posix.c:36-43, shmem_server_posix.c:28-38).             *)
THEOREM TurnsAlternate == Spec => []Alternation
<1>1. IInv => Alternation
  BY DEF IInv, TypeOK, TokenInv, OneIf, Alternation
<1> QED
  BY <1>1, Invariance, PTL

---------------------------------------------------------------------------
(* The output of the shared memory transfer.  The number of chunks of a file: *)
LEMMA ChunksFacts ==
  ASSUME NEW f \in Seq(Byte)
  PROVE  /\ Chunks(f) \in Nat
         /\ \A q \in Nat : q < Chunks(f) <=> q * SIZE < Len(f)
<1> DEFINE l == Len(f)
           c == (l + SIZE - 1) \div SIZE
<1>1. l \in Nat /\ SIZE \in Nat /\ SIZE >= 2
  BY SharedMemoryAssumption
<1>2. Chunks(f) = c
  BY DEF Chunks
<1> HIDE DEF l
<1>3. c \in Nat /\ c * SIZE <= l + SIZE - 1 /\ l + SIZE - 1 < (c + 1) * SIZE
  BY <1>1
<1> HIDE DEF c
<1>4. ASSUME NEW q \in Nat
      PROVE  q < c <=> q * SIZE < l
  <2>1. /\ q * SIZE \in Nat /\ c * SIZE \in Nat
        /\ (c + 1) * SIZE = c * SIZE + SIZE /\ (q + 1) * SIZE = q * SIZE + SIZE
    BY <1>1, <1>3
  <2>2. CASE q < c
    <3>1. (q + 1) * SIZE <= c * SIZE
      BY <1>1, <1>3, <2>2
    <3> QED BY <1>1, <1>3, <2>1, <2>2, <3>1
  <2>3. CASE q >= c
    <3>1. c * SIZE <= q * SIZE
      BY <1>1, <1>3, <2>3
    <3>2. l <= c * SIZE
      BY <1>1, <1>3, <2>1
    <3> QED BY <1>1, <1>3, <2>1, <2>3, <3>1, <3>2
  <2> QED BY <1>3, <2>2, <2>3
<1> QED BY <1>2, <1>3, <1>4 DEF l

LEMMA CopiedFacts ==
  ASSUME NEW c \in Seq(Byte)
  PROVE  /\ Copied(c) \in Seq(Byte) /\ Len(Copied(c)) = Len(c)
         /\ \A j \in 1 .. Len(c) : Copied(c)[j] \in Byte
<1>1. /\ Copied(c) = [j \in 1 .. Len(c) |->
           IF \E l \in 1 .. j - 1 : c[l] = "NUL" THEN "NUL" ELSE c[j]]
      /\ \A j \in 1 .. Len(c) : Copied(c)[j] \in Byte
  BY DEF Copied, Byte
<1>2. Copied(c) \in [1 .. Len(c) -> Byte]
  BY <1>1
<1>3. Len(c) \in Nat
  OBVIOUS
<1> QED BY <1>1, <1>2, <1>3

(* The q-th chunk of a file and where it ends: only the last may be short.    *)
LEMMA ChunkAt ==
  ASSUME NEW f \in File, NEW q \in Nat, q < Chunks(f)
  PROVE  LET c == Chunk(f, q * SIZE)
         IN  /\ c \in Seq(Byte) /\ Len(c) \in 1 .. SIZE
             /\ q + 1 < Chunks(f) => Len(c) = SIZE
             /\ q * SIZE + Len(c) =
                  IF (q + 1) * SIZE <= Len(f) THEN (q + 1) * SIZE ELSE Len(f)
<1> DEFINE p == q * SIZE
           e == IF p + SIZE <= Len(f) THEN p + SIZE ELSE Len(f)
           c == Chunk(f, p)
<1>1. f \in Seq(Byte) /\ Len(f) \in Nat /\ SIZE \in Nat /\ SIZE >= 2
  BY FileIsSeq, SharedMemoryAssumption
<1>2. p \in Nat /\ (q + 1) * SIZE = p + SIZE
  BY <1>1
<1>3. p < Len(f)
  BY <1>1, ChunksFacts
<1>4. q + 1 < Chunks(f) => p + SIZE < Len(f)
  <2>1. q + 1 \in Nat
    OBVIOUS
  <2> HIDE DEF p
  <2>2. q + 1 < Chunks(f) => (q + 1) * SIZE < Len(f)
    BY <1>1, <2>1, ChunksFacts
  <2> QED BY <1>2, <2>2
<1>5. c = SubSeq(f, p + 1, e)
  BY DEF Chunk
<1> HIDE DEF p
<1>6. e \in Nat /\ p < e /\ e <= Len(f) /\ e <= p + SIZE /\ (p + SIZE < Len(f) => e = p + SIZE)
  BY <1>1, <1>2, <1>3
<1>7. SubSeq(f, p + 1, e) \in Seq(Byte) /\ Len(SubSeq(f, p + 1, e)) = e - p
  <2> HIDE DEF e
  <2> QED BY <1>1, <1>2, <1>6
<1> HIDE DEF c
<1>8. c \in Seq(Byte) /\ Len(c) = e - p
  BY <1>5, <1>7
<1>9. e = IF (q + 1) * SIZE <= Len(f) THEN (q + 1) * SIZE ELSE Len(f)
  BY <1>2
<1> HIDE DEF e
<1>10. Len(c) \in 1 .. SIZE /\ (q + 1 < Chunks(f) => Len(c) = SIZE) /\ p + Len(c) = e
  BY <1>1, <1>2, <1>4, <1>6, <1>8
<1> QED BY <1>8, <1>9, <1>10 DEF p, c

(* The next chunk over what is in the object is the next image. *)
LEMMA NextImage ==
  ASSUME NEW f \in File, NEW q \in Nat, q < Chunks(f)
  PROVE  LET new == Copied(Chunk(f, q * SIZE))
         IN  /\ Len(new) = Len(Chunk(f, q * SIZE))
             /\ Image(f, q + 1) =
                  [j \in 1 .. SIZE |-> IF j <= Len(new) THEN new[j] ELSE Held(f, q)[j]]
<1> DEFINE new == Copied(Chunk(f, q * SIZE))
           old == Copied(Chunk(f, (q - 1) * SIZE))
           before == IF q + 1 = 1 THEN Blank ELSE old
<1>0. SIZE \in Nat /\ SIZE >= 2 /\ Chunks(f) \in Nat
  BY SharedMemoryAssumption, FileIsSeq, ChunksFacts
<1>1. Len(new) = Len(Chunk(f, q * SIZE))
  BY ChunkAt, CopiedFacts
<1>2. (q + 1) - 1 = q /\ (q + 1) - 2 = q - 1
  OBVIOUS
<1>3. Image(f, q + 1) = [j \in 1 .. SIZE |-> IF j <= Len(new) THEN new[j] ELSE before[j]]
  BY <1>2 DEF Image
<1>4. ASSUME NEW j \in 1 .. SIZE
      PROVE  before[j] = Held(f, q)[j]
  <2>1. CASE q = 0
    BY <2>1 DEF Held
  <2>2. CASE q # 0
    <3> DEFINE k == q - 1
    <3>1. k \in Nat /\ k < Chunks(f) /\ k + 1 < Chunks(f) /\ q + 1 # 1
      BY <1>0, <2>2
    <3> HIDE DEF k
    <3>2. Len(Copied(Chunk(f, k * SIZE))) = SIZE
      BY <3>1, ChunkAt, CopiedFacts
    <3>3. Len(old) = SIZE
      BY <3>2 DEF k
    <3>4. Held(f, q)[j] = IF j <= Len(old) THEN old[j]
                            ELSE (IF q = 1 THEN Blank ELSE Copied(Chunk(f, (q - 2) * SIZE)))[j]
      BY <2>2 DEF Held, Image
    <3> HIDE DEF old
    <3>5. Held(f, q)[j] = old[j]
      BY <1>0, <3>3, <3>4
    <3> QED BY <3>1, <3>5
  <2> QED BY <2>1, <2>2
<1> HIDE DEF new, before
<1>5. Image(f, q + 1) = [j \in 1 .. SIZE |-> IF j <= Len(new) THEN new[j] ELSE Held(f, q)[j]]
  BY <1>3, <1>4
<1> QED BY <1>1, <1>5 DEF new

LEMMA Division ==
  ASSUME NEW m \in Nat, NEW h \in 0 .. SIZE - 1
  PROVE  m * SIZE + h \in Nat /\ (m * SIZE + h) \div SIZE = m /\ (m * SIZE + h) % SIZE = h
<1> DEFINE a == m * SIZE + h
           r == a \div SIZE
           k == a % SIZE
<1>1. SIZE \in Nat /\ SIZE >= 2 /\ m * SIZE \in Nat
  BY SharedMemoryAssumption
<1>2. a \in Nat /\ m * SIZE <= a /\ a < m * SIZE + SIZE
  BY <1>1
<1>3. a = m * SIZE + h
  OBVIOUS
<1> HIDE DEF a
<1>4. r \in Nat /\ k \in 0 .. SIZE - 1 /\ a = SIZE * r + k
  BY <1>1, <1>2
<1> HIDE DEF r, k
<1>5. SIZE * r = r * SIZE /\ r * SIZE \in Nat
  BY <1>1, <1>4
<1>6. ASSUME r < m PROVE FALSE
  <2>1. (r + 1) * SIZE <= m * SIZE /\ (r + 1) * SIZE = r * SIZE + SIZE
    BY <1>1, <1>4, <1>6
  <2> QED BY <1>1, <1>2, <1>4, <1>5, <2>1
<1>7. ASSUME r > m PROVE FALSE
  <2>1. (m + 1) * SIZE <= r * SIZE /\ (m + 1) * SIZE = m * SIZE + SIZE
    BY <1>1, <1>4, <1>7
  <2> QED BY <1>1, <1>2, <1>4, <1>5, <2>1
<1>8. r = m
  BY <1>4, <1>6, <1>7
<1>9. k = h
  BY <1>1, <1>3, <1>4, <1>5, <1>8
<1> QED BY <1>2, <1>8, <1>9 DEF a, r, k

(* One more byte of the n-th image is written. *)
LEMMA OneByteMore ==
  ASSUME NEW f, NEW n \in Nat, n >= 1, NEW h \in 0 .. SIZE - 1,
         NEW o \in Seq(Byte), o = Written(f, (n - 1) * SIZE + h), Image(f, n)[h + 1] \in Byte
  PROVE  Append(o, Image(f, n)[h + 1]) = Written(f, (n - 1) * SIZE + h + 1)
<1> DEFINE k == (n - 1) * SIZE + h
           At(j) == Image(f, ((j - 1) \div SIZE) + 1)[((j - 1) % SIZE) + 1]
           w == Written(f, k + 1)
           x == Image(f, n)[h + 1]
<1>1. SIZE \in Nat /\ SIZE >= 2 /\ n - 1 \in Nat /\ h \in Nat /\ h < SIZE
  BY SharedMemoryAssumption
<1>2. k \in Nat /\ k \div SIZE = n - 1 /\ k % SIZE = h
  <2> DEFINE m == n - 1
  <2>1. m \in Nat
    BY <1>1
  <2> HIDE DEF m
  <2>2. m * SIZE + h \in Nat /\ (m * SIZE + h) \div SIZE = m /\ (m * SIZE + h) % SIZE = h
    BY <1>1, <2>1, Division
  <2> QED BY <2>2 DEF m
<1>3. o = [j \in 1 .. k |-> At(j)] /\ w = [j \in 1 .. k + 1 |-> At(j)]
  BY DEF Written
<1>4. At(k + 1) = x
  <2>1. (k + 1) - 1 = k /\ (n - 1) + 1 = n
    BY <1>2
  <2> HIDE DEF k
  <2> QED BY <1>2, <2>1
<1>5. x \in Byte
  OBVIOUS
<1> HIDE DEF k, x, At, w
<1>6. Len(o) = k
  <2>1. DOMAIN o = 1 .. k
    BY <1>3
  <2> QED BY <1>2, <2>1
<1>7. \A j \in 1 .. k : o[j] = w[j]
  BY <1>2, <1>3
<1>8. w[k + 1] = x
  BY <1>2, <1>3, <1>4
<1>9. Append(o, x) = [j \in 1 .. k + 1 |-> w[j]]
  BY <1>2, <1>5, <1>6, <1>7, <1>8
<1>10. w = [j \in 1 .. k + 1 |-> w[j]]
  BY <1>3
<1>11. Append(o, x) = w
  BY <1>9, <1>10
<1>12. k + 1 = (n - 1) * SIZE + h + 1
  BY <1>1 DEF k
<1> QED BY <1>11, <1>12 DEF x, w

(* A set of numbers that is not empty has a least one. *)
LEMMA HasLeast ==
  ASSUME NEW S \in SUBSET Nat, S # {}
  PROVE  \E m \in S : \A n \in S : m <= n
<1>1. PICK m \in S : \A n \in S : <<n, m>> \notin OpToRel(<, Nat)
  BY WFMin, NatLessThanWellFounded
<1>2. ASSUME NEW n \in S PROVE ~(n < m)
  BY <1>1, Zenon DEF OpToRel
<1> QED BY <1>2

(* The output is to be the images before the first that reads "quit". *)
LEMMA LastWrittenFacts ==
  ASSUME NEW f \in Seq(Byte)
  PROVE  /\ LastWritten(f) \in 0 .. Chunks(f)
         /\ NoQuit(f, LastWritten(f))
         /\ \A n \in 0 .. Chunks(f) : NoQuit(f, n) => n <= LastWritten(f)
<1> DEFINE Is(m) == NoQuit(f, m) /\ (m = Chunks(f) \/ ~NoQuit(f, m + 1))
           stop  == {n \in 1 .. Chunks(f) : IsQuit(Image(f, n))}
<1>0. Chunks(f) \in Nat
  BY ChunksFacts
<1>1. \E m \in 0 .. Chunks(f) : Is(m)
  <2>1. CASE stop = {}
    <3>1. Is(Chunks(f))
      BY <1>0, <2>1 DEF NoQuit
    <3> QED BY <1>0, <3>1
  <2>2. CASE stop # {}
    <3>1. stop \in SUBSET Nat
      BY <1>0
    <3> HIDE DEF stop
    <3>2. PICK k \in stop : \A n \in stop : k <= n
      BY <2>2, <3>1, HasLeast
    <3>3. k \in 1 .. Chunks(f) /\ IsQuit(Image(f, k))
      BY <3>2 DEF stop
    <3>4. ASSUME NEW n \in 1 .. k - 1 PROVE ~IsQuit(Image(f, n))
      BY <1>0, <3>2, <3>3 DEF stop
    <3>5. k - 1 \in 0 .. Chunks(f) /\ (k - 1) + 1 = k /\ k \in 1 .. k
      BY <1>0, <3>3
    <3>6. ~NoQuit(f, k)
      BY <3>3, <3>5 DEF NoQuit
    <3>7. NoQuit(f, k - 1)
      BY <3>4 DEF NoQuit
    <3> QED BY <3>5, <3>6, <3>7
  <2> QED BY <2>1, <2>2
<1> DEFINE l == LastWritten(f)
<1>2. l \in 0 .. Chunks(f) /\ Is(l)
  BY <1>1, Zenon DEF LastWritten
<1> HIDE DEF l
<1>3. ASSUME NEW n \in 0 .. Chunks(f), NoQuit(f, n), n > l
      PROVE  FALSE
  <2>1. ~NoQuit(f, l + 1)
    BY <1>0, <1>2, <1>3
  <2>2. l + 1 \in 1 .. n /\ 1 .. l + 1 \subseteq 1 .. n
    BY <1>0, <1>2, <1>3
  <2> QED BY <1>3, <2>1, <2>2 DEF NoQuit
<1>4. ASSUME NEW n \in 0 .. Chunks(f), NoQuit(f, n)
      PROVE  n <= l
  BY <1>0, <1>2, <1>3, <1>4
<1> QED BY <1>2, <1>4 DEF l

(* A chunk count at which the server stops is that of the output. *)
LEMMA DeliveredIs ==
  ASSUME NEW f \in Seq(Byte), NEW n \in 0 .. Chunks(f), NoQuit(f, n),
         n = Chunks(f) \/ IsQuit(Image(f, n + 1))
  PROVE  Delivered(f) = Written(f, n * SIZE)
<1> DEFINE l == LastWritten(f)
<1>1. Chunks(f) \in Nat /\ l \in 0 .. Chunks(f) /\ NoQuit(f, l) /\ n <= l
  BY ChunksFacts, LastWrittenFacts
<1>2. Delivered(f) = Written(f, l * SIZE)
  BY DEF Delivered
<1> HIDE DEF l
<1>3. l = n
  <2>1. CASE n = Chunks(f)
    BY <1>1, <2>1
  <2>2. CASE IsQuit(Image(f, n + 1))
    <3>1. n + 1 \notin 1 .. l
      BY <1>1, <2>2 DEF NoQuit
    <3> QED BY <1>1, <3>1
  <2> QED BY <2>1, <2>2
<1> QED BY <1>2, <1>3

(* What is written of a file is a beginning of what is written later. *)
LEMMA WrittenPrefix ==
  ASSUME NEW f, NEW n \in Nat, NEW k \in 0 .. n
  PROVE  Len(Written(f, n)) = n /\ Written(f, k) = SubSeq(Written(f, n), 1, k)
<1> DEFINE At(j) == Image(f, ((j - 1) \div SIZE) + 1)[((j - 1) % SIZE) + 1]
           w == Written(f, n)
           v == Written(f, k)
           S == {At(j) : j \in 1 .. n}
<1>1. w = [j \in 1 .. n |-> At(j)] /\ v = [j \in 1 .. k |-> At(j)]
  BY DEF Written
<1>2. \A j \in 1 .. n : At(j) \in S
  OBVIOUS
<1> HIDE DEF w, v, At, S
<1>3. w \in Seq(S) /\ Len(w) = n /\ v \in Seq(S) /\ Len(v) = k
  <2>1. w \in [1 .. n -> S] /\ v \in [1 .. k -> S]
    BY <1>1, <1>2
  <2> QED BY <2>1
<1>4. \A j \in 1 .. k : v[j] = w[j]
  BY <1>1
<1>5. /\ SubSeq(w, 1, k) \in Seq(S) /\ Len(SubSeq(w, 1, k)) = k
      /\ \A j \in 1 .. k : SubSeq(w, 1, k)[j] = w[j]
  BY <1>3
<1>6. v = SubSeq(w, 1, k)
  BY <1>3, <1>4, <1>5, SeqEqual
<1> QED BY <1>3, <1>6 DEF w, v

(* The first run starts with the turn of a client that has handed over nothing. *)
LEMMA OutputStart == Init => OutputInv
<1> SUFFICES ASSUME Init PROVE OutputInv
  OBVIOUS
<1>1. file \in Seq(Byte) /\ Len(file) \in Nat /\ Chunks(file) \in Nat /\ SIZE \in Nat /\ SIZE >= 2
  BY FileIsSeq, ChunksFacts, SharedMemoryAssumption DEF Init
<1>2. 0 * SIZE = 0 /\ 0 \in 0 .. Chunks(file)
  BY <1>1
<1>3. Written(file, 0) = <<>> /\ NoQuit(file, 0)
  BY DEF Written, NoQuit
<1>4. Len(Outgoing) >= 0
  BY InitIInv, OutgoingBounds, SharedMemoryAssumption DEF IInv
<1>5. shm = [j \in 1 .. SIZE |-> IF j <= 0 THEN Outgoing[j] ELSE Blank[j]]
  BY <1>1 DEF Init, Blank
<1>6. Filling(0)
  BY <1>2, <1>3, <1>4, <1>5 DEF Init, Filling, Received, Held
<1>7. FirstRun(0)
  BY <1>1, <1>2, <1>6 DEF Init, FirstRun, ClientTurn, ServerTurn
<1> QED
  BY <1>2, <1>7
  DEF Init, OutputInv, BreakInv, FirstRunInv, LaterRunInv, Received, ClientTurn, ServerTurn

LEMMA FourAreOne ==
  ASSUME NEW x \in Nat, NEW y \in Nat, NEW a \in Nat, NEW b \in Nat, x + y + a + b <= 1
  PROVE  x <= 1 /\ y <= 1
OBVIOUS

LEMMA BreakKeeps ==
  ASSUME IInv, IInv', BreakInv, [Next]_vars
  PROVE  BreakInv'
<1>0. full \in Nat /\ empty \in Nat
  BY DEF IInv, TypeOK
<1>1. full' <= 1 /\ empty' <= 1
  <2> DEFINE a == OneIf(cpc' \in {"lock", "copy", "post"})
             b == OneIf(spc' \in {"lock", "test", "write", "post"})
  <2>1. a \in Nat /\ b \in Nat
    BY DEF OneIf
  <2>2. full' + empty' + a + b <= 1 /\ full' \in Nat /\ empty' \in Nat
    BY DEF IInv, TypeOK, TokenInv
  <2> HIDE DEF a, b
  <2> QED BY <2>1, <2>2, FourAreOne
<1> USE DEF BreakInv, Received, ClientTurn, ServerTurn
<1>2. CASE ClientStep
  BY <1>0, <1>1, <1>2 DEF ClientStep, ClientOpen, ClientWaitFull, ClientLock, ClientCopy,
                          ClientUnlock, ClientPost, kernel, serverVars
<1>3. CASE ServerOpen \/ ServerWaitEmpty \/ ServerLock
  BY <1>1, <1>3 DEF ServerOpen, ServerWaitEmpty, ServerLock, kernel, clientVars
<1>4. CASE ServerTest
  <2>1. /\ spc = "test" /\ UNCHANGED <<full, empty, cpc, mapped, si, out>>
        /\ spc' = IF ~mapped THEN "crashed" ELSE IF IsQuit(shm) THEN "unlink" ELSE "write"
    BY <1>4 DEF ServerTest, kernel, clientVars
  <2>2. full = 0 /\ empty = 0 /\ cpc \notin {"lock", "copy", "post"}
    BY <2>1 DEF IInv, TypeOK, TokenInv, OneIf
  <2> QED BY <1>1, <2>1, <2>2
<1>5. CASE ServerWrite \/ ServerUnlock \/ ServerPost \/ ServerUnlink
  BY <1>1, <1>5 DEF ServerWrite, ServerUnlock, ServerPost, ServerUnlink, kernel, clientVars
<1>6. CASE NextRun
  BY <1>1, <1>6 DEF NextRun, kernel
<1>7. CASE UNCHANGED vars
  BY <1>7 DEF vars, kernel, clientVars, serverVars
<1> QED BY <1>2, <1>3, <1>4, <1>5, <1>6, <1>7 DEF Next, ServerStep

LEMMA LaterRunKeeps ==
  ASSUME IInv, BreakInv, LaterRunInv, [Next]_vars
  PROVE  LaterRunInv'
<1> USE DEF LaterRunInv, Received, ClientTurn, ServerTurn
<1>1. CASE ClientStep
  BY <1>1 DEF ClientStep, ClientOpen, ClientWaitFull, ClientLock, ClientCopy, ClientUnlock,
              ClientPost, kernel, serverVars, IInv, TypeOK, BreakInv
<1>2. CASE ServerStep
  BY <1>2 DEF ServerStep, ServerOpen, ServerWaitEmpty, ServerLock, ServerTest, ServerWrite,
              ServerUnlock, ServerPost, ServerUnlink, kernel, clientVars, IInv, TypeOK, BreakInv
<1>3. CASE NextRun
  BY <1>3 DEF NextRun, kernel, BreakInv
<1>4. CASE UNCHANGED vars
  BY <1>4 DEF vars, kernel, clientVars, serverVars
<1> QED BY <1>1, <1>2, <1>3, <1>4 DEF Next

(* The turns exclude each other. *)
LEMMA OneTurn == IInv => ~(ClientTurn /\ ServerTurn)
BY DEF IInv, TypeOK, TokenInv, OneIf, ClientTurn, ServerTurn

(* The steps of the client in a first run. *)
LEMMA RunClientOpen ==
  ASSUME IInv, BreakInv, NEW q \in 0 .. Chunks(file), FirstRun(q), ClientOpen
  PROVE  FirstRun(q)'
<1>1. /\ cpc = "open" /\ cpc' = "wait" /\ shm' = IF obj THEN shm ELSE Blank
      /\ UNCHANGED <<file, full, empty, pos, ci, spc, si, out>>
  BY DEF ClientOpen, serverVars
<1>2. ~ServerTurn /\ ~ServerTurn' /\ (ClientTurn' <=> ClientTurn)
  BY <1>1 DEF FirstRun, EmptyingChunk, EmptyingQuit, ClientTurn, ServerTurn
<1>3. Outgoing' = Outgoing /\ Received' = Received
  BY <1>1 DEF Outgoing, Received
<1>4. ASSUME ClientTurn PROVE Filling(q)'
  <2>1. q = 0 /\ obj = FALSE /\ ci = 0
    BY <1>1, <1>4 DEF FirstRun, Filling
  <2>2. shm' = [j \in 1 .. SIZE |-> IF j <= ci THEN Outgoing[j] ELSE Held(file, q)[j]]
    BY <1>1, <2>1 DEF Blank, Held
  <2> QED BY <1>1, <1>3, <1>4, <2>1, <2>2 DEF FirstRun, Filling
<1> QED BY <1>1, <1>2, <1>3, <1>4 DEF FirstRun

LEMMA RunClientTurn ==
  ASSUME IInv, BreakInv, NEW q \in 0 .. Chunks(file), FirstRun(q),
         ClientWaitFull \/ ClientLock \/ ClientUnlock
  PROVE  FirstRun(q)'
<1>1. /\ ClientTurn /\ ClientTurn' /\ cpc' \in {"lock", "copy", "post"}
      /\ cpc \notin {"copy", "post"} \/ (cpc' = "post" /\ ci = Len(Outgoing))
      /\ cpc' = "post" => ci = Len(Outgoing)
      /\ UNCHANGED <<file, shm, pos, ci, spc, si, out, empty>>
  BY DEF ClientWaitFull, ClientLock, ClientUnlock, serverVars, ClientTurn, BreakInv, IInv, TypeOK
<1>2. ~ServerTurn /\ ~ServerTurn'
  BY <1>1, OneTurn DEF ServerTurn
<1>3. Outgoing' = Outgoing /\ Received' = Received
  BY <1>1 DEF Outgoing, Received
<1>4. Filling(q)
  BY <1>1 DEF FirstRun
<1>5. Filling(q)'
  BY <1>1, <1>3, <1>4 DEF Filling
<1> QED BY <1>1, <1>2, <1>5, <1>4 DEF FirstRun, Filling

LEMMA RunClientCopy ==
  ASSUME IInv, BreakInv, NEW q \in 0 .. Chunks(file), FirstRun(q), ClientCopy
  PROVE  FirstRun(q)'
<1>1. /\ cpc = "copy" /\ ci < Len(Outgoing) /\ ci' = ci + 1
      /\ shm' = [shm EXCEPT ![ci + 1] = Outgoing[ci + 1]]
      /\ UNCHANGED <<file, full, empty, cpc, pos, spc, si, out>>
  BY DEF ClientCopy, kernel, serverVars
<1>2. ClientTurn /\ ClientTurn' /\ ~ServerTurn /\ ~ServerTurn'
  BY <1>1, OneTurn DEF ClientTurn, ServerTurn
<1>3. Outgoing' = Outgoing /\ Received' = Received
  BY <1>1 DEF Outgoing, Received
<1>4. Filling(q)
  BY <1>2 DEF FirstRun
<1>5. ci \in Nat /\ ci + 1 <= SIZE /\ Len(Outgoing) \in Nat /\ SIZE \in Nat
  BY <1>1, OutgoingBounds, SharedMemoryAssumption DEF IInv, TypeOK
<1>6. shm = [j \in 1 .. SIZE |-> IF j <= ci THEN Outgoing[j] ELSE Held(file, q)[j]]
  BY <1>4 DEF Filling
<1>7. shm' = [j \in 1 .. SIZE |-> IF j <= ci' THEN Outgoing[j] ELSE Held(file, q)[j]]
  <2>1. shm' = [j \in 1 .. SIZE |-> IF j = ci + 1 THEN Outgoing[ci + 1] ELSE shm[j]]
    BY <1>1, <1>6
  <2>2. ASSUME NEW j \in 1 .. SIZE
        PROVE  shm'[j] = IF j <= ci' THEN Outgoing[j] ELSE Held(file, q)[j]
    <3>1. shm[j] = IF j <= ci THEN Outgoing[j] ELSE Held(file, q)[j]
      BY <1>6
    <3>2. shm'[j] = IF j = ci + 1 THEN Outgoing[ci + 1] ELSE shm[j]
      BY <2>1
    <3>3. j <= ci + 1 <=> j <= ci \/ j = ci + 1
      BY <1>5
    <3> QED BY <1>1, <1>5, <3>1, <3>2, <3>3
  <2>3. shm' = [j \in 1 .. SIZE |-> shm'[j]]
    BY <2>1
  <2> QED BY <2>2, <2>3
<1>8. Filling(q)'
  <2>1. ci' <= Len(Outgoing)'
    BY <1>1, <1>3, <1>5
  <2>2. NoQuit(file, q)' /\ Received' = Written(file, q * SIZE)'
    BY <1>1, <1>3, <1>4 DEF Filling
  <2>3. shm' = [j \in 1 .. SIZE |-> IF j <= ci THEN Outgoing[j] ELSE Held(file, q)[j]]'
    BY <1>1, <1>3, <1>7
  <2> QED BY <1>1, <1>4, <2>1, <2>2, <2>3 DEF Filling
<1> QED BY <1>1, <1>2, <1>4, <1>8 DEF FirstRun, Filling

(* The q-th chunk is what the object holds when nothing of the next is in it. *)
LEMMA ImageIsHeld ==
  ASSUME NEW f, NEW q
  PROVE  Held(f, q) = [j \in 1 .. SIZE |-> Held(f, q)[j]]
<1>1. CASE q = 0
  BY <1>1 DEF Held, Blank
<1>2. CASE q # 0
  BY <1>2 DEF Held, Image
<1> QED BY <1>1, <1>2

LEMMA RunClientPost ==
  ASSUME IInv, BreakInv, NEW q \in 0 .. Chunks(file), FirstRun(q), ClientPost
  PROVE  \E n \in 0 .. Chunks(file) : FirstRun(n)'
<1>1. /\ cpc = "post" /\ empty' = empty + 1 /\ ci' = 0
      /\ IF pos < Len(file)
         THEN cpc' = "wait" /\ pos' = pos + Len(Chunk(file, pos))
         ELSE cpc' = "done" /\ UNCHANGED pos
      /\ UNCHANGED <<file, full, shm, spc, si, out>>
  BY DEF ClientPost, serverVars
<1>2. ClientTurn /\ ~ServerTurn
  BY <1>1, OneTurn DEF ClientTurn
<1>3. /\ spc \in {"open", "wait"} /\ ci = Len(Outgoing) /\ NoQuit(file, q)
      /\ Received = Written(file, q * SIZE)
      /\ shm = [j \in 1 .. SIZE |-> IF j <= ci THEN Outgoing[j] ELSE Held(file, q)[j]]
  BY <1>1, <1>2 DEF FirstRun, Filling
<1>4. full = 0 /\ empty = 0
  BY <1>1, <1>2 DEF ServerTurn, BreakInv, IInv, TypeOK, TokenInv, OneIf
<1>5. ~ClientTurn' /\ ServerTurn'
  BY <1>1, <1>4 DEF ClientTurn, ServerTurn
<1>6. /\ file \in File /\ file \in Seq(Byte) /\ Len(file) \in Nat /\ Chunks(file) \in Nat
      /\ q \in Nat /\ q <= Chunks(file) /\ SIZE \in Nat /\ SIZE >= 2
  BY FileIsSeq, ChunksFacts, SharedMemoryAssumption DEF IInv, TypeOK
<1>7. /\ q < Chunks(file) <=> q * SIZE < Len(file)
      /\ q * SIZE \in Nat
      /\ pos = IF q * SIZE <= Len(file) THEN q * SIZE ELSE Len(file)
  BY <1>6, ChunksFacts DEF FirstRun
<1>8. Received' = Received
  BY <1>1 DEF Received
<1>9. CASE pos < Len(file)
  <2>1. /\ q < Chunks(file) /\ pos = q * SIZE
        /\ q + 1 \in 0 .. Chunks(file) /\ (q + 1) - 1 = q /\ q + 1 >= 1
    BY <1>6, <1>7, <1>9
  <2>2. pos' = IF (q + 1) * SIZE <= Len(file) THEN (q + 1) * SIZE ELSE Len(file)
    BY <1>1, <1>6, <1>9, <2>1, ChunkAt
  <2>3. Outgoing = Copied(Chunk(file, q * SIZE))
    BY <1>9, <2>1 DEF Outgoing
  <2>4. shm = Image(file, q + 1)
    <3> DEFINE new == Copied(Chunk(file, q * SIZE))
    <3>1. Image(file, q + 1) =
            [j \in 1 .. SIZE |-> IF j <= Len(new) THEN new[j] ELSE Held(file, q)[j]]
      BY <1>6, <2>1, NextImage
    <3>2. ci = Len(new) /\ Outgoing = new
      BY <1>3, <2>3
    <3> HIDE DEF new
    <3> QED BY <1>3, <3>1, <3>2
  <2>5. EmptyingChunk(q + 1)'
    BY <1>1, <1>3, <1>8, <1>9, <2>1, <2>4 DEF EmptyingChunk
  <2>6. FirstRun(q + 1)'
    BY <1>1, <1>3, <1>5, <2>2, <2>5 DEF FirstRun
  <2> QED BY <2>1, <2>6
<1>10. CASE ~(pos < Len(file))
  <2>1. pos = Len(file)
    BY <1>6, <1>7, <1>10
  <2>2. Outgoing = <<"QUIT", "NUL">>
    BY <1>10 DEF Outgoing
  <2>3. IsQuit(shm)
    <3>1. ci = 2 /\ Outgoing[1] = "QUIT" /\ Outgoing[2] = "NUL"
      BY <1>3, <2>2
    <3> QED BY <1>3, <1>6, <3>1 DEF IsQuit
  <2>4. EmptyingQuit(q)'
    BY <1>1, <1>3, <1>8, <1>10, <2>1, <2>3 DEF EmptyingQuit
  <2>5. FirstRun(q)'
    BY <1>1, <1>3, <1>5, <1>7, <1>10, <2>4 DEF FirstRun
  <2> QED BY <1>6, <2>5
<1> QED BY <1>9, <1>10

(* The steps of the server in a first run. *)
LEMMA RunServerWaits ==
  ASSUME IInv, BreakInv, NEW q \in 0 .. Chunks(file), FirstRun(q),
         ServerOpen \/ ServerWaitEmpty \/ ServerLock
  PROVE  FirstRun(q)'
<1>1. /\ spc \in {"open", "wait", "lock"} /\ spc' \in {"wait", "lock", "test"}
      /\ Received' = Received
      /\ UNCHANGED <<file, full, shm, cpc, pos, ci, si>>
  BY DEF ServerOpen, ServerWaitEmpty, ServerLock, Received, kernel, clientVars
<1>2. ClientTurn' <=> ClientTurn
  BY <1>1 DEF ClientTurn
<1>3. ServerTurn' <=> ServerTurn
  BY DEF ServerOpen, ServerWaitEmpty, ServerLock, ServerTurn, kernel, BreakInv, IInv, TypeOK
<1>4. Outgoing' = Outgoing
  BY <1>1 DEF Outgoing
<1>5. ASSUME ClientTurn PROVE Filling(q)'
  <2>1. ~ServerTurn /\ Filling(q)
    BY <1>5, OneTurn DEF FirstRun
  <2>2. spc' = "wait"
    BY <2>1 DEF ServerOpen, ServerWaitEmpty, ServerLock, ServerTurn, Filling, BreakInv, IInv, TypeOK
  <2>3. shm' = [j \in 1 .. SIZE |-> IF j <= ci THEN Outgoing[j] ELSE Held(file, q)[j]]'
    BY <1>1, <1>4, <2>1 DEF Filling
  <2>4. /\ cpc' = "open" => q = 0 /\ obj' = FALSE
        /\ cpc' # "done" /\ ci' <= Len(Outgoing)' /\ (cpc' = "post" => ci' = Len(Outgoing)')
        /\ (cpc' \notin {"copy", "post"} => ci' = 0)
        /\ NoQuit(file, q)' /\ Received' = Written(file, q * SIZE)'
    <3>1. obj' = obj
      BY DEF ServerOpen, ServerWaitEmpty, ServerLock, kernel
    <3> QED BY <1>1, <1>4, <2>1, <3>1 DEF Filling
  <2> QED BY <2>2, <2>3, <2>4 DEF Filling
<1>6. ASSUME ServerTurn PROVE ci' = 0 /\ (EmptyingChunk(q)' \/ EmptyingQuit(q)')
  BY <1>1, <1>6 DEF FirstRun, EmptyingChunk, EmptyingQuit
<1>7. ClientTurn \/ ServerTurn
  BY <1>1 DEF FirstRun
<1> QED BY <1>1, <1>2, <1>3, <1>5, <1>6, <1>7 DEF FirstRun

LEMMA RunServerTest ==
  ASSUME IInv, BreakInv, NEW q \in 0 .. Chunks(file), FirstRun(q), ServerTest
  PROVE  FirstRun(q)'
<1>1. /\ spc = "test"
      /\ spc' = IF ~mapped THEN "crashed" ELSE IF IsQuit(shm) THEN "unlink" ELSE "write"
      /\ Received' = Received
      /\ UNCHANGED <<file, full, empty, shm, cpc, pos, ci, si>>
  BY DEF ServerTest, Received, kernel, clientVars
<1>2. ServerTurn /\ ~ClientTurn /\ ~ClientTurn'
  BY <1>1, OneTurn DEF ServerTurn, ClientTurn
<1>3. empty = 0
  BY <1>1 DEF BreakInv, IInv, TypeOK, TokenInv, OneIf
<1>4. ci = 0 /\ (EmptyingChunk(q) \/ EmptyingQuit(q))
  BY <1>2 DEF FirstRun
<1>5. /\ file \in Seq(Byte) /\ Len(file) \in Nat /\ Chunks(file) \in Nat
      /\ q \in Nat /\ q <= Chunks(file) /\ SIZE \in Nat /\ SIZE >= 2
  BY FileIsSeq, ChunksFacts, SharedMemoryAssumption DEF IInv, TypeOK
<1>6. CASE ~mapped
  <2>1. spc' = "crashed" /\ ~ServerTurn'
    BY <1>1, <1>3, <1>6 DEF ServerTurn
  <2> QED BY <1>1, <1>2, <2>1 DEF FirstRun
<1>7. CASE mapped /\ IsQuit(shm)
  <2>1. spc' = "unlink" /\ ~ServerTurn'
    BY <1>1, <1>3, <1>7 DEF ServerTurn
  <2>2. Received = Delivered(file)
    <3>1. CASE EmptyingChunk(q)
      <4> DEFINE k == q - 1
      <4>1. /\ q >= 1 /\ IsQuit(Image(file, q)) /\ NoQuit(file, k)
            /\ Received = Written(file, k * SIZE)
        BY <1>1, <1>7, <3>1 DEF EmptyingChunk
      <4>2. k \in 0 .. Chunks(file) /\ k + 1 = q
        BY <1>5, <4>1
      <4> HIDE DEF k
      <4> QED BY <1>5, <4>1, <4>2, DeliveredIs
    <3>2. CASE EmptyingQuit(q)
      <4>1. pos = Len(file) /\ NoQuit(file, q) /\ Received = Written(file, q * SIZE)
        BY <3>2 DEF EmptyingQuit
      <4>2. q * SIZE \in Nat /\ (q < Chunks(file) <=> q * SIZE < Len(file))
        BY <1>5, ChunksFacts
      <4>3. q = Chunks(file)
        BY <1>5, <4>1, <4>2 DEF FirstRun
      <4> QED BY <1>5, <4>1, <4>3, DeliveredIs
    <3> QED BY <1>4, <3>1, <3>2
  <2> QED BY <1>1, <1>2, <2>1, <2>2 DEF FirstRun
<1>8. CASE mapped /\ ~IsQuit(shm)
  <2>1. spc' = "write" /\ ServerTurn'
    BY <1>1, <1>8 DEF ServerTurn
  <2>2. /\ EmptyingChunk(q) /\ q >= 1 /\ ~IsQuit(Image(file, q)) /\ NoQuit(file, q - 1)
        /\ Received = Written(file, (q - 1) * SIZE)
    BY <1>1, <1>4, <1>8 DEF EmptyingChunk, EmptyingQuit
  <2>3. NoQuit(file, q)
    <3>1. \A n \in 1 .. q : n \in 1 .. q - 1 \/ n = q
      BY <1>5
    <3> QED BY <2>2, <3>1 DEF NoQuit
  <2>4. si = 0 /\ (q - 1) * SIZE + 0 = (q - 1) * SIZE
    BY <1>1, <1>5, <2>2 DEF BreakInv
  <2>5. EmptyingChunk(q)'
    BY <1>1, <2>1, <2>2, <2>3, <2>4 DEF EmptyingChunk
  <2> QED BY <1>1, <1>2, <1>4, <2>1, <2>5 DEF FirstRun
<1> QED BY <1>6, <1>7, <1>8

(* A byte of an image is a byte. *)
LEMMA ImageBytes ==
  ASSUME NEW f \in File, NEW n \in 1 .. Chunks(f)
  PROVE  Image(f, n) \in [1 .. SIZE -> Byte]
<1> DEFINE k == n - 1
<1>1. Chunks(f) \in Nat /\ k \in Nat /\ k < Chunks(f) /\ k + 1 = n
  BY FileIsSeq, ChunksFacts
<1> HIDE DEF k
<1> DEFINE new == Copied(Chunk(f, k * SIZE))
<1>2. /\ Image(f, n) = [j \in 1 .. SIZE |-> IF j <= Len(new) THEN new[j] ELSE Held(f, k)[j]]
      /\ Chunk(f, k * SIZE) \in Seq(Byte)
  BY <1>1, NextImage, ChunkAt
<1>3. Len(new) \in Nat /\ \A j \in 1 .. Len(new) : new[j] \in Byte
  BY <1>2, CopiedFacts
<1>4. \A j \in 1 .. SIZE : Held(f, k)[j] \in Byte
  <2>1. CASE k = 0
    BY <2>1, BlankIsObject DEF Held
  <2>2. CASE k # 0
    <3> DEFINE l == k - 1
               c == Chunk(f, l * SIZE)
    <3>1. l \in Nat /\ l < Chunks(f) /\ l + 1 < Chunks(f) /\ k - 1 = l
      BY <1>1, <2>2
    <3> HIDE DEF l
    <3>2. c \in Seq(Byte) /\ Len(c) = SIZE
      BY <3>1, ChunkAt
    <3> HIDE DEF c
    <3>3. Len(Copied(c)) = SIZE /\ \A j \in 1 .. SIZE : Copied(c)[j] \in Byte
      BY <3>2, CopiedFacts
    <3>4. Held(f, k) = [j \in 1 .. SIZE |->
            IF j <= Len(Copied(c)) THEN Copied(c)[j]
            ELSE (IF k = 1 THEN Blank ELSE Copied(Chunk(f, (k - 2) * SIZE)))[j]]
      BY <2>2, <3>1 DEF Held, Image, c
    <3> QED BY <3>3, <3>4, SharedMemoryAssumption
  <2> QED BY <2>1, <2>2
<1> HIDE DEF new
<1> QED BY <1>2, <1>3, <1>4, SharedMemoryAssumption

LEMMA RunServerWrite ==
  ASSUME IInv, BreakInv, NEW q \in 0 .. Chunks(file), FirstRun(q), ServerWrite
  PROVE  /\ FirstRun(q)' /\ NoQuit(file, q)
         /\ \E k \in Nat : k + 1 <= q * SIZE /\ Received = Written(file, k)
                                              /\ Received' = Written(file, k + 1)
<1> DEFINE k == (q - 1) * SIZE + si
<1>1. /\ spc = "write" /\ si < SIZE /\ si' = si + 1 /\ out' = Append(out, shm[si + 1])
      /\ UNCHANGED <<file, full, empty, shm, cpc, pos, ci, spc>>
  BY DEF ServerWrite, kernel, clientVars
<1>2. ServerTurn /\ ServerTurn' /\ ~ClientTurn /\ ~ClientTurn'
  BY <1>1, OneTurn DEF ServerTurn, ClientTurn
<1>3. Received = out /\ Received' = Append(out, shm[si + 1])
  BY <1>1 DEF Received
<1>4. /\ ci = 0 /\ EmptyingChunk(q) /\ q >= 1 /\ shm = Image(file, q) /\ NoQuit(file, q)
      /\ Received = Written(file, k)
  BY <1>1, <1>2 DEF FirstRun, EmptyingChunk, EmptyingQuit
<1>5. /\ file \in File /\ Chunks(file) \in Nat /\ q \in Nat /\ q \in 1 .. Chunks(file)
      /\ si \in 0 .. SIZE - 1 /\ SIZE \in Nat /\ SIZE >= 2 /\ out \in Seq(Byte)
  BY <1>1, <1>4, FileIsSeq, ChunksFacts, SharedMemoryAssumption DEF IInv, TypeOK
<1>6. Image(file, q)[si + 1] \in Byte
  BY <1>5, ImageBytes
<1>7. Received' = Written(file, k + 1)
  <2>1. out = Written(file, (q - 1) * SIZE + si)
    BY <1>3, <1>4
  <2>2. Append(out, Image(file, q)[si + 1]) = Written(file, (q - 1) * SIZE + si + 1)
    BY <1>4, <1>5, <1>6, <2>1, OneByteMore
  <2> QED BY <1>3, <1>4, <2>2
<1>8. k \in Nat /\ k + 1 <= q * SIZE /\ k + 1 = (q - 1) * SIZE + (si + 1)
  <2>1. (q - 1) * SIZE = q * SIZE - SIZE /\ (q - 1) * SIZE \in Nat
    BY <1>4, <1>5
  <2> QED BY <1>5, <2>1
<1>9. Received' = Written(file, (q - 1) * SIZE + si')
  BY <1>1, <1>7, <1>8
<1> HIDE DEF k
<1>10. EmptyingChunk(q)'
  BY <1>1, <1>4, <1>9 DEF EmptyingChunk
<1>11. FirstRun(q)'
  BY <1>1, <1>2, <1>4, <1>10 DEF FirstRun
<1> QED BY <1>4, <1>7, <1>8, <1>11

LEMMA RunServerUnlock ==
  ASSUME IInv, BreakInv, NEW q \in 0 .. Chunks(file), FirstRun(q), ServerUnlock
  PROVE  FirstRun(q)'
<1>1. /\ spc = "write" /\ si = SIZE /\ spc' = "post" /\ Received' = Received
      /\ UNCHANGED <<file, full, empty, shm, cpc, pos, ci>>
  BY DEF ServerUnlock, Received, clientVars
<1>2. ServerTurn /\ ServerTurn' /\ ~ClientTurn /\ ~ClientTurn'
  BY <1>1, OneTurn DEF ServerTurn, ClientTurn
<1>3. /\ ci = 0 /\ EmptyingChunk(q) /\ Received = Written(file, (q - 1) * SIZE + SIZE)
  BY <1>1, <1>2 DEF FirstRun, EmptyingChunk, EmptyingQuit
<1>4. (q - 1) * SIZE + SIZE = q * SIZE
  BY FileIsSeq, ChunksFacts, SharedMemoryAssumption DEF IInv, TypeOK
<1>5. EmptyingChunk(q)'
  BY <1>1, <1>3, <1>4 DEF EmptyingChunk
<1> QED BY <1>1, <1>2, <1>3, <1>5 DEF FirstRun

LEMMA RunServerPost ==
  ASSUME IInv, BreakInv, NEW q \in 0 .. Chunks(file), FirstRun(q), ServerPost
  PROVE  FirstRun(q)'
<1>1. /\ spc = "post" /\ spc' = "wait" /\ Received' = Received /\ full' = full + 1
      /\ UNCHANGED <<file, empty, shm, cpc, pos, ci, obj>>
  BY DEF ServerPost, Received, clientVars
<1>2. ServerTurn /\ ~ClientTurn
  BY <1>1, OneTurn DEF ServerTurn
<1>3. full = 0 /\ empty = 0
  BY <1>1 DEF BreakInv, IInv, TypeOK, TokenInv, OneIf
<1>4. ClientTurn' /\ ~ServerTurn'
  BY <1>1, <1>3 DEF ServerTurn, ClientTurn
<1>5. /\ ci = 0 /\ cpc = "wait" /\ q >= 1 /\ shm = Image(file, q) /\ NoQuit(file, q)
      /\ Received = Written(file, q * SIZE)
  BY <1>1, <1>2 DEF FirstRun, EmptyingChunk, EmptyingQuit
<1>6. shm = [j \in 1 .. SIZE |-> Held(file, q)[j]] /\ q \in Nat
  BY <1>5, ImageIsHeld, FileIsSeq, ChunksFacts DEF Held, IInv, TypeOK
<1>7. shm' = [j \in 1 .. SIZE |-> IF j <= ci THEN Outgoing[j] ELSE Held(file, q)[j]]'
  <2>1. ci' = 0 /\ shm' = [j \in 1 .. SIZE |-> Held(file', q)[j]]
    BY <1>1, <1>5, <1>6
  <2> QED BY <2>1
<1>8. 0 <= Len(Outgoing)'
  <2>1. Outgoing' = Outgoing
    BY <1>1 DEF Outgoing
  <2> QED BY <2>1, OutgoingBounds, SharedMemoryAssumption DEF IInv
<1>9. Filling(q)'
  BY <1>1, <1>5, <1>7, <1>8 DEF Filling
<1> QED BY <1>1, <1>4, <1>9 DEF FirstRun

LEMMA RunServerUnlink ==
  ASSUME IInv, BreakInv, NEW q \in 0 .. Chunks(file), FirstRun(q), ServerUnlink
  PROVE  FirstRun(q)' /\ Received = Delivered(file) /\ Received' = Received
<1>1. /\ spc = "unlink" /\ spc' = "done" /\ Received' = Received
      /\ UNCHANGED <<file, full, empty, shm, cpc, pos, ci>>
  BY DEF ServerUnlink, Received, clientVars
<1>2. ~ClientTurn /\ ~ServerTurn /\ ~ClientTurn' /\ ~ServerTurn'
  BY <1>1 DEF BreakInv, ClientTurn, ServerTurn
<1> QED BY <1>1, <1>2 DEF FirstRun

LEMMA FirstRunKeeps ==
  ASSUME IInv, OutputInv, [Next]_vars
  PROVE  FirstRunInv'
<1> SUFFICES ASSUME run' = 1 PROVE \E n \in 0 .. Chunks(file') : FirstRun(n)'
  BY DEF FirstRunInv
<1>1. CASE ClientStep \/ ServerStep
  <2>1. run' = run /\ file' = file
    BY <1>1 DEF ClientStep, ClientOpen, ClientWaitFull, ClientLock, ClientCopy, ClientUnlock,
                ClientPost, ServerStep, ServerOpen, ServerWaitEmpty, ServerLock, ServerTest,
                ServerWrite, ServerUnlock, ServerPost, ServerUnlink
  <2>2. PICK q \in 0 .. Chunks(file) : FirstRun(q)
    BY <2>1 DEF OutputInv, FirstRunInv
  <2>3. BreakInv
    BY DEF OutputInv
  <2>4. ASSUME ClientStep PROVE \E n \in 0 .. Chunks(file) : FirstRun(n)'
    BY <2>2, <2>3, <2>4, RunClientOpen, RunClientTurn, RunClientCopy, RunClientPost DEF ClientStep
  <2>5. ASSUME ServerStep PROVE \E n \in 0 .. Chunks(file) : FirstRun(n)'
    BY <2>2, <2>3, <2>5, RunServerWaits, RunServerTest, RunServerWrite, RunServerUnlock,
       RunServerPost, RunServerUnlink DEF ServerStep
  <2> QED BY <1>1, <2>1, <2>4, <2>5
<1>2. CASE NextRun
  BY <1>2 DEF NextRun, IInv, TypeOK, OutputInv, LaterRunInv
<1>3. CASE UNCHANGED vars
  BY <1>3 DEF vars, kernel, clientVars, serverVars, OutputInv, FirstRunInv, FirstRun, Filling,
              EmptyingChunk, EmptyingQuit, ClientTurn, ServerTurn, Received, Outgoing
<1> QED BY <1>1, <1>2, <1>3 DEF Next

(* What the object and the output hold, in every state of every run. *)
THEOREM OutputInvariance == Spec => []OutputInv
<1>1. IInv /\ IInv' /\ OutputInv /\ [Next]_vars => OutputInv'
  BY BreakKeeps, FirstRunKeeps, LaterRunKeeps DEF OutputInv
<1> QED BY <1>1, OutputStart, Invariance, PTL DEF Spec

Outcome(p) == CASE p = "done"    -> "ended"
                [] p = "crashed" -> "failed"
                [] OTHER         -> "copying"

LEMMA OutcomeIs ==
  ASSUME NEW p
  PROVE  /\ p \in ServerPhase \ {"done", "crashed"} => Outcome(p) = "copying"
         /\ p = "done" => Outcome(p) = "ended"
         /\ p = "crashed" => Outcome(p) = "failed"
BY DEF Outcome, ServerPhase

(* A step of the two programs is a step of the transfer of Delivered(file):   *)
(* each byte the server writes is received, its unlink is the end, a server   *)
(* without a mapping fails, and a new run is another transfer.                *)
LEMMA TransferStep ==
  IInv /\ IInv' /\ OutputInv /\ [Next]_vars => [Transfer!FTNext]_(Transfer!ftVars)
<1> SUFFICES ASSUME IInv, IInv', OutputInv, [Next]_vars PROVE [Transfer!FTNext]_(Transfer!ftVars)
  OBVIOUS
<1> DEFINE d == Delivered(file)
<1>1. spc \in ServerPhase /\ spc' \in ServerPhase /\ file \in Seq(Byte) /\ BreakInv
  BY FileIsSeq DEF IInv, TypeOK, OutputInv
<1>2. ASSUME run # 1 PROVE spc \in {"open", "wait"}
  BY <1>2 DEF OutputInv, LaterRunInv
<1>3. ASSUME file' = file, Received' = Received, Outcome(spc') = Outcome(spc)
      PROVE  UNCHANGED Transfer!ftVars
  <2>1. Delivered(file)' = Delivered(file)
    BY <1>3
  <2> QED BY <1>3, <2>1, SMTT(20) DEF Transfer!ftVars, Outcome
<1>4. CASE \/ ClientStep \/ ServerOpen \/ ServerWaitEmpty \/ ServerLock
           \/ ServerUnlock \/ ServerPost \/ UNCHANGED vars
  <2>1. file' = file /\ Received' = Received
    BY <1>4 DEF ClientStep, ClientOpen, ClientWaitFull, ClientLock, ClientCopy, ClientUnlock,
                ClientPost, ServerOpen, ServerWaitEmpty, ServerLock, ServerUnlock, ServerPost,
                Received, serverVars, vars
  <2>2. spc' = spc \/ (spc \notin {"done", "crashed"} /\ spc' \notin {"done", "crashed"})
    BY <1>4 DEF ClientStep, ClientOpen, ClientWaitFull, ClientLock, ClientCopy, ClientUnlock,
                ClientPost, ServerOpen, ServerWaitEmpty, ServerLock, ServerUnlock, ServerPost,
                serverVars, vars
  <2>3. Outcome(spc') = Outcome(spc)
    BY <1>1, <2>2, OutcomeIs
  <2> QED BY <1>3, <2>1, <2>3
<1>5. CASE ServerTest
  <2>1. file' = file /\ Received' = Received /\ spc = "test"
    BY <1>5 DEF ServerTest, Received
  <2>2. CASE mapped
    <3>1. spc' \in {"unlink", "write"}
      BY <1>5, <2>2 DEF ServerTest
    <3>2. Outcome(spc') = Outcome(spc)
      BY <1>1, <2>1, <3>1, OutcomeIs
    <3> QED BY <1>3, <2>1, <3>2
  <2>3. CASE ~mapped
    <3>1. Received = <<>> /\ spc' = "crashed"
      BY <1>1, <1>5, <2>3 DEF BreakInv, ServerTest
    <3>2. Outcome(spc) = "copying" /\ Outcome(spc') = "failed"
      BY <1>1, <2>1, <3>1, OutcomeIs
    <3> QED BY <2>1, <3>1, <3>2 DEF Transfer!FTNext, Transfer!Fail, Outcome
  <2> QED BY <2>2, <2>3
<1>6. CASE ServerWrite
  <2>1. spc = "write" /\ spc' = "write" /\ file' = file
    BY <1>6 DEF ServerWrite
  <2>2. PICK q \in 0 .. Chunks(file) : FirstRun(q)
    BY <1>2, <2>1 DEF OutputInv, FirstRunInv
  <2>3. /\ NoQuit(file, q)
        /\ \E k \in Nat : k + 1 <= q * SIZE /\ Received = Written(file, k)
                                             /\ Received' = Written(file, k + 1)
    BY <1>1, <1>6, <2>2, RunServerWrite
  <2>4. PICK k \in Nat : k + 1 <= q * SIZE /\ Received = Written(file, k)
                                            /\ Received' = Written(file, k + 1)
    BY <2>3
  <2> DEFINE last == LastWritten(file)
             n == last * SIZE
  <2>5. last \in Nat /\ q \in Nat /\ q <= last /\ SIZE \in Nat
    BY <1>1, <2>3, LastWrittenFacts, ChunksFacts, SharedMemoryAssumption
  <2>6. d = Written(file, n)
    BY DEF Delivered
  <2> HIDE DEF last, d
  <2>7. n \in Nat /\ q * SIZE <= n /\ q * SIZE \in Nat
    BY <2>5
  <2> HIDE DEF n
  <2>8. k \in 0 .. n /\ k + 1 \in 0 .. n
    BY <2>4, <2>7
  <2>9. Len(Received) = k
    BY <2>4, WrittenPrefix
  <2>10. Len(d) = n /\ Received' = SubSeq(d, 1, k + 1)
    BY <2>4, <2>6, <2>7, <2>8, WrittenPrefix
  <2>11. \E m \in Len(Received) + 1 .. Len(d) : Received' = SubSeq(d, 1, m)
    BY <2>7, <2>8, <2>9, <2>10
  <2>12. Outcome(spc) = "copying" /\ Outcome(spc') = "copying"
    BY <1>1, <2>1, OutcomeIs
  <2> QED BY <2>1, <2>11, <2>12 DEF Transfer!FTNext, Transfer!Receive, Outcome, d
<1>7. CASE ServerUnlink
  <2>1. spc = "unlink" /\ spc' = "done" /\ file' = file
    BY <1>7 DEF ServerUnlink
  <2>2. PICK q \in 0 .. Chunks(file) : FirstRun(q)
    BY <1>2, <2>1 DEF OutputInv, FirstRunInv
  <2>3. Received = d /\ Received' = Received
    BY <1>1, <1>7, <2>2, RunServerUnlink
  <2>4. Outcome(spc) = "copying" /\ Outcome(spc') = "ended"
    BY <1>1, <2>1, OutcomeIs
  <2> QED BY <2>1, <2>3, <2>4 DEF Transfer!FTNext, Transfer!End, Outcome
<1>8. CASE NextRun
  <2>1. spc = "done" /\ spc' = "open" /\ Received' = <<>>
    BY <1>8 DEF NextRun, Received
  <2>2. Outcome(spc) = "ended" /\ Outcome(spc') = "copying"
    BY <1>1, <2>1, OutcomeIs
  <2> QED BY <2>1, <2>2 DEF Transfer!FTNext, Transfer!Again, Outcome
<1> QED BY <1>4, <1>5, <1>6, <1>7, <1>8 DEF Next, ServerStep

(* The shared memory transfer implements, in every run, the transfer of what  *)
(* strncpy and the test for "quit" leave of a file (client.c, server.c).      *)
THEOREM TransferRefinement == Spec => TransferImplemented
<1>1. Init => Transfer!FTInit
  BY DEF Init, Transfer!FTInit, Received
<1>2. IInv /\ IInv' /\ OutputInv /\ [Next]_vars => [Transfer!FTNext]_(Transfer!ftVars)
  BY TransferStep
<1> QED
  BY <1>1, <1>2, Invariance, OutputInvariance, PTL DEF Spec, TransferImplemented, Transfer!FTSpec

---------------------------------------------------------------------------
(* The threads of monte_carlo.                                                *)

(* The function starts in a state that satisfies the inductive invariant.    *)
LEMMA InitThreads ==
  ASSUME MonteCarloInit
  PROVE  ThreadsInv
<1> USE MonteCarloAssumption DEF MonteCarloInit, Zero, Threads
<1>1. MonteCarloTypeOK
  BY DEF MonteCarloTypeOK, Sums, ThreadPhase
<1>2. OwnerInv /\ MainInv
  BY DEF OwnerInv, MainInv, NoOne
<1>3. NoLostUpdate
  BY DEF NoLostUpdate, Done
<1> QED
  BY <1>1, <1>2, <1>3 DEF ThreadsInv

(* No step of main disturbs the invariant: pthread_create starts a thread    *)
(* before its "+=", pthread_join waits for one that is over.                 *)
LEMMA MainKeeps ==
  ASSUME ThreadsInv, MainStep
  PROVE  ThreadsInv'
<1> USE MonteCarloAssumption DEF ThreadsInv, MonteCarloTypeOK, Threads, ThreadPhase
<1>1. CASE Create
  <2>1. i \in Threads /\ tpc[i] = "none" /\ i \notin refused
    BY <1>1 DEF Create, MainInv
  <2>2. MonteCarloTypeOK'
    BY <1>1, <2>1 DEF Create
  <2>3. OwnerInv'
    BY <1>1, <2>1 DEF Create, OwnerInv
  <2>4. MainInv'
    BY <1>1, <2>1 DEF Create, MainInv
  <2>5. NoLostUpdate'
    BY <1>1, <2>1 DEF Create, NoLostUpdate, Done
  <2> QED
    BY <2>2, <2>3, <2>4, <2>5
<1>2. CASE CreateRefused
  <2>1. i \in Threads /\ tpc[i] = "none" /\ i \notin refused
    BY <1>2 DEF CreateRefused, MainInv
  <2>2. MonteCarloTypeOK' /\ OwnerInv' /\ NoLostUpdate'
    BY <1>2, <2>1 DEF CreateRefused, OwnerInv, NoLostUpdate, Done
  <2>3. MainInv'
    BY <1>2, <2>1 DEF CreateRefused, MainInv
  <2> QED
    BY <2>2, <2>3
<1>3. CASE AllCreated
  BY <1>3 DEF AllCreated, OwnerInv, MainInv, NoLostUpdate, Done
<1>4. CASE Join
  BY <1>4 DEF Join, OwnerInv, MainInv, NoLostUpdate, Done
<1>5. CASE JoinGarbage
  BY <1>5 DEF JoinGarbage, OwnerInv, MainInv, NoLostUpdate, Done
<1>6. CASE Return
  BY <1>6 DEF Return, OwnerInv, MainInv, NoLostUpdate, Done
<1> QED
  BY <1>1, <1>2, <1>3, <1>4, <1>5, <1>6 DEF MainStep

(* No step of a thread disturbs the invariant: between its load and its      *)
(* store of res_square the mutex keeps the others out.                       *)
LEMMA ThreadKeeps ==
  ASSUME ThreadsInv, NEW t \in Threads, ThreadStep(t)
  PROVE  ThreadsInv'
<1> USE DEF ThreadsInv, MonteCarloTypeOK, ThreadPhase, Go
<1>0. NoOne \notin Threads
  BY MonteCarloAssumption DEF Threads, NoOne
<1>1. CASE ReadArgs(t)
  BY <1>1 DEF ReadArgs, OwnerInv, MainInv, NoLostUpdate, Done
<1>2. CASE CountPoints(t)
  BY <1>2 DEF CountPoints, OwnerInv, MainInv, NoLostUpdate, Done
<1>3. CASE Lock(t)
  BY <1>0, <1>3 DEF Lock, OwnerInv, MainInv, NoLostUpdate, Done
<1>4. CASE Load(t)
  BY <1>4 DEF Load, OwnerInv, MainInv, NoLostUpdate, Done
<1>5. CASE Store(t)
  <2>1. owner = t /\ loaded[t] = res_square /\ tpc[t] = "store"
    BY <1>5 DEF Store, OwnerInv
  <2>2. res_square' = [res_square EXCEPT ![t] = @ + 1]
    BY <1>5, <2>1 DEF Store
  <2>3. MonteCarloTypeOK'
    BY <1>5, <2>2 DEF Store, Sums
  <2>4. OwnerInv'
    BY <1>5, <2>1 DEF Store, OwnerInv
  <2>5. MainInv'
    BY <1>5, <2>1 DEF Store, MainInv
  <2>6. NoLostUpdate'
    BY <1>5, <2>1, <2>2 DEF Store, NoLostUpdate, Done, Sums
  <2> QED
    BY <2>3, <2>4, <2>5, <2>6
<1>6. CASE Unlock(t)
  BY <1>0, <1>6 DEF Unlock, OwnerInv, MainInv, NoLostUpdate, Done
<1> QED
  BY <1>1, <1>2, <1>3, <1>4, <1>5, <1>6 DEF ThreadStep

(* In every reachable state, for any number of threads, the mutex protects   *)
(* res_square and main knows which threads are over.                         *)
THEOREM ThreadsInvariance == MonteCarloSpec => []ThreadsInv
<1>1. MonteCarloInit => ThreadsInv
  BY InitThreads
<1>2. ThreadsInv /\ [MonteCarloNext]_mcVars => ThreadsInv'
  <2> SUFFICES ASSUME ThreadsInv, [MonteCarloNext]_mcVars PROVE ThreadsInv'
    OBVIOUS
  <2>1. CASE UNCHANGED mcVars
    BY <2>1 DEF mcVars, ThreadsInv, MonteCarloTypeOK, OwnerInv, MainInv, NoLostUpdate, Done
  <2> QED
    BY <2>1, MainKeeps, ThreadKeeps DEF MonteCarloNext
<1> QED
  BY <1>1, <1>2, PTL DEF MonteCarloSpec

(* Every variable of monte_carlo keeps its type.                             *)
THEOREM ThreadsTypeCorrect == MonteCarloSpec => []MonteCarloTypeOK
<1>1. ThreadsInv => MonteCarloTypeOK
  BY DEF ThreadsInv
<1> QED
  BY <1>1, ThreadsInvariance, PTL

(* res_square always holds exactly the parts of the threads that are behind  *)
(* their "+=".                                                               *)
THEOREM NoUpdateLost == MonteCarloSpec => []NoLostUpdate
<1>1. ThreadsInv => NoLostUpdate
  BY DEF ThreadsInv
<1> QED
  BY <1>1, ThreadsInvariance, PTL

(* monte_carlo returns only when every thread that exists has added its part. *)
THEOREM WholeSumReturned == MonteCarloSpec => []ReturnsWholeSum
<1>1. ThreadsInv => ReturnsWholeSum
  BY DEF ThreadsInv, MainInv, NoLostUpdate, ReturnsWholeSum, Done
<1> QED
  BY <1>1, ThreadsInvariance, PTL

(* No thread reads its arguments from the stack of a function that is over.  *)
THEOREM ArgsAlive == MonteCarloSpec => []ArgsOutliveReaders
<1>1. ThreadsInv => ArgsOutliveReaders
  BY DEF ThreadsInv, MainInv, ArgsOutliveReaders
<1> QED
  BY <1>1, ThreadsInvariance, PTL

(* Every step of main or a thread is a step of the atomic sum, or none.      *)
LEMMA SumStep ==
  ASSUME ThreadsInv, [MonteCarloNext]_mcVars
  PROVE  [Sum!PSNext]_(Sum!psVars)
<1> USE DEF ThreadsInv, MonteCarloTypeOK, ThreadPhase
<1> DEFINE pend == {t \in Threads : ~Done(t)} \ refused
           end  == IF mpc \in {"returned", "crashed"} THEN mpc ELSE "running"
<1>1. ASSUME pend' = pend, end' = end, UNCHANGED res_square
      PROVE  UNCHANGED Sum!psVars
  BY <1>1 DEF Sum!psVars
<1>2. CASE UNCHANGED mcVars
  BY <1>1, <1>2 DEF mcVars, Done
<1>3. CASE MainStep
  <2>1. CASE Create
    <3>1. i \in Threads /\ ~Done(i)
      BY <2>1, MonteCarloAssumption DEF Create, MainInv, Threads, Done
    <3> QED
      BY <1>1, <2>1, <3>1 DEF Create, Done
  <2>2. CASE CreateRefused
    <3>1. i \in Threads /\ ~Done(i) /\ i \notin refused
      BY <2>2, MonteCarloAssumption DEF CreateRefused, MainInv, Threads, Done
    <3>2. pend' = pend \ {i} /\ i \in pend /\ end' = end /\ end = "running"
      BY <2>2, <3>1 DEF CreateRefused, Done
    <3> QED
      BY <2>2, <3>1, <3>2 DEF CreateRefused, Sum!PSNext, Sum!Drop
  <2>3. CASE AllCreated \/ Join
    BY <1>1, <2>3 DEF AllCreated, Join, Done
  <2>4. CASE JoinGarbage
    <3>1. i \in Threads /\ i \in refused /\ res_square[i] = 0 /\ i \notin pend /\ pend' = pend
      BY <2>4, MonteCarloAssumption DEF JoinGarbage, MainInv, NoLostUpdate, Done, Threads
    <3>2. CASE mpc' = "crashed"
      BY <2>4, <3>1, <3>2 DEF JoinGarbage, Sum!PSNext, Sum!Crash
    <3>3. CASE UNCHANGED mpc
      BY <1>1, <2>4, <3>1, <3>3 DEF JoinGarbage
    <3> QED
      BY <2>4, <3>2, <3>3 DEF JoinGarbage
  <2>5. CASE Return
    <3>1. \A t \in Threads : t \in refused \/ tpc[t] = "exited"
      BY <2>5, MonteCarloAssumption DEF Return, MainInv, Threads
    <3>2. pend = {} /\ pend' = pend
      BY <2>5, <3>1 DEF Return, Done
    <3> QED
      BY <2>5, <3>2 DEF Return, Sum!PSNext, Sum!Return
  <2> QED
    BY <1>3, <2>1, <2>2, <2>3, <2>4, <2>5 DEF MainStep
<1>4. ASSUME NEW t \in Threads, ThreadStep(t)
      PROVE  [Sum!PSNext]_(Sum!psVars)
  <2>1. CASE ReadArgs(t) \/ CountPoints(t) \/ Lock(t) \/ Load(t) \/ Unlock(t)
    BY <1>1, <2>1 DEF ReadArgs, CountPoints, Lock, Load, Unlock, Go, Done
  <2>2. CASE Store(t)
    <3>1. loaded[t] = res_square /\ t \notin refused /\ mpc \notin {"crashed", "returned"}
      BY <2>2 DEF Store, Go, OwnerInv, MainInv
    <3>2. t \in pend /\ pend' = pend \ {t}
      BY <2>2, <3>1 DEF Store, Go, Done
    <3> QED
      BY <2>2, <3>1, <3>2 DEF Store, Go, Sum!PSNext, Sum!Add
  <2> QED
    BY <1>4, <2>1, <2>2 DEF ThreadStep
<1> QED
  BY <1>2, <1>3, <1>4 DEF MonteCarloNext

(* monte_carlo implements the atomic sum: load, store, lock and join behave   *)
(* as if every part were added in one indivisible step.                      *)
THEOREM SumRefinement == MonteCarloSpec => SumSteps
<1>1. MonteCarloInit => Sum!PSInit
  BY DEF MonteCarloInit, Sum!PSInit, Zero, Done
<1>2. ThreadsInv /\ [MonteCarloNext]_mcVars => [Sum!PSNext]_(Sum!psVars)
  BY SumStep
<1> QED
  BY <1>1, <1>2, ThreadsInvariance, PTL DEF MonteCarloSpec, SumSteps, Sum!PSSafety
=============================================================================
