----------------------------- MODULE ShellProof -----------------------------
(***************************************************************************)
(* What holds of the shell for all lines, programs and sizes of a pipe:    *)
(* who holds which end of a pipe, how many descriptors the shell has, that *)
(* a filter gets all of its input and that lines are run as written.       *)
(*                                                                         *)
(* The thread through it: the j-th child is the one forked with the j-th   *)
(* pipe.  It alone holds the write end of that pipe, apart from the shell  *)
(* until its next step, and only the child after it can read from it.      *)
(***************************************************************************)
EXTENDS Shell, SequenceTheorems, FiniteSetTheorems, WellFoundedInduction, TLAPS

End == Nat \X {"r", "w"}

(* A child, whatever its name is. *)
IsProc(r) ==
  /\ r = [name |-> r.name, in |-> r.in, out |-> r.out, ends |-> r.ends,
          left |-> r.left, took |-> r.took, state |-> r.state]
  /\ r.in \in Nat /\ r.out \in Nat /\ r.left \in Nat /\ r.took \in Nat
  /\ r.ends \subseteq End
  /\ r.state \in {"running", "ended", "killed"}

TypeOK ==
  /\ waits \in BOOLEAN
  /\ spc \in {"prompt", "start", "wait", "killed", "exited"}
  /\ typed \in Seq(Range(typed))
  /\ i \in Nat \ {0} /\ npipes \in Nat /\ fdin \in Nat /\ p \in Nat \X Nat
  /\ IsFiniteSet(DOMAIN fds) /\ DOMAIN fds \subseteq Nat
  /\ fds \in [DOMAIN fds -> End]
  /\ held \in Seq(0 .. Capacity) /\ Len(held) = npipes
  /\ procs \in Seq(Range(procs)) /\ Len(procs) = npipes
  /\ \A j \in 1 .. npipes : IsProc(procs[j])

(* The shell's own ends: those of p while it waits, the read end of the last  *)
(* pipe between two commands, and read ends it has left behind.               *)
FdInv ==
  /\ \A d \in DOMAIN fds : fds[d][1] \in 1 .. npipes
  /\ Alive => \A d \in DOMAIN fds : fds[d][2] = "w" => spc = "wait" /\ d = p[2]
  /\ spc = "wait" =>
       /\ p[1] \in DOMAIN fds /\ p[2] \in DOMAIN fds /\ p[1] # p[2]
       /\ fds[p[1]] = <<npipes, "r">> /\ fds[p[2]] = <<npipes, "w">>
       /\ i > 1 => fdin \in DOMAIN fds /\ fdin # p[1] /\ fdin # p[2]
  /\ spc = "start" /\ i > 1 => fdin \in DOMAIN fds /\ fds[fdin] = <<npipes, "r">>

(* How many they are. *)
Own == CASE spc = "prompt" -> 0
         [] spc = "start"  -> IF i > 1 THEN 1 ELSE 0
         [] OTHER          -> IF i > 1 THEN 3 ELSE 2

CountInv ==
  Alive =>
    /\ spc # "prompt" => Len(typed) >= 1
    /\ Cardinality(DOMAIN fds) = Leaks + Own

(* The descriptors of the first line. *)
Kept == IF i = 1 THEN {} ELSE IF i = 3 THEN {4} ELSE {3}

FirstLineInv ==
  Len(typed) = 1 /\ i <= 4 =>
    /\ spc = "start" => DOMAIN fds = Kept /\ (i > 1 => fdin \in Kept)
    /\ spc = "wait"  => /\ p = <<<<3, 4>>, <<4, 5>>, <<3, 5>>, <<4, 5>>>>[i]
                        /\ DOMAIN fds = Kept \cup {p[1], p[2]}
                        /\ i > 1 => fdin \in Kept

(* What a child inherits and is connected with. *)
ProcInv ==
  \A j \in 1 .. Len(procs) :
    /\ procs[j].in \in {0, j - 1} /\ procs[j].out \in {0, j}
    /\ procs[j].in # 0 => procs[j - 1].out = j - 1 /\ <<j - 1, "r">> \in procs[j].ends
    /\ <<j, "w">> \in procs[j].ends
    /\ \A e \in procs[j].ends : e[1] \in 1 .. j /\ (e[2] = "w" => e[1] = j)

(* The pipe of the last child is the input of the next, if there is one. *)
LinkInv ==
  /\ spc = "wait" => npipes > 0 /\ (i < Len(cmd) => procs[npipes].out = npipes)
  /\ spc = "start" /\ i > 1 => npipes > 0 /\ procs[npipes].out = npipes

(* What is written to pipe j is in it or with its reader. *)
Taken(j) == IF j < Len(procs) /\ procs[j + 1].in = j THEN procs[j + 1].took ELSE 0

FlowInv ==
  \A j \in 1 .. Len(procs) :
    /\ procs[j].state = "ended" => procs[j].left = 0
    /\ procs[j].out # 0 => procs[j].left + held[j] + Taken(j) = Total(j)

(* A child is killed when nobody is left to read, and nobody ever will be. *)
KillInv ==
  \A j \in 1 .. Len(procs) : procs[j].state = "killed" => ~Held(<<j, "r">>)

(* With a waitpid() that waits only the last child runs. *)
RunInv ==
  waits => \A j \in 1 .. Len(procs) : Runs(j) => spc = "wait" /\ j = Len(procs)

Inv ==
  /\ TypeOK
  /\ FdInv /\ CountInv /\ FirstLineInv
  /\ ProcInv /\ LinkInv /\ FlowInv /\ KillInv
  /\ WholeInput /\ RunInv /\ EndedFits
---------------------------------------------------------------------------
(* Free(n) is the n-th number from 3 on that is no descriptor yet, counted    *)
(* from 0.                                                                    *)
Gap(d) == (3 .. d - 1) \ DOMAIN fds

LEMMA GapFinite ==
  ASSUME NEW d \in Nat
  PROVE  IsFiniteSet(Gap(d)) /\ Cardinality(Gap(d)) \in Nat
<1>1. IsFiniteSet(3 .. d - 1)
  <2>1. 3 \in Int /\ d - 1 \in Int
    OBVIOUS
  <2> QED BY <2>1, FS_Interval, Zenon
<1>2. IsFiniteSet(Gap(d))
  BY <1>1, FS_Difference DEF Gap
<1> QED BY <1>2, FS_CardinalityType

(* A larger number that is free too has more before it. *)
LEMMA GapGrows ==
  ASSUME NEW d \in Nat, NEW e \in Nat, 3 <= d, d < e, d \notin DOMAIN fds
  PROVE  Cardinality(Gap(d)) < Cardinality(Gap(e))
<1>1. Gap(d) \cup {d} \subseteq Gap(e) /\ d \notin Gap(d)
  BY DEF Gap
<1>2. /\ IsFiniteSet(Gap(d)) /\ Cardinality(Gap(d)) \in Nat
      /\ IsFiniteSet(Gap(e)) /\ Cardinality(Gap(e)) \in Nat
  BY GapFinite
<1>3. Cardinality(Gap(d) \cup {d}) = Cardinality(Gap(d)) + 1
  BY <1>1, <1>2, FS_AddElement
<1>4. Cardinality(Gap(d) \cup {d}) <= Cardinality(Gap(e))
  BY <1>1, <1>2, FS_Subset
<1> QED BY <1>2, <1>3, <1>4

LEMMA FreeIs ==
  ASSUME TypeOK, NEW n \in Nat, NEW d \in 3 .. Cardinality(DOMAIN fds) + 4,
         d \notin DOMAIN fds, Cardinality(Gap(d)) = n
  PROVE  Free(n) = d
<1>1. Cardinality(DOMAIN fds) \in Nat
  BY FS_CardinalityType DEF TypeOK
<1>2. \A e \in 3 .. Cardinality(DOMAIN fds) + 4 :
        e \notin DOMAIN fds /\ Cardinality(Gap(e)) = n => e = d
  <2> SUFFICES ASSUME NEW e \in 3 .. Cardinality(DOMAIN fds) + 4,
                      e \notin DOMAIN fds, Cardinality(Gap(e)) = n, e # d
               PROVE  FALSE
    OBVIOUS
  <2>1. d \in Nat /\ e \in Nat /\ 3 <= d /\ 3 <= e
    BY <1>1
  <2>2. CASE d < e
    BY <2>1, <2>2, GapGrows
  <2>3. CASE e < d
    BY <2>1, <2>3, GapGrows
  <2> QED BY <2>1, <2>2, <2>3
<1> DEFINE Chosen == CHOOSE e \in 3 .. Cardinality(DOMAIN fds) + 4 :
                       e \notin DOMAIN fds /\ Cardinality(Gap(e)) = n
<1>3. Free(n) = Chosen
  BY DEF Free, Gap
<1>4. Chosen = d
  BY <1>2
<1> QED BY <1>3, <1>4

(* A set of numbers that is not empty has a least one. *)
LEMMA HasLeast ==
  ASSUME NEW S \in SUBSET Nat, S # {}
  PROVE  \E m \in S : \A n \in S : m <= n
<1>1. PICK m \in S : \A n \in S : <<n, m>> \notin OpToRel(<, Nat)
  BY WFMin, NatLessThanWellFounded
<1>2. ASSUME NEW n \in S PROVE ~(n < m)
  BY <1>1, Zenon DEF OpToRel
<1> QED BY <1>2

LEMMA FromThree ==
  ASSUME NEW b \in Nat, b >= 3
  PROVE  IsFiniteSet(3 .. b) /\ Cardinality(3 .. b) = b - 2
<1>1. 3 \in Int /\ b \in Int
  OBVIOUS
<1>2. IsFiniteSet(3 .. b) /\ Cardinality(3 .. b) = IF 3 > b THEN 0 ELSE b - 3 + 1
  BY <1>1, FS_Interval, Zenon
<1> QED BY <1>2

(* The two descriptors a pipe gets: there is room for them in any case. *)
LEMMA FreeFacts ==
  ASSUME TypeOK
  PROVE  /\ Free(0) \in Nat /\ Free(1) \in Nat
         /\ Free(0) \notin DOMAIN fds /\ Free(1) \notin DOMAIN fds
         /\ Free(0) # Free(1)
<1> DEFINE c == Cardinality(DOMAIN fds)
           all == 3 .. c + 4
           some == all \ DOMAIN fds
<1>1. c \in Nat /\ IsFiniteSet(DOMAIN fds)
  BY FS_CardinalityType DEF TypeOK
<1> HIDE DEF c
<1>2. IsFiniteSet(all) /\ Cardinality(all) = c + 2
  <2>1. c + 4 \in Nat /\ c + 4 >= 3
    BY <1>1
  <2>2. IsFiniteSet(all) /\ Cardinality(all) = (c + 4) - 2
    BY <2>1, FromThree
  <2> QED BY <1>1, <2>2
<1>3. IsFiniteSet(some) /\ Cardinality(some) >= 2
  <2>1. /\ IsFiniteSet(some)
        /\ Cardinality(some) = Cardinality(all) - Cardinality(all \cap DOMAIN fds)
    BY <1>2, FS_Difference
  <2>2. /\ IsFiniteSet(all \cap DOMAIN fds)
        /\ Cardinality(all \cap DOMAIN fds) <= c
    BY <1>1, FS_Intersection DEF c
  <2>3. Cardinality(all \cap DOMAIN fds) \in Nat
    BY <2>2, FS_CardinalityType
  <2> QED BY <1>1, <1>2, <2>1, <2>2, <2>3
<1>4. some # {} /\ some \in SUBSET Nat
  <2>1. some # {}
    BY <1>3, FS_EmptySet
  <2> QED BY <1>1, <2>1
<1>5. PICK m \in some : \A n \in some : m <= n
  BY <1>4, HasLeast
<1>6. Gap(m) = {}
  BY <1>1, <1>5 DEF Gap
<1>7. Cardinality(Gap(m)) = 0
  BY <1>6, FS_EmptySet
<1>8. Free(0) = m
  BY <1>1, <1>5, <1>7, FreeIs DEF c
<1> DEFINE others == some \ {m}
<1>9. others # {} /\ others \in SUBSET Nat
  <2> HIDE DEF some
  <2>1. /\ IsFiniteSet(others)
        /\ Cardinality(others) = IF m \in some THEN Cardinality(some) - 1 ELSE Cardinality(some)
    BY <1>3, FS_RemoveElement
  <2>3. Cardinality(some) \in Nat
    BY <1>3, FS_CardinalityType
  <2>4. Cardinality(others) # 0
    BY <1>3, <1>5, <2>1, <2>3
  <2>2. others # {}
    BY <2>4, FS_EmptySet
  <2> QED BY <1>4, <2>2
<1>10. PICK l \in others : \A n \in others : l <= n
  BY <1>9, HasLeast
<1>11. Gap(l) = {m}
  <2>1. l \in all /\ m \in all /\ m < l
    BY <1>1, <1>5, <1>10
  <2> QED BY <1>1, <1>5, <1>10, <2>1 DEF Gap
<1>12. Cardinality(Gap(l)) = 1
  BY <1>11, FS_Singleton
<1>13. Free(1) = l
  BY <1>1, <1>10, <1>12, FreeIs DEF c
<1> QED BY <1>1, <1>5, <1>8, <1>10, <1>13

LEMMA FreeFirst ==
  ASSUME TypeOK
  PROVE  /\ DOMAIN fds = {}  => Free(0) = 3 /\ Free(1) = 4
         /\ DOMAIN fds = {3} => Free(0) = 4 /\ Free(1) = 5
         /\ DOMAIN fds = {4} => Free(0) = 3 /\ Free(1) = 5
<1> DEFINE c == Cardinality(DOMAIN fds)
<1>1. c \in Nat
  BY FS_CardinalityType DEF TypeOK
<1>2. Cardinality({}) = 0 /\ \A x : Cardinality({x}) = 1
  BY FS_EmptySet, FS_Singleton
<1>3. CASE DOMAIN fds = {}
  <2>1. c = 0 /\ Gap(3) = {} /\ Gap(4) = {3}
    BY <1>2, <1>3 DEF Gap
  <2>2. 3 \in 3 .. c + 4 /\ 4 \in 3 .. c + 4
    BY <1>1
  <2>3. Cardinality(Gap(3)) = 0 /\ Cardinality(Gap(4)) = 1
    BY <1>2, <2>1, Zenon
  <2>4. 3 \notin DOMAIN fds /\ 4 \notin DOMAIN fds
    BY <1>3
  <2>5. Free(0) = 3
    BY <2>2, <2>3, <2>4, FreeIs
  <2>6. Free(1) = 4
    BY <2>2, <2>3, <2>4, FreeIs
  <2> QED BY <1>3, <2>5, <2>6
<1>4. CASE DOMAIN fds = {3}
  <2>1. c = 1 /\ Gap(4) = {} /\ Gap(5) = {4}
    <3>1. c = 1
      BY <1>2, <1>4, Zenon
    <3>2. Gap(4) = {}
      BY <1>4 DEF Gap
    <3>3. Gap(5) = {4}
      BY <1>4 DEF Gap
    <3> QED BY <3>1, <3>2, <3>3
  <2>2. 4 \in 3 .. c + 4 /\ 5 \in 3 .. c + 4
    BY <2>1
  <2>3. Cardinality(Gap(4)) = 0 /\ Cardinality(Gap(5)) = 1
    BY <1>2, <2>1, Zenon
  <2>4. 4 \notin DOMAIN fds /\ 5 \notin DOMAIN fds
    BY <1>4
  <2>5. Free(0) = 4
    BY <2>2, <2>3, <2>4, FreeIs
  <2>6. Free(1) = 5
    BY <2>2, <2>3, <2>4, FreeIs
  <2> QED BY <1>4, <2>5, <2>6
<1>5. CASE DOMAIN fds = {4}
  <2>1. c = 1 /\ Gap(3) = {} /\ Gap(5) = {3}
    <3>1. c = 1
      BY <1>2, <1>5, Zenon
    <3>2. Gap(3) = {}
      BY <1>5 DEF Gap
    <3>3. Gap(5) = {3}
      BY <1>5 DEF Gap
    <3> QED BY <3>1, <3>2, <3>3
  <2>2. 3 \in 3 .. c + 4 /\ 5 \in 3 .. c + 4
    BY <2>1
  <2>3. Cardinality(Gap(3)) = 0 /\ Cardinality(Gap(5)) = 1
    BY <1>2, <2>1, Zenon
  <2>4. 3 \notin DOMAIN fds /\ 5 \notin DOMAIN fds
    BY <1>5
  <2>5. Free(0) = 3
    BY <2>2, <2>3, <2>4, FreeIs
  <2>6. Free(1) = 5
    BY <2>2, <2>3, <2>4, FreeIs
  <2> QED BY <1>5, <2>5, <2>6
<1> QED BY <1>3, <1>4, <1>5

---------------------------------------------------------------------------
LEMMA InitInv == Init => Inv
<1> SUFFICES ASSUME Init
             PROVE  Inv
  OBVIOUS
<1> USE DEF Init
<1>1. DOMAIN fds = {} /\ IsFiniteSet({}) /\ Cardinality({}) = 0
  BY FS_EmptySet
<1>2. Len(procs) = 0 /\ Len(held) = 0 /\ Len(typed) = 0
  OBVIOUS
<1>3. TypeOK
  <2>1. /\ typed \in Seq(Range(typed)) /\ procs \in Seq(Range(procs))
        /\ held \in Seq(0 .. Capacity)
    OBVIOUS
  <2>2. fds \in [DOMAIN fds -> End]
    OBVIOUS
  <2>3. p \in Nat \X Nat
    OBVIOUS
  <2> QED BY <1>1, <1>2, <2>1, <2>2, <2>3 DEF TypeOK
<1>4. FdInv /\ CountInv /\ FirstLineInv
  BY <1>1, <1>2 DEF FdInv, CountInv, FirstLineInv, Leaks, Own
<1>5. ProcInv /\ LinkInv /\ FlowInv /\ KillInv
  BY <1>2 DEF ProcInv, LinkInv, FlowInv, KillInv
<1>6. WholeInput /\ RunInv /\ EndedFits
  <2>1. DOMAIN procs = {}
    OBVIOUS
  <2> QED BY <1>2, <2>1 DEF WholeInput, RunInv, EndedFits
<1> QED BY <1>3, <1>4, <1>5, <1>6 DEF Inv

(* Nothing changes for the children while none of them moves and the shell    *)
(* opens no end.                                                              *)
LEMMA ProcsSame ==
  ASSUME Inv, UNCHANGED <<waits, held, procs>>, Alive' => Alive /\ Range(fds') \subseteq Range(fds)
  PROVE  ProcInv' /\ FlowInv' /\ KillInv' /\ WholeInput' /\ EndedFits'
<1>1. /\ waits' = waits /\ held' = held /\ procs' = procs
      /\ \A j : Total(j)' = Total(j) /\ Taken(j)' = Taken(j) /\ Runs(j)' = Runs(j)
  BY DEF Total, Taken, Runs
<1>2. ProcInv' /\ FlowInv'
  BY <1>1 DEF Inv, ProcInv, FlowInv
<1>3. \A e : Held(e)' => Held(e)
  BY <1>1 DEF Held
<1>4. KillInv'
  BY <1>1, <1>3 DEF Inv, KillInv
<1>5. WholeInput' /\ EndedFits'
  BY <1>1 DEF Inv, WholeInput, EndedFits
<1> QED BY <1>2, <1>4, <1>5

LEMMA ReadLineKeeps ==
  ASSUME Inv, ReadLine
  PROVE  Inv'
<1>1. TypeOK /\ FdInv /\ CountInv /\ FirstLineInv /\ RunInv
  BY DEF Inv
<1>2. /\ spc = "prompt" /\ spc' \in {"start", "killed"} /\ i' = 1 /\ fdin' = 0
      /\ UNCHANGED <<waits, fds, p, npipes, held, procs>>
      /\ \E l : typed' = Append(typed, l)
  BY DEF ReadLine
<1>3. /\ typed \in Seq(Range(typed)) /\ Len(typed) \in Nat
      /\ typed' \in Seq(Range(typed')) /\ Len(typed') = Len(typed) + 1
  <2>1. PICK l : typed' = Append(typed, l)
    BY <1>2
  <2>2. typed \in Seq(Range(typed)) /\ typed \in Seq(Range(typed) \cup {l})
    BY <1>1 DEF TypeOK
  <2>3. typed' \in Seq(Range(typed) \cup {l}) /\ Len(typed') = Len(typed) + 1
    BY <2>1, <2>2
  <2>4. typed' \in Seq(Range(typed'))
    BY <2>3 DEF Range
  <2> QED BY <2>2, <2>3, <2>4
<1>4. TypeOK'
  BY <1>1, <1>2, <1>3 DEF TypeOK
<1>5. FdInv'
  BY <1>1, <1>2 DEF FdInv, Alive
<1>6. CountInv'
  <2> SUFFICES ASSUME spc' = "start"
               PROVE  Len(typed') >= 1 /\ Cardinality(DOMAIN fds) = Leaks' + Own'
    BY <1>2 DEF CountInv, Alive
  <2>1. Cardinality(DOMAIN fds) = Len(typed)
    BY <1>1, <1>2, <1>3 DEF CountInv, Alive, Leaks, Own
  <2>2. Leaks' = Len(typed') - 1 /\ Own' = 0
    BY <1>2 DEF Leaks, Own
  <2> QED BY <1>3, <2>1, <2>2
<1>7. FirstLineInv'
  <2> SUFFICES ASSUME Len(typed') = 1, spc' = "start"
               PROVE  DOMAIN fds = {}
    BY <1>2 DEF FirstLineInv, Kept
  <2>1. Cardinality(DOMAIN fds) = 0
    BY <1>1, <1>2, <1>3 DEF CountInv, Alive, Leaks, Own
  <2> QED BY <1>1, <2>1, FS_EmptySet DEF TypeOK
<1>8. LinkInv'
  BY <1>2 DEF LinkInv
<1>9. RunInv'
  BY <1>1, <1>2 DEF RunInv, Runs
<1>10. ProcInv' /\ FlowInv' /\ KillInv' /\ WholeInput' /\ EndedFits'
  BY <1>2, ProcsSame DEF Alive
<1> QED BY <1>4, <1>5, <1>6, <1>7, <1>8, <1>9, <1>10 DEF Inv

(* The shell is gone; what it held is closed. *)
LEMMA StopKeeps ==
  ASSUME Inv, EndOfInput \/ ForkFails
  PROVE  Inv'
<1>1. TypeOK /\ FdInv /\ FirstLineInv /\ RunInv
  BY DEF Inv
<1>2. /\ spc # "wait" /\ spc' \in {"killed", "exited"}
      /\ UNCHANGED <<waits, typed, cmd, i, fds, p, fdin, npipes, held, procs>>
  BY DEF EndOfInput, ForkFails, lineVars, pipeVars
<1>3. ~Alive'
  BY <1>2 DEF Alive
<1>4. TypeOK'
  BY <1>1, <1>2 DEF TypeOK
<1>5. FdInv' /\ CountInv' /\ FirstLineInv' /\ LinkInv'
  BY <1>1, <1>2, <1>3 DEF FdInv, CountInv, FirstLineInv, LinkInv
<1>6. RunInv'
  BY <1>1, <1>2 DEF RunInv, Runs
<1>7. ProcInv' /\ FlowInv' /\ KillInv' /\ WholeInput' /\ EndedFits'
  BY <1>2, <1>3, ProcsSame
<1> QED BY <1>4, <1>5, <1>6, <1>7 DEF Inv

---------------------------------------------------------------------------
(* StartCommand: one pipe more, one child more. *)
Child == procs'[npipes + 1]

LEMMA NewPipe ==
  ASSUME Inv, StartCommand
  PROVE  /\ npipes' = npipes + 1 /\ npipes \in Nat
         /\ held' \in Seq(0 .. Capacity) /\ Len(held') = npipes + 1
         /\ \A k \in 1 .. npipes : held'[k] = held[k]
         /\ held'[npipes + 1] = 0
         /\ p' \in Nat \X Nat /\ p'[1] \notin DOMAIN fds /\ p'[2] \notin DOMAIN fds /\ p'[1] # p'[2]
         /\ p' = <<Free(0), Free(1)>>
         /\ DOMAIN fds' = DOMAIN fds \cup {p'[1], p'[2]}
         /\ fds'[p'[1]] = <<npipes + 1, "r">> /\ fds'[p'[2]] = <<npipes + 1, "w">>
         /\ \A d \in DOMAIN fds : fds'[d] = fds[d]
         /\ fds' \in [DOMAIN fds' -> End]
<1>1. TypeOK
  BY DEF Inv
<1>2. npipes' = npipes + 1 /\ npipes \in Nat /\ held' = Append(held, 0)
  BY <1>1 DEF StartCommand, TypeOK
<1>3. /\ held' \in Seq(0 .. Capacity) /\ Len(held') = npipes + 1
      /\ \A k \in 1 .. npipes : held'[k] = held[k]
      /\ held'[npipes + 1] = 0
  <2>1. held \in Seq(0 .. Capacity) /\ 0 \in 0 .. Capacity /\ Len(held) = npipes
    BY <1>1, ShellAssumption DEF TypeOK
  <2> QED BY <1>2, <2>1, AppendProperties
<1>4. /\ p' = <<Free(0), Free(1)>>
      /\ fds' = [d \in DOMAIN fds \cup {Free(0), Free(1)} |->
                   IF d = Free(0) THEN <<npipes + 1, "r">>
                   ELSE IF d = Free(1) THEN <<npipes + 1, "w">> ELSE fds[d]]
  BY DEF StartCommand
<1>5. p'[1] = Free(0) /\ p'[2] = Free(1) /\ p' \in Nat \X Nat
  BY <1>1, <1>4, FreeFacts
<1>6. /\ DOMAIN fds' = DOMAIN fds \cup {p'[1], p'[2]}
      /\ fds'[p'[1]] = <<npipes + 1, "r">> /\ fds'[p'[2]] = <<npipes + 1, "w">>
      /\ \A d \in DOMAIN fds : fds'[d] = fds[d]
  BY <1>1, <1>4, <1>5, FreeFacts
<1>7. fds' \in [DOMAIN fds' -> End]
  <2>1. \A d \in DOMAIN fds : fds[d] \in End
    BY <1>1 DEF TypeOK
  <2>2. <<npipes + 1, "r">> \in End /\ <<npipes + 1, "w">> \in End
    BY <1>2 DEF End
  <2>3. \A d \in DOMAIN fds' : fds'[d] \in End
    BY <1>6, <2>1, <2>2
  <2>4. fds' = [d \in DOMAIN fds' |-> fds'[d]]
    BY <1>4
  <2> QED BY <2>3, <2>4
<1> QED BY <1>1, <1>2, <1>3, <1>4, <1>5, <1>6, <1>7, FreeFacts

LEMMA NewChild ==
  ASSUME Inv, StartCommand
  PROVE  /\ procs' \in Seq(Range(procs')) /\ Len(procs') = npipes + 1
         /\ \A k \in 1 .. npipes : procs'[k] = procs[k]
         /\ IsProc(Child)
         /\ Child.in = IF i > 1 THEN npipes ELSE 0
         /\ Child.out \in {0, npipes + 1} /\ (i < Len(cmd) => Child.out = npipes + 1)
         /\ \A e : e \in Child.ends <=> e = <<npipes + 1, "w">> \/ e \in Range(fds)
         /\ \A n : n = npipes + 1 => Child.left = Total(n)'
         /\ Child.took = 0 /\ Child.state = "running"
<1>1. TypeOK /\ FdInv /\ spc = "start"
  BY DEF Inv, StartCommand
<1> DEFINE c == [name  |-> cmd[i],
                 in    |-> IF i > 1 THEN fds[fdin][1] ELSE 0,
                 out   |-> OutPipe,
                 ends  |-> Range(Without(fds', {p'[1]})),
                 left  |-> IF cmd[i] \in DOMAIN Output THEN Output[cmd[i]] ELSE 0,
                 took  |-> 0, state |-> "running"]
<1>2. procs' = Append(procs, c) /\ npipes \in Nat
  BY <1>1 DEF StartCommand, TypeOK
<1>3. /\ procs' \in Seq(Range(procs')) /\ Len(procs') = npipes + 1
      /\ \A k \in 1 .. npipes : procs'[k] = procs[k]
      /\ Child = c
  <2> HIDE DEF c
  <2>1. procs \in Seq(Range(procs) \cup {c}) /\ Len(procs) = npipes
    BY <1>1 DEF TypeOK
  <2>2. /\ procs' \in Seq(Range(procs) \cup {c}) /\ Len(procs') = npipes + 1
        /\ \A k \in 1 .. npipes : procs'[k] = procs[k]
        /\ procs'[npipes + 1] = c
    BY <1>2, <2>1, AppendProperties
  <2>3. procs' \in Seq(Range(procs'))
    BY <2>2 DEF Range
  <2> QED BY <2>2, <2>3 DEF Child
<1>4. c.in = IF i > 1 THEN npipes ELSE 0
  <2>1. i > 1 => fds[fdin] = <<npipes, "r">>
    BY <1>1 DEF FdInv
  <2> QED BY <2>1
<1>5. c.out \in {0, npipes + 1} /\ (i < Len(cmd) => c.out = npipes + 1)
  BY DEF OutPipe
<1>6. \A e : e \in c.ends <=> e = <<npipes + 1, "w">> \/ e \in Range(fds)
  <2>1. c.ends = {fds'[d] : d \in DOMAIN fds \cup {p'[2]}}
    <3>1. DOMAIN fds' \ {p'[1]} = DOMAIN fds \cup {p'[2]}
      BY NewPipe
    <3>2. Without(fds', {p'[1]}) = [d \in DOMAIN fds \cup {p'[2]} |-> fds'[d]]
      BY <3>1 DEF Without
    <3> QED BY <3>2 DEF Range
  <2>2. /\ \A d \in DOMAIN fds : fds'[d] = fds[d]
        /\ fds'[p'[2]] = <<npipes + 1, "w">>
    BY NewPipe
  <2> HIDE DEF c
  <2> QED BY <2>1, <2>2 DEF Range
<1>7. c.left \in Nat /\ \A n : n = npipes + 1 => c.left = Total(n)'
  <2>1. c.left \in Nat
    BY ShellAssumption
  <2>2. c.name = cmd[i] /\ procs'[npipes + 1] = c
    BY <1>3 DEF Child
  <2> QED BY <2>1, <2>2 DEF Total
<1>8. IsProc(c)
  <2>1. c.in \in Nat /\ c.out \in Nat
    BY <1>2, <1>4, <1>5
  <2>2. c.ends \subseteq End
    <3>1. \A e \in Range(fds) : e \in End
      BY <1>1 DEF TypeOK, Range
    <3>2. <<npipes + 1, "w">> \in End
      BY <1>2 DEF End
    <3> HIDE DEF c
    <3> QED BY <1>6, <3>1, <3>2
  <2>3. c = [name |-> c.name, in |-> c.in, out |-> c.out, ends |-> c.ends,
             left |-> c.left, took |-> c.took, state |-> c.state]
        /\ c.took = 0 /\ c.state = "running"
    OBVIOUS
  <2> HIDE DEF c
  <2> QED BY <1>7, <2>1, <2>2, <2>3 DEF IsProc
<1>9. c.took = 0 /\ c.state = "running"
  OBVIOUS
<1> HIDE DEF c
<1> QED BY <1>3, <1>4, <1>5, <1>6, <1>7, <1>8, <1>9

LEMMA StartKeepsShell ==
  ASSUME Inv, StartCommand
  PROVE  TypeOK' /\ FdInv' /\ CountInv' /\ FirstLineInv' /\ LinkInv' /\ RunInv'
<1>1. TypeOK /\ FdInv /\ CountInv /\ FirstLineInv /\ RunInv
  BY DEF Inv
<1>2. spc = "start" /\ spc' = "wait" /\ UNCHANGED <<waits, typed, cmd, i, fdin>>
  BY DEF StartCommand, lineVars
<1>3. TypeOK'
  <2>1. IsFiniteSet(DOMAIN fds') /\ DOMAIN fds' \subseteq Nat
    <3>1. IsFiniteSet(DOMAIN fds) /\ DOMAIN fds \subseteq Nat
      BY <1>1 DEF TypeOK
    <3>2. DOMAIN fds' = (DOMAIN fds \cup {p'[1]}) \cup {p'[2]}
      BY NewPipe
    <3>3. IsFiniteSet(DOMAIN fds \cup {p'[1]})
      BY <3>1, FS_AddElement
    <3>4. IsFiniteSet((DOMAIN fds \cup {p'[1]}) \cup {p'[2]})
      BY <3>3, FS_AddElement
    <3>5. p'[1] \in Nat /\ p'[2] \in Nat
      BY NewPipe
    <3>6. DOMAIN fds' \subseteq Nat
      BY <3>1, <3>2, <3>5
    <3> QED BY <3>2, <3>4, <3>6, Zenon
  <2>2. \A j \in 1 .. npipes' : IsProc(procs'[j])
    <3>1. \A j \in 1 .. npipes : IsProc(procs[j])
      BY <1>1 DEF TypeOK
    <3>2. npipes' = npipes + 1 /\ npipes \in Nat
      BY NewPipe
    <3>3. /\ \A j \in 1 .. npipes : procs'[j] = procs[j]
          /\ IsProc(procs'[npipes + 1])
      BY NewChild DEF Child
    <3>4. \A j \in 1 .. npipes : IsProc(procs'[j])
      BY <3>1, <3>3, Zenon
    <3> QED BY <3>2, <3>3, <3>4
  <2>3. /\ procs' \in Seq(Range(procs')) /\ Len(procs') = npipes'
        /\ held' \in Seq(0 .. Capacity) /\ Len(held') = npipes'
        /\ npipes' \in Nat /\ p' \in Nat \X Nat /\ fds' \in [DOMAIN fds' -> End]
    BY NewPipe, NewChild
  <2> QED BY <1>1, <1>2, <2>1, <2>2, <2>3 DEF TypeOK
<1>4. FdInv'
  <2>1. \A d \in DOMAIN fds : fds[d][1] \in 1 .. npipes /\ fds[d][2] # "w"
    <3>1. \A d \in DOMAIN fds : fds[d][1] \in 1 .. npipes /\ (fds[d][2] = "w" => spc = "wait")
      BY <1>1, <1>2 DEF FdInv, Alive
    <3> QED BY <1>2, <3>1
  <2>2. \A d \in DOMAIN fds' : fds'[d][1] \in 1 .. npipes'
    BY <2>1, NewPipe
  <2>3. \A d \in DOMAIN fds' : fds'[d][2] = "w" => d = p'[2]
    BY <2>1, NewPipe
  <2>4. i > 1 => fdin \in DOMAIN fds
    BY <1>1, <1>2 DEF FdInv
  <2>5. i > 1 => fdin \in DOMAIN fds' /\ fdin # p'[1] /\ fdin # p'[2]
    BY <2>4, NewPipe
  <2>6. /\ p'[1] \in DOMAIN fds' /\ p'[2] \in DOMAIN fds' /\ p'[1] # p'[2]
        /\ fds'[p'[1]] = <<npipes', "r">> /\ fds'[p'[2]] = <<npipes', "w">>
    BY NewPipe
  <2> QED BY <1>2, <2>2, <2>3, <2>5, <2>6 DEF FdInv
<1>5. CountInv'
  <2>1. IsFiniteSet(DOMAIN fds) /\ Cardinality(DOMAIN fds) \in Nat
    BY <1>1, FS_CardinalityType DEF TypeOK
  <2>2. /\ IsFiniteSet(DOMAIN fds \cup {p'[1]})
        /\ Cardinality(DOMAIN fds \cup {p'[1]}) = Cardinality(DOMAIN fds) + 1
    BY <2>1, NewPipe, FS_AddElement
  <2>3. DOMAIN fds' = (DOMAIN fds \cup {p'[1]}) \cup {p'[2]} /\ p'[2] \notin DOMAIN fds \cup {p'[1]}
    BY NewPipe
  <2> DEFINE more == DOMAIN fds \cup {p'[1]}
  <2>4. Cardinality(DOMAIN fds') = Cardinality(DOMAIN fds) + 2
    <3> HIDE DEF more
    <3>1. IsFiniteSet(more) /\ Cardinality(more) = Cardinality(DOMAIN fds) + 1
      BY <2>2 DEF more
    <3>2. DOMAIN fds' = more \cup {p'[2]} /\ p'[2] \notin more
      BY <2>3 DEF more
    <3>3. Cardinality(more \cup {p'[2]}) = IF p'[2] \in more THEN Cardinality(more) ELSE Cardinality(more) + 1
      BY <3>1, FS_AddElement
    <3> QED BY <2>1, <3>1, <3>2, <3>3
  <2>5. Len(typed) >= 1 /\ Cardinality(DOMAIN fds) = Leaks + Own
    BY <1>1, <1>2 DEF CountInv, Alive
  <2>6. Leaks = Len(typed) - 1 /\ Leaks' = Len(typed) - 1 /\ Own' = Own + 2 /\ Len(typed) \in Nat
    BY <1>1, <1>2 DEF Leaks, Own, TypeOK
  <2> QED BY <1>2, <2>1, <2>4, <2>5, <2>6 DEF CountInv, Own
<1>6. FirstLineInv'
  <2> SUFFICES ASSUME Len(typed) = 1, i <= 4
               PROVE  /\ p' = <<<<3, 4>>, <<4, 5>>, <<3, 5>>, <<4, 5>>>>[i]
                      /\ DOMAIN fds' = Kept \cup {p'[1], p'[2]}
                      /\ i > 1 => fdin \in Kept
    BY <1>2 DEF FirstLineInv, Kept
  <2>1. DOMAIN fds = Kept /\ (i > 1 => fdin \in Kept)
    BY <1>1, <1>2 DEF FirstLineInv
  <2>2. i \in {1, 2, 3, 4}
    BY <1>1 DEF TypeOK
  <2>3. p' = <<<<3, 4>>, <<4, 5>>, <<3, 5>>, <<4, 5>>>>[i]
    <3>1. p' = <<Free(0), Free(1)>>
      BY NewPipe
    <3>2. CASE i = 1
      BY <1>1, <2>1, <3>1, <3>2, FreeFirst DEF Kept
    <3>3. CASE i = 3
      BY <1>1, <2>1, <3>1, <3>3, FreeFirst DEF Kept
    <3>4. CASE i \in {2, 4}
      <4>1. DOMAIN fds = {3}
        BY <2>1, <3>4 DEF Kept
      <4>2. p' = <<4, 5>>
        BY <1>1, <3>1, <4>1, FreeFirst
      <4> QED BY <3>4, <4>2
    <3> QED BY <2>2, <3>2, <3>3, <3>4
  <2> QED BY <2>1, <2>3, NewPipe
<1>7. LinkInv'
  BY <1>2, NewPipe, NewChild DEF LinkInv, Child
<1>8. RunInv'
  <2> SUFFICES ASSUME waits, NEW j \in 1 .. Len(procs'), Runs(j)'
               PROVE  j = Len(procs')
    BY <1>2 DEF RunInv
  <2>1. CASE j \in 1 .. npipes
    <3>1. Runs(j)
      BY <2>1, NewChild DEF Runs
    <3>2. Len(procs) = npipes
      BY <1>1 DEF TypeOK
    <3> QED BY <1>1, <1>2, <2>1, <3>1, <3>2 DEF RunInv
  <2>2. CASE j = npipes + 1
    BY <2>2, NewChild
  <2> QED BY <2>1, <2>2, NewPipe, NewChild
<1> QED BY <1>3, <1>4, <1>5, <1>6, <1>7, <1>8

LEMMA StartKeepsProcs ==
  ASSUME Inv, StartCommand
  PROVE  ProcInv' /\ FlowInv' /\ KillInv' /\ WholeInput' /\ EndedFits'
<1>1. /\ npipes \in Nat /\ Len(procs) = npipes /\ Len(procs') = npipes + 1
      /\ DOMAIN procs = 1 .. npipes /\ DOMAIN procs' = 1 .. npipes + 1
      /\ \A k \in 1 .. npipes : procs'[k] = procs[k] /\ held'[k] = held[k]
      /\ waits' = waits /\ spc = "start" /\ spc' = "wait"
  <2>1. npipes \in Nat /\ Len(procs) = npipes /\ procs \in Seq(Range(procs))
    BY DEF Inv, TypeOK
  <2>2. procs' \in Seq(Range(procs')) /\ Len(procs') = npipes + 1
    BY NewChild
  <2>3. DOMAIN procs = 1 .. npipes /\ DOMAIN procs' = 1 .. npipes + 1
    BY <2>1, <2>2, LenProperties
  <2> QED BY <2>1, <2>2, <2>3, NewPipe, NewChild DEF StartCommand, lineVars
<1>2. ASSUME NEW j \in 1 .. npipes + 1
      PROVE  j \in 1 .. npipes \/ j = npipes + 1
  BY <1>1
<1>3. /\ \A e \in Range(fds) : e[1] \in 1 .. npipes /\ e[2] # "w"
      /\ \A e \in Child.ends : e[1] \in 1 .. npipes + 1 /\ (e[2] = "w" => e[1] = npipes + 1)
  <2>1. \A d \in DOMAIN fds : fds[d][1] \in 1 .. npipes /\ (fds[d][2] = "w" => spc = "wait")
    BY <1>1 DEF Inv, FdInv, Alive
  <2>2. \A e \in Range(fds) : e[1] \in 1 .. npipes /\ e[2] # "w"
    BY <1>1, <2>1 DEF Range
  <2>3. \A e \in Child.ends : e = <<npipes + 1, "w">> \/ e \in Range(fds)
    BY NewChild
  <2> QED BY <1>1, <2>2, <2>3
<1>4. ProcInv'
  <2>1. \A j \in 1 .. npipes :
          /\ procs[j].in \in {0, j - 1} /\ procs[j].out \in {0, j}
          /\ procs[j].in # 0 => procs[j - 1].out = j - 1 /\ <<j - 1, "r">> \in procs[j].ends
          /\ <<j, "w">> \in procs[j].ends
          /\ \A e \in procs[j].ends : e[1] \in 1 .. j /\ (e[2] = "w" => e[1] = j)
    BY <1>1 DEF Inv, ProcInv
  <2>2. ASSUME NEW j \in 1 .. npipes, procs[j].in # 0
        PROVE  procs'[j - 1] = procs[j - 1]
    <3>1. j - 1 # 0
      BY <2>1, <2>2
    <3>2. j - 1 \in 1 .. npipes
      BY <1>1, <3>1
    <3> QED BY <1>1, <3>2
  <2>3. ASSUME i > 1
        PROVE  /\ npipes > 0 /\ procs[npipes].out = npipes
               /\ <<npipes, "r">> \in Child.ends
    <3>1. npipes > 0 /\ procs[npipes].out = npipes
      BY <1>1, <2>3 DEF Inv, LinkInv
    <3>2. fdin \in DOMAIN fds /\ fds[fdin] = <<npipes, "r">>
      BY <1>1, <2>3 DEF Inv, FdInv
    <3>3. <<npipes, "r">> \in Range(fds)
      BY <3>2 DEF Range
    <3> QED BY <3>1, <3>3, NewChild
  <2>4. /\ Child.in \in {0, npipes} /\ Child.out \in {0, npipes + 1}
        /\ Child.in # 0 => i > 1
        /\ <<npipes + 1, "w">> \in Child.ends
    BY NewChild
  <2> SUFFICES ASSUME NEW j \in 1 .. npipes + 1
               PROVE  /\ procs'[j].in \in {0, j - 1} /\ procs'[j].out \in {0, j}
                      /\ procs'[j].in # 0 => procs'[j - 1].out = j - 1 /\ <<j - 1, "r">> \in procs'[j].ends
                      /\ <<j, "w">> \in procs'[j].ends
                      /\ \A e \in procs'[j].ends : e[1] \in 1 .. j /\ (e[2] = "w" => e[1] = j)
    BY <1>1 DEF ProcInv
  <2>5. CASE j \in 1 .. npipes
    BY <1>1, <2>1, <2>2, <2>5
  <2>6. CASE j = npipes + 1
    <3>1. j - 1 = npipes /\ procs'[j] = Child
      BY <1>1, <2>6 DEF Child
    <3>2. i > 1 => procs'[npipes].out = npipes
      BY <1>1, <2>3
    <3> QED BY <1>3, <2>3, <2>4, <2>6, <3>1, <3>2
  <2> QED BY <1>2, <2>5, <2>6
<1>5. \A j \in 1 .. npipes : Total(j)' = Total(j)
  BY <1>1 DEF Total
<1>6. \A j \in 1 .. npipes : Taken(j)' = Taken(j)
  <2> SUFFICES ASSUME NEW j \in 1 .. npipes
               PROVE  Taken(j)' = Taken(j)
    OBVIOUS
  <2>1. CASE j < npipes
    BY <1>1, <2>1 DEF Taken
  <2>2. CASE j = npipes
    BY <1>1, <2>2, NewChild DEF Taken, Child
  <2> QED BY <1>1, <2>1, <2>2
<1>7. FlowInv'
  <2>1. \A j \in 1 .. npipes :
          /\ procs[j].state = "ended" => procs[j].left = 0
          /\ procs[j].out # 0 => procs[j].left + held[j] + Taken(j) = Total(j)
    BY <1>1 DEF Inv, FlowInv
  <2> SUFFICES ASSUME NEW j \in 1 .. npipes + 1
               PROVE  /\ procs'[j].state = "ended" => procs'[j].left = 0
                      /\ procs'[j].out # 0 => procs'[j].left + held'[j] + Taken(j)' = Total(j)'
    BY <1>1 DEF FlowInv
  <2>2. CASE j \in 1 .. npipes
    BY <1>1, <1>5, <1>6, <2>1, <2>2
  <2>3. CASE j = npipes + 1
    <3>1. Taken(j)' = 0
      BY <1>1, <2>3 DEF Taken
    <3>2. held'[j] = 0
      BY <2>3, NewPipe
    <3>3. /\ procs'[j] = Child /\ Child.state = "running"
          /\ Child.left = Total(j)' /\ Child.left \in Nat
      BY <2>3, NewChild DEF Child, IsProc
    <3> QED BY <3>1, <3>2, <3>3
  <2> QED BY <1>2, <2>2, <2>3
<1>8. KillInv'
  <2> SUFFICES ASSUME NEW j \in 1 .. npipes + 1, procs'[j].state = "killed"
               PROVE  ~Held(<<j, "r">>)'
    BY <1>1 DEF KillInv
  <2>1. j \in 1 .. npipes /\ procs[j].state = "killed"
    BY <1>1, <1>2, NewChild DEF Child
  <2>2. ~Held(<<j, "r">>)
    BY <1>1, <2>1 DEF Inv, KillInv
  <2>3. <<j, "r">> \notin Range(fds)
    BY <1>1, <2>2 DEF Held, Alive
  <2>4. <<j, "r">> \notin Range(fds')
    <3>1. \A d \in DOMAIN fds' :
            fds'[d] \in Range(fds) \/ fds'[d] = <<npipes + 1, "r">> \/ fds'[d] = <<npipes + 1, "w">>
      BY NewPipe DEF Range
    <3>2. <<j, "r">> # <<npipes + 1, "r">> /\ <<j, "r">> # <<npipes + 1, "w">>
      BY <1>1, <2>1
    <3> QED BY <2>3, <3>1, <3>2 DEF Range
  <2>5. <<j, "r">> \notin Child.ends
    <3>1. <<j, "r">> # <<npipes + 1, "w">>
      BY <1>1, <2>1
    <3> QED BY <2>3, <3>1, NewChild
  <2>6. \A k \in DOMAIN procs' : ~(procs'[k].state = "running" /\ <<j, "r">> \in procs'[k].ends)
    <3> SUFFICES ASSUME NEW k \in 1 .. npipes + 1
                 PROVE  ~(procs'[k].state = "running" /\ <<j, "r">> \in procs'[k].ends)
      BY <1>1
    <3>1. CASE k \in 1 .. npipes
      BY <1>1, <2>2, <3>1 DEF Held, Runs
    <3>2. CASE k = npipes + 1
      BY <2>5, <3>2 DEF Child
    <3> QED BY <1>2, <3>1, <3>2
  <2> QED BY <2>4, <2>6 DEF Held, Runs
<1>9. WholeInput'
  <2> SUFFICES ASSUME NEW j \in 1 .. npipes + 1, procs'[j].state = "ended", procs'[j].in # 0,
                      procs'[j].name \in Filters
               PROVE  procs'[j].took = Total(j - 1)'
    BY <1>1 DEF WholeInput
  <2>1. j \in 1 .. npipes
    BY <1>2, NewChild DEF Child
  <2>2. procs[j].took = Total(j - 1) /\ procs[j].in = j - 1
    BY <1>1, <2>1 DEF Inv, WholeInput, ProcInv
  <2>3. j - 1 \in 1 .. npipes
    BY <1>1, <2>1, <2>2
  <2> QED BY <1>1, <1>5, <2>1, <2>2, <2>3
<1>10. EndedFits'
  <2> SUFFICES ASSUME waits', NEW j \in 1 .. npipes + 1, procs'[j].state = "ended", procs'[j].out # 0
               PROVE  Total(j)' <= Capacity
    BY <1>1 DEF EndedFits
  <2>1. j \in 1 .. npipes
    BY <1>2, NewChild DEF Child
  <2> QED BY <1>1, <1>5, <2>1 DEF Inv, EndedFits
<1> QED BY <1>4, <1>7, <1>8, <1>9, <1>10

---------------------------------------------------------------------------
(* EndCommand closes descriptors of the shell's own. *)
LEMMA EndKeepsShell ==
  ASSUME Inv, EndCommand
  PROVE  TypeOK' /\ FdInv' /\ CountInv' /\ FirstLineInv' /\ LinkInv' /\ RunInv'
<1>1. TypeOK /\ FdInv /\ CountInv /\ FirstLineInv /\ LinkInv /\ RunInv
  BY DEF Inv
<1>2. /\ spc = "wait" /\ MayGoOn /\ i \in Nat \ {0}
      /\ fdin' = p[1] /\ i' = i + 1
      /\ spc' = IF i < Len(cmd) THEN "start" ELSE "prompt"
      /\ UNCHANGED <<waits, typed, cmd, p, npipes, held, procs>>
  BY <1>1 DEF EndCommand, lineVars, TypeOK
<1>3. /\ p[1] \in DOMAIN fds /\ p[2] \in DOMAIN fds /\ p[1] # p[2]
      /\ fds[p[1]] = <<npipes, "r">>
      /\ i > 1 => fdin \in DOMAIN fds /\ fdin # p[1] /\ fdin # p[2]
      /\ \A d \in DOMAIN fds : fds[d][2] = "w" => d = p[2]
  BY <1>1, <1>2 DEF FdInv, Alive
<1>4. Closed = IF i > 1 THEN {p[2], fdin} ELSE {p[2]}
  BY DEF Closed
<1>5. /\ DOMAIN fds' = DOMAIN fds \ Closed
      /\ \A d \in DOMAIN fds' : fds'[d] = fds[d] /\ d # p[2]
      /\ p[1] \in DOMAIN fds'
  <2>1. fds' = [d \in DOMAIN fds \ Closed |-> fds[d]]
    BY DEF EndCommand, Without
  <2> QED BY <1>3, <1>4, <2>1
<1>6. TypeOK'
  <2>1. IsFiniteSet(DOMAIN fds')
    <3>1. IsFiniteSet(DOMAIN fds)
      BY <1>1 DEF TypeOK
    <3>2. IsFiniteSet(DOMAIN fds \ Closed)
      BY <3>1, FS_Difference
    <3> QED BY <1>5, <3>2
  <2>2. fds' \in [DOMAIN fds' -> End]
    <3>1. fds' = [d \in DOMAIN fds' |-> fds[d]]
      BY <1>5 DEF EndCommand, Without
    <3>2. \A d \in DOMAIN fds' : fds[d] \in End
      BY <1>1, <1>5 DEF TypeOK
    <3> QED BY <3>1, <3>2
  <2>3. DOMAIN fds' \subseteq Nat /\ p[1] \in Nat
    BY <1>1, <1>5 DEF TypeOK
  <2>4. spc' \in {"prompt", "start"} /\ i' \in Nat \ {0}
    BY <1>2
  <2> QED BY <1>1, <1>2, <2>1, <2>2, <2>3, <2>4 DEF TypeOK
<1>7. FdInv'
  <2>1. \A d \in DOMAIN fds' : fds'[d][1] \in 1 .. npipes' /\ fds'[d][2] # "w"
    BY <1>1, <1>2, <1>3, <1>5 DEF FdInv
  <2> QED BY <1>2, <1>3, <1>5, <2>1 DEF FdInv
<1>8. CountInv'
  <2>1. IsFiniteSet(DOMAIN fds) /\ Cardinality(DOMAIN fds) \in Nat /\ Len(typed) \in Nat
    BY <1>1, FS_CardinalityType DEF TypeOK
  <2>2. /\ IsFiniteSet(DOMAIN fds \ {p[2]})
        /\ Cardinality(DOMAIN fds \ {p[2]}) = Cardinality(DOMAIN fds) - 1
    BY <1>3, <2>1, FS_RemoveElement
  <2>3. Cardinality(DOMAIN fds') = Cardinality(DOMAIN fds) - (IF i > 1 THEN 2 ELSE 1)
    <3>1. CASE i > 1
      <4> DEFINE less == DOMAIN fds \ {p[2]}
      <4>1. DOMAIN fds' = less \ {fdin} /\ fdin \in less
        BY <1>3, <1>4, <1>5, <3>1
      <4>2. IsFiniteSet(less) /\ Cardinality(less) = Cardinality(DOMAIN fds) - 1
        BY <2>2
      <4> HIDE DEF less
      <4>3. Cardinality(less \ {fdin}) = Cardinality(less) - 1
        BY <4>1, <4>2, FS_RemoveElement
      <4> QED BY <2>1, <3>1, <4>1, <4>2, <4>3
    <3>2. CASE ~(i > 1)
      BY <1>4, <1>5, <2>2, <3>2
    <3> QED BY <3>1, <3>2
  <2>4. Len(typed) >= 1 /\ Cardinality(DOMAIN fds) = Len(typed) - 1 + (IF i > 1 THEN 3 ELSE 2)
    BY <1>1, <1>2 DEF CountInv, Alive, Leaks, Own
  <2>5. Cardinality(DOMAIN fds') = Len(typed)
    BY <2>1, <2>3, <2>4
  <2>6. Leaks' + Own' = Len(typed)
    <3>1. i' > 1
      BY <1>2
    <3> QED BY <1>2, <2>1, <3>1 DEF Leaks, Own
  <2> QED BY <1>2, <2>4, <2>5, <2>6 DEF CountInv
<1>9. FirstLineInv'
  <2> SUFFICES ASSUME Len(typed) = 1, i + 1 <= 4
               PROVE  DOMAIN fds' = Kept' /\ p[1] \in Kept'
    BY <1>2 DEF FirstLineInv
  <2>1. /\ p = <<<<3, 4>>, <<4, 5>>, <<3, 5>>, <<4, 5>>>>[i]
        /\ DOMAIN fds = Kept \cup {p[1], p[2]}
        /\ i > 1 => fdin \in Kept
    BY <1>1, <1>2 DEF FirstLineInv
  <2>2. Kept' = {p[1]} /\ (i > 1 => Kept = {fdin})
    <3>1. i \in {1, 2, 3}
      BY <1>2
    <3>2. p[1] = IF i = 2 THEN 4 ELSE 3
      BY <2>1, <3>1
    <3>3. Kept' = {p[1]}
      BY <1>2, <3>1, <3>2 DEF Kept
    <3> QED BY <2>1, <3>1, <3>3 DEF Kept
  <2>3. i = 1 => Kept = {}
    BY DEF Kept
  <2>4. DOMAIN fds' = {p[1]}
    BY <1>2, <1>3, <1>4, <1>5, <2>1, <2>2, <2>3
  <2> QED BY <2>2, <2>4
<1>10. LinkInv'
  BY <1>1, <1>2 DEF LinkInv
<1>11. RunInv'
  <2> SUFFICES ASSUME waits, NEW j \in 1 .. Len(procs), Runs(j)
               PROVE  FALSE
    BY <1>2 DEF RunInv, Runs
  <2>1. j = Len(procs)
    BY <1>1 DEF RunInv
  <2> QED BY <1>2, <2>1 DEF MayGoOn, Runs
<1> QED BY <1>6, <1>7, <1>8, <1>9, <1>10, <1>11

LEMMA EndKeeps ==
  ASSUME Inv, EndCommand
  PROVE  Inv'
<1>1. Range(fds') \subseteq Range(fds)
  BY DEF EndCommand, Without, Range
<1>2. UNCHANGED <<waits, held, procs>> /\ Alive
  BY DEF EndCommand, lineVars, Alive
<1>3. ProcInv' /\ FlowInv' /\ KillInv' /\ WholeInput' /\ EndedFits'
  BY <1>1, <1>2, ProcsSame
<1> QED BY <1>3, EndKeepsShell DEF Inv

LEMMA StartKeeps ==
  ASSUME Inv, StartCommand
  PROVE  Inv'
BY StartKeepsShell, StartKeepsProcs DEF Inv

---------------------------------------------------------------------------
(* A step of a child changes that child and at most what a pipe holds. *)
Moves(j, r) ==
  /\ j \in 1 .. Len(procs) /\ Runs(j) /\ procs' = [procs EXCEPT ![j] = r]
  /\ IsProc(r)
  /\ r.name = procs[j].name /\ r.in = procs[j].in /\ r.out = procs[j].out /\ r.ends = procs[j].ends
  /\ held' \in Seq(0 .. Capacity) /\ Len(held') = npipes
  /\ UNCHANGED <<waits, typed, cmd, spc, i, fds, p, fdin, npipes>>

LEMMA MoveFacts ==
  ASSUME Inv, NEW j, NEW r, Moves(j, r)
  PROVE  /\ npipes \in Nat /\ Len(procs) = npipes /\ Len(procs') = npipes
         /\ DOMAIN procs = 1 .. npipes /\ DOMAIN procs' = 1 .. npipes
         /\ procs' \in Seq(Range(procs'))
         /\ procs'[j] = r /\ \A k \in 1 .. npipes : k # j => procs'[k] = procs[k]
         /\ \A k \in 1 .. npipes :
              /\ procs'[k].name = procs[k].name /\ procs'[k].in = procs[k].in
              /\ procs'[k].out = procs[k].out /\ procs'[k].ends = procs[k].ends
         /\ \A k \in 1 .. npipes : Total(k)' = Total(k)
         /\ \A k : Runs(k)' => Runs(k) \/ k \notin 1 .. npipes
         /\ \A e : Held(e)' => Held(e)
         /\ \A k \in 1 .. npipes : k + 1 # j => Taken(k)' = Taken(k)
<1>1. npipes \in Nat /\ Len(procs) = npipes /\ procs \in Seq(Range(procs))
  BY DEF Inv, TypeOK
<1>2. /\ j \in 1 .. npipes /\ Runs(j) /\ procs' = [procs EXCEPT ![j] = r]
      /\ r.name = procs[j].name /\ r.in = procs[j].in /\ r.out = procs[j].out /\ r.ends = procs[j].ends
  BY <1>1 DEF Moves
<1>3. DOMAIN procs = 1 .. npipes
  BY <1>1, LenProperties
<1>4. DOMAIN procs' = 1 .. npipes /\ procs'[j] = r /\ \A k \in 1 .. npipes : k # j => procs'[k] = procs[k]
  BY <1>2, <1>3
<1>5. procs' \in Seq(Range(procs')) /\ Len(procs') = npipes
  <2>1. procs \in Seq(Range(procs) \cup {r}) /\ r \in Range(procs) \cup {r}
    BY <1>1
  <2>2. procs' \in Seq(Range(procs) \cup {r}) /\ Len(procs') = npipes
    BY <1>1, <1>2, <2>1, ExceptSeq
  <2> QED BY <2>2 DEF Range
<1>6. \A k \in 1 .. npipes :
        /\ procs'[k].name = procs[k].name /\ procs'[k].in = procs[k].in
        /\ procs'[k].out = procs[k].out /\ procs'[k].ends = procs[k].ends
  BY <1>2, <1>4
<1>7. \A k \in 1 .. npipes : Total(k)' = Total(k)
  BY <1>6 DEF Total
<1>8. \A k \in 1 .. npipes : Runs(k)' => Runs(k)
  BY <1>2, <1>4 DEF Runs
<1>9. \A e : Held(e)' => Held(e)
  <2>1. fds' = fds /\ (Alive' <=> Alive)
    BY DEF Moves, Alive
  <2> QED BY <1>3, <1>4, <1>6, <1>8, <2>1 DEF Held
<1>10. ASSUME NEW k \in 1 .. npipes, k + 1 # j
       PROVE  Taken(k)' = Taken(k)
  <2>1. CASE k < npipes
    <3>1. k + 1 \in 1 .. npipes
      BY <1>1, <2>1
    <3>2. procs'[k + 1] = procs[k + 1]
      BY <1>4, <1>10, <3>1
    <3> QED BY <1>1, <1>5, <2>1, <3>2 DEF Taken
  <2>2. CASE ~(k < npipes)
    BY <1>1, <1>5, <2>2 DEF Taken
  <2> QED BY <2>1, <2>2
<1> QED BY <1>1, <1>3, <1>4, <1>5, <1>6, <1>7, <1>8, <1>9, <1>10

LEMMA MoveKeeps ==
  ASSUME Inv, NEW j, NEW r, Moves(j, r)
  PROVE  /\ TypeOK' /\ FdInv' /\ CountInv' /\ FirstLineInv' /\ ProcInv' /\ LinkInv' /\ RunInv'
<1>1. TypeOK /\ FdInv /\ CountInv /\ FirstLineInv /\ ProcInv /\ LinkInv /\ RunInv
  BY DEF Inv
<1>2. /\ UNCHANGED <<waits, typed, cmd, spc, i, fds, p, fdin, npipes>>
      /\ IsProc(r) /\ held' \in Seq(0 .. Capacity) /\ Len(held') = npipes
  BY DEF Moves
<1>3. TypeOK'
  <2>1. \A k \in 1 .. npipes : IsProc(procs[k])
    BY <1>1 DEF TypeOK
  <2>2. \A k \in 1 .. npipes : procs'[k] = r \/ procs'[k] = procs[k]
    BY MoveFacts
  <2>3. \A k \in 1 .. npipes : IsProc(procs'[k])
    BY <1>2, <2>1, <2>2, Zenon
  <2>4. procs' \in Seq(Range(procs')) /\ Len(procs') = npipes
    BY MoveFacts
  <2> QED BY <1>1, <1>2, <2>3, <2>4 DEF TypeOK
<1>4. FdInv' /\ CountInv' /\ FirstLineInv'
  BY <1>1, <1>2 DEF FdInv, CountInv, FirstLineInv, Kept, Alive, Leaks, Own
<1>5. ProcInv'
  <2>1. ASSUME NEW k \in 1 .. npipes, procs[k].in # 0
        PROVE  k - 1 \in 1 .. npipes
    <3>1. Len(procs) = npipes /\ npipes \in Nat
      BY MoveFacts
    <3>2. procs[k].in \in {0, k - 1}
      BY <1>1, <3>1 DEF ProcInv
    <3> QED BY <2>1, <3>1, <3>2
  <2>2. /\ Len(procs') = npipes /\ Len(procs) = npipes
        /\ \A k \in 1 .. npipes :
             /\ procs'[k].in = procs[k].in /\ procs'[k].out = procs[k].out
             /\ procs'[k].ends = procs[k].ends
    BY MoveFacts
  <2>3. ASSUME NEW k \in 1 .. npipes
        PROVE  /\ procs[k].in \in {0, k - 1} /\ procs[k].out \in {0, k}
               /\ procs[k].in # 0 =>
                    procs[k - 1].out = k - 1 /\ <<k - 1, "r">> \in procs[k].ends
               /\ <<k, "w">> \in procs[k].ends
               /\ \A e \in procs[k].ends : e[1] \in 1 .. k /\ (e[2] = "w" => e[1] = k)
    BY <1>1, <2>2 DEF ProcInv
  <2>4. ASSUME NEW k \in 1 .. npipes, procs[k].in # 0
        PROVE  procs'[k - 1].out = procs[k - 1].out
    BY <2>1, <2>2, <2>4
  <2> QED BY <2>2, <2>3, <2>4 DEF ProcInv
<1>6. LinkInv'
  <2>1. npipes > 0 => npipes \in 1 .. npipes
    BY MoveFacts
  <2> QED BY <1>1, <1>2, <2>1, MoveFacts DEF LinkInv
<1>7. RunInv'
  BY <1>1, <1>2, MoveFacts DEF RunInv
<1> QED BY <1>3, <1>4, <1>5, <1>6, <1>7

LEMMA ChildFacts ==
  ASSUME Inv, NEW j \in DOMAIN procs
  PROVE  /\ npipes \in Nat /\ Len(procs) = npipes /\ DOMAIN procs = 1 .. npipes
         /\ IsProc(procs[j]) /\ held \in Seq(0 .. Capacity) /\ Len(held) = npipes
         /\ procs[j].in \in {0, j - 1} /\ procs[j].out \in {0, j}
<1>1. npipes \in Nat /\ Len(procs) = npipes /\ procs \in Seq(Range(procs))
  BY DEF Inv, TypeOK
<1>2. DOMAIN procs = 1 .. npipes
  BY <1>1, LenProperties
<1> QED BY <1>1, <1>2 DEF Inv, TypeOK, ProcInv

LEMMA TakenType ==
  ASSUME Inv, NEW k \in 1 .. npipes
  PROVE  Taken(k) \in Nat
<1>1. npipes \in Nat /\ Len(procs) = npipes /\ \A l \in 1 .. npipes : IsProc(procs[l])
  BY DEF Inv, TypeOK
<1>2. k < npipes => k + 1 \in 1 .. npipes
  BY <1>1
<1> QED BY <1>1, <1>2 DEF Taken, IsProc

(* What the fields of a child are after an assignment to one of them. *)
LEMMA FieldFacts ==
  ASSUME NEW q, IsProc(q)
  PROVE  /\ LET r == [q EXCEPT !.left = q.left - 1]
            IN  /\ q.left > 0 => IsProc(r)
                /\ r.name = q.name /\ r.in = q.in /\ r.out = q.out /\ r.ends = q.ends
                /\ r.left = q.left - 1 /\ r.took = q.took /\ r.state = q.state
         /\ LET r == [q EXCEPT !.took = q.took + 1]
            IN  /\ IsProc(r)
                /\ r.name = q.name /\ r.in = q.in /\ r.out = q.out /\ r.ends = q.ends
                /\ r.left = q.left /\ r.took = q.took + 1 /\ r.state = q.state
         /\ \A s \in {"ended", "killed"} :
              LET r == [q EXCEPT !.state = s]
              IN  /\ IsProc(r)
                  /\ r.name = q.name /\ r.in = q.in /\ r.out = q.out /\ r.ends = q.ends
                  /\ r.left = q.left /\ r.took = q.took /\ r.state = s
BY DEF IsProc

(* What does not depend on how the child moves. *)
LEMMA OthersKept ==
  ASSUME Inv, NEW j, NEW r, Moves(j, r), NEW k \in 1 .. npipes, k # j
  PROVE  /\ procs'[k].state = "killed" => ~Held(<<k, "r">>)'
         /\ procs'[k].state = "ended" /\ procs'[k].in # 0 /\ procs'[k].name \in Filters
              => procs'[k].took = Total(k - 1)'
         /\ waits' /\ procs'[k].state = "ended" /\ procs'[k].out # 0 => Total(k)' <= Capacity
<1>1. /\ npipes \in Nat /\ Len(procs) = npipes /\ DOMAIN procs = 1 .. npipes
      /\ procs'[k] = procs[k] /\ waits' = waits
      /\ \A l \in 1 .. npipes : Total(l)' = Total(l)
  BY MoveFacts DEF Moves
<1>2. procs'[k].state = "killed" => ~Held(<<k, "r">>)'
  BY <1>1, MoveFacts DEF Inv, KillInv
<1>3. ASSUME procs[k].state = "ended", procs[k].in # 0, procs[k].name \in Filters
      PROVE  procs[k].took = Total(k - 1)'
  <2>1. procs[k].in = k - 1 /\ procs[k].took = Total(k - 1)
    BY <1>1, <1>3 DEF Inv, ProcInv, WholeInput
  <2>2. k - 1 \in 1 .. npipes
    BY <1>1, <1>3, <2>1
  <2> QED BY <1>1, <2>1, <2>2
<1>4. waits' /\ procs'[k].state = "ended" /\ procs'[k].out # 0 => Total(k)' <= Capacity
  BY <1>1 DEF Inv, EndedFits
<1> QED BY <1>1, <1>2, <1>3, <1>4

LEMMA WriteKeeps ==
  ASSUME Inv, NEW j \in DOMAIN procs, WriteUnit(j), UNCHANGED <<lineVars, spc, i, pipeVars>>
  PROVE  Inv'
<1> DEFINE r == [procs[j] EXCEPT !.left = procs[j].left - 1]
           q == procs[j].out
<1>1. /\ npipes \in Nat /\ Len(procs) = npipes /\ DOMAIN procs = 1 .. npipes
      /\ IsProc(procs[j]) /\ held \in Seq(0 .. Capacity) /\ Len(held) = npipes
      /\ q \in {0, j}
  BY ChildFacts
<1>2. /\ Runs(j) /\ procs[j].left > 0 /\ procs' = [procs EXCEPT ![j] = r]
      /\ held' = IF q = 0 THEN held ELSE [held EXCEPT ![j] = held[j] + 1]
      /\ q # 0 => held[j] < Capacity
  BY <1>1 DEF WriteUnit
<1>3. /\ IsProc(r)
      /\ r.name = procs[j].name /\ r.in = procs[j].in /\ r.out = q /\ r.ends = procs[j].ends
      /\ r.left = procs[j].left - 1 /\ r.took = procs[j].took /\ r.state = "running"
  BY <1>1, <1>2, FieldFacts DEF Runs
<1> HIDE DEF r
<1>4. /\ held' \in Seq(0 .. Capacity) /\ Len(held') = npipes
      /\ \A k \in 1 .. npipes : held'[k] = IF k = j /\ q # 0 THEN held[k] + 1 ELSE held[k]
  <2>1. CASE q = 0
    BY <1>1, <1>2, <2>1
  <2>2. CASE q # 0
    <3>1. held[j] + 1 \in 0 .. Capacity /\ j \in 1 .. Len(held)
      BY <1>1, <1>2, <2>2, ShellAssumption
    <3> QED BY <1>1, <1>2, <2>2, <3>1, ExceptSeq
  <2> QED BY <2>1, <2>2
<1>5. Moves(j, r)
  BY <1>1, <1>2, <1>3, <1>4 DEF Moves, lineVars, pipeVars
<1>6. /\ Len(procs') = npipes /\ DOMAIN procs' = 1 .. npipes /\ procs'[j] = r
      /\ \A k \in 1 .. npipes : k # j => procs'[k] = procs[k]
      /\ \A k \in 1 .. npipes : Total(k)' = Total(k)
  BY <1>5, MoveFacts
<1>7. \A k \in 1 .. npipes : Taken(k)' = Taken(k)
  <2> SUFFICES ASSUME NEW k \in 1 .. npipes, k + 1 = j
               PROVE  Taken(k)' = Taken(k)
    BY <1>5, MoveFacts
  <2> QED BY <1>1, <1>3, <1>6 DEF Taken
<1>8. FlowInv'
  <2> SUFFICES ASSUME NEW k \in 1 .. npipes
               PROVE  /\ procs'[k].state = "ended" => procs'[k].left = 0
                      /\ procs'[k].out # 0 => procs'[k].left + held'[k] + Taken(k)' = Total(k)'
    BY <1>6 DEF FlowInv
  <2>1. /\ procs[k].state = "ended" => procs[k].left = 0
        /\ procs[k].out # 0 => procs[k].left + held[k] + Taken(k) = Total(k)
    BY <1>1 DEF Inv, FlowInv
  <2>2. CASE k # j
    BY <1>4, <1>6, <1>7, <2>1, <2>2
  <2>3. CASE k = j
    <3>1. Taken(k) \in Nat
      BY TakenType
    <3>2. held[k] \in Nat /\ procs[k].left \in Nat
      BY <1>1, <2>3, ShellAssumption DEF IsProc
    <3>3. procs'[k] = r /\ Taken(k)' = Taken(k) /\ Total(k)' = Total(k)
      BY <1>6, <1>7, <2>3
    <3>4. ASSUME q # 0
          PROVE  r.left + held'[k] + Taken(k) = Total(k)
      <4>1. procs[k].left + held[k] + Taken(k) = Total(k)
        BY <2>1, <2>3, <3>4
      <4>2. r.left = procs[k].left - 1 /\ held'[k] = held[k] + 1
        BY <1>3, <1>4, <2>3, <3>4
      <4> QED BY <3>1, <3>2, <4>1, <4>2
    <3> QED BY <1>3, <3>3, <3>4
  <2> QED BY <2>2, <2>3
<1>9. KillInv' /\ WholeInput' /\ EndedFits'
  <2>1. KillInv'
    BY <1>3, <1>5, <1>6, OthersKept DEF KillInv
  <2>2. WholeInput'
    BY <1>3, <1>5, <1>6, OthersKept DEF WholeInput
  <2>3. EndedFits'
    BY <1>3, <1>5, <1>6, OthersKept DEF EndedFits
  <2> QED BY <2>1, <2>2, <2>3
<1> QED BY <1>5, <1>8, <1>9, MoveKeeps DEF Inv

LEMMA BrokenKeeps ==
  ASSUME Inv, NEW j \in DOMAIN procs, BrokenPipe(j), UNCHANGED <<lineVars, spc, i, pipeVars>>
  PROVE  Inv'
<1> DEFINE r == [procs[j] EXCEPT !.state = "killed"]
<1>1. /\ npipes \in Nat /\ Len(procs) = npipes /\ DOMAIN procs = 1 .. npipes
      /\ IsProc(procs[j]) /\ held \in Seq(0 .. Capacity) /\ Len(held) = npipes
      /\ procs[j].out \in {0, j}
  BY ChildFacts
<1>2. /\ Runs(j) /\ procs' = [procs EXCEPT ![j] = r] /\ held' = held
      /\ ~Held(<<j, "r">>)
  BY <1>1 DEF BrokenPipe
<1>3. /\ IsProc(r)
      /\ r.name = procs[j].name /\ r.in = procs[j].in /\ r.out = procs[j].out /\ r.ends = procs[j].ends
      /\ r.left = procs[j].left /\ r.took = procs[j].took /\ r.state = "killed"
  BY <1>1, FieldFacts
<1> HIDE DEF r
<1>4. Moves(j, r)
  BY <1>1, <1>2, <1>3 DEF Moves, lineVars, pipeVars
<1>5. /\ Len(procs') = npipes /\ DOMAIN procs' = 1 .. npipes /\ procs'[j] = r
      /\ \A k \in 1 .. npipes : k # j => procs'[k] = procs[k]
      /\ \A k \in 1 .. npipes : Total(k)' = Total(k)
      /\ \A e : Held(e)' => Held(e)
  BY <1>4, MoveFacts
<1>6. \A k \in 1 .. npipes : Taken(k)' = Taken(k)
  <2> SUFFICES ASSUME NEW k \in 1 .. npipes, k + 1 = j
               PROVE  Taken(k)' = Taken(k)
    BY <1>4, MoveFacts
  <2> QED BY <1>1, <1>3, <1>5 DEF Taken
<1>7. FlowInv'
  <2> SUFFICES ASSUME NEW k \in 1 .. npipes
               PROVE  /\ procs'[k].state = "ended" => procs'[k].left = 0
                      /\ procs'[k].out # 0 => procs'[k].left + held'[k] + Taken(k)' = Total(k)'
    BY <1>5 DEF FlowInv
  <2>1. /\ procs[k].state = "ended" => procs[k].left = 0
        /\ procs[k].out # 0 => procs[k].left + held[k] + Taken(k) = Total(k)
    BY <1>1 DEF Inv, FlowInv
  <2>2. /\ procs'[k].out = procs[k].out /\ procs'[k].left = procs[k].left
        /\ held'[k] = held[k] /\ Taken(k)' = Taken(k) /\ Total(k)' = Total(k)
    BY <1>2, <1>3, <1>5, <1>6
  <2>3. procs'[k].state = "ended" => procs'[k].left = 0
    BY <1>2, <1>3, <1>5, <2>1
  <2> QED BY <2>1, <2>2, <2>3
<1>8. KillInv' /\ WholeInput' /\ EndedFits'
  <2>1. KillInv'
    BY <1>2, <1>3, <1>4, <1>5, OthersKept DEF KillInv
  <2>2. WholeInput'
    BY <1>2, <1>3, <1>4, <1>5, OthersKept DEF WholeInput
  <2>3. EndedFits'
    BY <1>2, <1>3, <1>4, <1>5, OthersKept DEF EndedFits
  <2> QED BY <2>1, <2>2, <2>3
<1> QED BY <1>4, <1>7, <1>8, MoveKeeps DEF Inv

LEMMA ReadKeeps ==
  ASSUME Inv, NEW j \in DOMAIN procs, ReadUnit(j), UNCHANGED <<lineVars, spc, i, pipeVars>>
  PROVE  Inv'
<1> DEFINE r == [procs[j] EXCEPT !.took = procs[j].took + 1]
           q == procs[j].in
<1>1. /\ npipes \in Nat /\ Len(procs) = npipes /\ DOMAIN procs = 1 .. npipes
      /\ IsProc(procs[j]) /\ held \in Seq(0 .. Capacity) /\ Len(held) = npipes
      /\ q \in {0, j - 1}
  BY ChildFacts
<1>2. /\ Runs(j) /\ q # 0 /\ procs' = [procs EXCEPT ![j] = r]
      /\ held[q] > 0 /\ held' = [held EXCEPT ![q] = held[q] - 1]
  BY <1>1 DEF ReadUnit
<1>3. /\ IsProc(r)
      /\ r.name = procs[j].name /\ r.in = q /\ r.out = procs[j].out /\ r.ends = procs[j].ends
      /\ r.left = procs[j].left /\ r.took = procs[j].took + 1 /\ r.state = "running"
  BY <1>1, <1>2, FieldFacts DEF Runs
<1> HIDE DEF r
<1>4. q = j - 1 /\ q + 1 = j /\ q \in 1 .. npipes /\ q # j
  <2>1. q = j - 1 /\ j - 1 # 0
    BY <1>1, <1>2
  <2> QED BY <1>1, <2>1
<1>5. /\ held' \in Seq(0 .. Capacity) /\ Len(held') = npipes
      /\ \A k \in 1 .. npipes : held'[k] = IF k = q THEN held[k] - 1 ELSE held[k]
  <2>1. held[q] - 1 \in 0 .. Capacity /\ q \in 1 .. Len(held)
    BY <1>1, <1>2, <1>4, ShellAssumption
  <2> QED BY <1>1, <1>2, <2>1, ExceptSeq
<1>6. Moves(j, r)
  BY <1>1, <1>2, <1>3, <1>5 DEF Moves, lineVars, pipeVars
<1>7. /\ Len(procs') = npipes /\ DOMAIN procs' = 1 .. npipes /\ procs'[j] = r
      /\ \A k \in 1 .. npipes : k # j => procs'[k] = procs[k]
      /\ \A k \in 1 .. npipes : Total(k)' = Total(k)
      /\ \A k \in 1 .. npipes : k + 1 # j => Taken(k)' = Taken(k)
  BY <1>6, MoveFacts
<1>8. \A m : m = q => Taken(m)' = Taken(m) + 1
  BY <1>1, <1>3, <1>4, <1>7 DEF Taken
<1>9. FlowInv'
  <2> SUFFICES ASSUME NEW k \in 1 .. npipes
               PROVE  /\ procs'[k].state = "ended" => procs'[k].left = 0
                      /\ procs'[k].out # 0 => procs'[k].left + held'[k] + Taken(k)' = Total(k)'
    BY <1>7 DEF FlowInv
  <2>1. /\ procs[k].state = "ended" => procs[k].left = 0
        /\ procs[k].out # 0 => procs[k].left + held[k] + Taken(k) = Total(k)
    BY <1>1 DEF Inv, FlowInv
  <2>2. procs'[k].out = procs[k].out /\ procs'[k].left = procs[k].left
    BY <1>3, <1>7
  <2>3. procs'[k].state = procs[k].state
    BY <1>2, <1>3, <1>7 DEF Runs
  <2>4. CASE k # q
    <3>1. k + 1 # j
      BY <1>1, <1>4, <2>4
    <3>2. Taken(k)' = Taken(k) /\ held'[k] = held[k] /\ Total(k)' = Total(k)
      BY <1>5, <1>7, <2>4, <3>1
    <3> QED BY <2>1, <2>2, <2>3, <3>2
  <2>5. CASE k = q
    <3>1. Taken(k)' = Taken(k) + 1 /\ held'[k] = held[k] - 1 /\ Total(k)' = Total(k)
      BY <1>5, <1>7, <1>8, <2>5
    <3>2. Taken(k) \in Nat /\ held[k] \in Nat /\ procs[k].left \in Nat
      <4>1. k \in DOMAIN procs /\ k \in 1 .. Len(held)
        BY <1>1
      <4>2. held[k] \in 0 .. Capacity
        BY <1>1, <4>1, ElementOfSeq
      <4> QED BY <4>1, <4>2, TakenType, ChildFacts, ShellAssumption DEF IsProc
    <3>3. procs[k].out # 0 => procs[k].left + held'[k] + Taken(k)' = Total(k)'
      BY <2>1, <3>1, <3>2
    <3> QED BY <2>1, <2>2, <2>3, <3>3
  <2> QED BY <2>4, <2>5
<1>10. KillInv' /\ WholeInput' /\ EndedFits'
  <2>1. KillInv'
    BY <1>3, <1>6, <1>7, OthersKept DEF KillInv
  <2>2. WholeInput'
    BY <1>3, <1>6, <1>7, OthersKept DEF WholeInput
  <2>3. EndedFits'
    BY <1>3, <1>6, <1>7, OthersKept DEF EndedFits
  <2> QED BY <2>1, <2>2, <2>3
<1> QED BY <1>6, <1>9, <1>10, MoveKeeps DEF Inv

(* The end of the input comes when the child before has ended, and with       *)
(* nothing left in the pipe.                                                  *)
LEMMA ExitKeeps ==
  ASSUME Inv, NEW j \in DOMAIN procs, Exit(j), UNCHANGED <<lineVars, spc, i, pipeVars>>
  PROVE  Inv'
<1> DEFINE r == [procs[j] EXCEPT !.state = "ended"]
           q == procs[j].in
<1>1. /\ npipes \in Nat /\ Len(procs) = npipes /\ DOMAIN procs = 1 .. npipes
      /\ IsProc(procs[j]) /\ held \in Seq(0 .. Capacity) /\ Len(held) = npipes
      /\ q \in {0, j - 1} /\ procs[j].out \in {0, j}
  BY ChildFacts
<1>2. /\ Runs(j) /\ procs' = [procs EXCEPT ![j] = r] /\ held' = held
      /\ procs[j].left = 0
      /\ procs[j].name \in Filters /\ q # 0 => held[q] = 0 /\ ~Held(<<q, "w">>)
  BY <1>1 DEF Exit
<1>3. /\ IsProc(r)
      /\ r.name = procs[j].name /\ r.in = q /\ r.out = procs[j].out /\ r.ends = procs[j].ends
      /\ r.left = procs[j].left /\ r.took = procs[j].took /\ r.state = "ended"
  BY <1>1, FieldFacts
<1> HIDE DEF r
<1>4. Moves(j, r)
  BY <1>1, <1>2, <1>3 DEF Moves, lineVars, pipeVars
<1>5. /\ Len(procs') = npipes /\ DOMAIN procs' = 1 .. npipes /\ procs'[j] = r
      /\ \A k \in 1 .. npipes : k # j => procs'[k] = procs[k]
      /\ \A k \in 1 .. npipes : Total(k)' = Total(k)
      /\ \A k \in 1 .. npipes : k + 1 # j => Taken(k)' = Taken(k)
  BY <1>4, MoveFacts
<1>6. \A k \in 1 .. npipes : Taken(k)' = Taken(k)
  <2> SUFFICES ASSUME NEW k \in 1 .. npipes, k + 1 = j
               PROVE  Taken(k)' = Taken(k)
    BY <1>5
  <2> QED BY <1>1, <1>3, <1>5 DEF Taken
<1>7. FlowInv'
  <2> SUFFICES ASSUME NEW k \in 1 .. npipes
               PROVE  /\ procs'[k].state = "ended" => procs'[k].left = 0
                      /\ procs'[k].out # 0 => procs'[k].left + held'[k] + Taken(k)' = Total(k)'
    BY <1>5 DEF FlowInv
  <2>1. /\ procs[k].state = "ended" => procs[k].left = 0
        /\ procs[k].out # 0 => procs[k].left + held[k] + Taken(k) = Total(k)
    BY <1>1 DEF Inv, FlowInv
  <2>2. /\ procs'[k].out = procs[k].out /\ procs'[k].left = procs[k].left
        /\ held'[k] = held[k] /\ Taken(k)' = Taken(k) /\ Total(k)' = Total(k)
    BY <1>2, <1>3, <1>5, <1>6
  <2>3. procs'[k].state = "ended" => procs'[k].left = 0
    BY <1>2, <1>3, <1>5, <2>1
  <2> QED BY <2>1, <2>2, <2>3
<1>8. ASSUME q # 0, procs[j].name \in Filters
      PROVE  procs[j].took = Total(j - 1)
  <2>1. q = j - 1 /\ q + 1 = j /\ q \in 1 .. npipes /\ q < npipes
    <3>1. q = j - 1 /\ j - 1 # 0
      BY <1>1, <1>8
    <3> QED BY <1>1, <3>1
  <2>2. procs[q].out = q /\ <<q, "r">> \in procs[j].ends /\ <<q, "w">> \in procs[q].ends
    BY <1>1, <1>8, <2>1 DEF Inv, ProcInv
  <2>3. Held(<<q, "r">>)
    BY <1>2, <2>2 DEF Held
  <2>4. procs[q].state # "killed"
    BY <1>1, <2>1, <2>3 DEF Inv, KillInv
  <2>5. procs[q].state # "running"
    BY <1>1, <1>2, <1>8, <2>1, <2>2 DEF Held, Runs
  <2>6. procs[q].state = "ended"
    <3>1. IsProc(procs[q])
      BY <1>1, <2>1, ChildFacts
    <3> QED BY <2>4, <2>5, <3>1 DEF IsProc
  <2>7. procs[q].left = 0 /\ procs[q].left + held[q] + Taken(q) = Total(q)
    BY <1>1, <2>1, <2>2, <2>6 DEF Inv, FlowInv
  <2>8. Taken(q) = procs[j].took /\ held[q] = 0
    BY <1>1, <1>2, <1>8, <2>1 DEF Taken
  <2>9. procs[j].took \in Nat
    BY <1>1 DEF IsProc
  <2> QED BY <2>1, <2>7, <2>8, <2>9
<1>9. WholeInput'
  <2>1. procs'[j].state = "ended" /\ procs'[j].in # 0 /\ procs'[j].name \in Filters
          => procs'[j].took = Total(j - 1)'
    <3>1. q # 0 => j - 1 \in 1 .. npipes
      BY <1>1
    <3> QED BY <1>3, <1>5, <1>8, <3>1
  <2> QED BY <1>4, <1>5, <2>1, OthersKept DEF WholeInput
<1>10. KillInv'
  BY <1>3, <1>4, <1>5, OthersKept DEF KillInv
<1>11. ASSUME waits, procs[j].out # 0
       PROVE  Total(j) <= Capacity
  <2>1. j = npipes
    BY <1>1, <1>2, <1>11 DEF Inv, RunInv
  <2>2. Taken(j) = 0
    BY <1>1, <2>1 DEF Taken
  <2>3. procs[j].left + held[j] + Taken(j) = Total(j)
    BY <1>1, <1>11 DEF Inv, FlowInv
  <2>4. held[j] \in 0 .. Capacity
    BY <1>1, ElementOfSeq
  <2> QED BY <1>2, <2>2, <2>3, <2>4, ShellAssumption
<1>12. EndedFits'
  <2>1. waits' = waits
    BY DEF lineVars
  <2>2. waits' /\ procs'[j].state = "ended" /\ procs'[j].out # 0 => Total(j)' <= Capacity
    BY <1>1, <1>3, <1>5, <1>11, <2>1
  <2> QED BY <1>4, <1>5, <2>2, OthersKept DEF EndedFits
<1> QED BY <1>4, <1>7, <1>9, <1>10, <1>12, MoveKeeps DEF Inv

---------------------------------------------------------------------------
LEMMA NextKeeps == Inv /\ [Next]_vars => Inv'
<1> SUFFICES ASSUME Inv, [Next]_vars
             PROVE  Inv'
  OBVIOUS
<1>1. CASE ReadLine
  BY <1>1, ReadLineKeeps
<1>2. CASE EndOfInput \/ ForkFails
  BY <1>2, StopKeeps
<1>3. CASE ShellStep
  BY <1>3, StartKeeps, EndKeeps DEF ShellStep
<1>4. CASE ProgramStep
  BY <1>4, WriteKeeps, BrokenKeeps, ReadKeeps, ExitKeeps DEF ProgramStep
<1>5. CASE UNCHANGED vars
  <2>1. UNCHANGED <<waits, spc, typed, cmd, i, fds, p, fdin, npipes, held, procs>>
    BY <1>5 DEF vars
  <2>2. ProcInv' /\ FlowInv' /\ KillInv' /\ WholeInput' /\ EndedFits'
    BY <2>1, ProcsSame DEF Alive
  <2>3. TypeOK'
    BY <2>1 DEF Inv, TypeOK
  <2>4. FdInv' /\ LinkInv' /\ RunInv'
    BY <2>1 DEF Inv, FdInv, LinkInv, RunInv, Runs, Alive
  <2>5. CountInv' /\ FirstLineInv'
    BY <2>1 DEF Inv, CountInv, FirstLineInv, Kept, Alive, Leaks, Own
  <2> QED BY <2>2, <2>3, <2>4, <2>5 DEF Inv
<1> QED BY <1>1, <1>2, <1>3, <1>4, <1>5 DEF Next

THEOREM Invariance == Spec => []Inv
BY InitInv, NextKeeps, PTL DEF Spec

(* The shell's and the children's variables keep their types.                 *)
THEOREM TypeCorrect == Spec => []TypeOK
<1>1. Inv => TypeOK
  BY DEF Inv
<1> QED BY <1>1, Invariance, PTL

(* seq_pipe closes enough of its descriptors: of the write end of a pipe that *)
(* is a running program's input there is one holder, the program before it.   *)
THEOREM WriterAlone == Spec => []OnlyWriterHolds
<1>1. ASSUME Inv
      PROVE  OnlyWriterHolds
  <2>1. /\ npipes \in Nat /\ Len(procs) = npipes /\ DOMAIN procs = 1 .. npipes
    <3>1. npipes \in Nat /\ Len(procs) = npipes /\ procs \in Seq(Range(procs))
      BY <1>1 DEF Inv, TypeOK
    <3> QED BY <3>1, LenProperties
  <2> SUFFICES ASSUME NEW j \in 1 .. npipes, procs[j].in # 0
               PROVE  /\ Alive => <<procs[j].in, "w">> \notin Range(fds)
                      /\ \A k \in (1 .. npipes) \ {j - 1} : <<procs[j].in, "w">> \notin procs[k].ends
    BY <2>1 DEF OnlyWriterHolds
  <2>2. procs[j].in = j - 1
    BY <1>1, <2>1 DEF Inv, ProcInv
  <2>3. ASSUME Alive, NEW d \in DOMAIN fds, fds[d] = <<j - 1, "w">>
        PROVE  FALSE
    <3>1. spc = "wait" /\ d = p[2]
      BY <1>1, <2>3 DEF Inv, FdInv
    <3>2. fds[d] = <<npipes, "w">>
      BY <1>1, <3>1 DEF Inv, FdInv
    <3> QED BY <2>1, <2>3, <3>2
  <2>4. ASSUME NEW k \in (1 .. npipes) \ {j - 1}, <<j - 1, "w">> \in procs[k].ends
        PROVE  FALSE
    <3>1. \A e \in procs[k].ends : e[2] = "w" => e[1] = k
      BY <1>1, <2>1 DEF Inv, ProcInv
    <3> QED BY <2>4, <3>1
  <2> QED BY <2>2, <2>3, <2>4 DEF Range
<1> QED BY <1>1, Invariance, PTL

(* A filter that ends has read what the program before it has to write, all   *)
(* of it: neither the shell nor a third program keeps the pipe open, and the  *)
(* program before was not cut off.                                            *)
THEOREM FilterReadsAll == Spec => []WholeInput
<1>1. Inv => WholeInput
  BY DEF Inv
<1> QED BY <1>1, Invariance, PTL

(* With a waitpid() that waits, a program that is not the last of its line    *)
(* ends only if its output fits into the pipe.                                *)
THEOREM OnlyFittingEnd == Spec => []EndedFits
<1>1. Inv => EndedFits
  BY DEF Inv
<1> QED BY <1>1, Invariance, PTL

LEMMA PipesOfDescriptors ==
  ASSUME NEW D, IsFiniteSet(D)
  PROVE  /\ Cardinality({fds[d][1] : d \in D}) \in Nat
         /\ Cardinality({fds[d][1] : d \in D}) <= Cardinality(D)
<1> DEFINE T == {fds[d][1] : d \in D}
           f == [d \in D |-> fds[d][1]]
<1>1. f \in Surjection(D, T)
  BY DEF Surjection
<1>2. IsFiniteSet(T) /\ Cardinality(T) <= Cardinality(D)
  <2> HIDE DEF f, T
  <2> QED BY <1>1, FS_Surjection
<1> QED BY <1>2, FS_CardinalityType

(* A line of any length needs two pipes at a time and leaves one descriptor   *)
(* behind; the numbers of the first line are those 10_exec_pipes.c lists.     *)
THEOREM TwoPipesAtATime == Spec => []DescriptorsReused
<1>1. ASSUME Inv
      PROVE  DescriptorsReused
  <2> SUFFICES ASSUME Alive
               PROVE  /\ Cardinality({fds[d][1] : d \in DOMAIN fds}) <= Leaks + 2
                      /\ spc = "prompt" => Cardinality(DOMAIN fds) = Leaks
                      /\ spc = "wait" /\ Len(typed) = 1 /\ i <= 4
                           => p = <<<<3, 4>>, <<4, 5>>, <<3, 5>>, <<4, 5>>>>[i]
    BY DEF DescriptorsReused
  <2>1. /\ IsFiniteSet(DOMAIN fds) /\ Cardinality(DOMAIN fds) \in Nat /\ Leaks \in Int
        /\ Cardinality(DOMAIN fds) = Leaks + Own
    <3>1. IsFiniteSet(DOMAIN fds) /\ Len(typed) \in Nat
      BY <1>1 DEF Inv, TypeOK
    <3>2. Cardinality(DOMAIN fds) = Leaks + Own
      BY <1>1 DEF Inv, CountInv
    <3> QED BY <3>1, <3>2, FS_CardinalityType DEF Leaks
  <2>2. spc = "prompt" => Cardinality(DOMAIN fds) = Leaks
    BY <2>1 DEF Own
  <2>3. spc = "wait" /\ Len(typed) = 1 /\ i <= 4 => p = <<<<3, 4>>, <<4, 5>>, <<3, 5>>, <<4, 5>>>>[i]
    BY <1>1 DEF Inv, FirstLineInv
  <2>4. Cardinality({fds[d][1] : d \in DOMAIN fds}) <= Leaks + 2
    <3>1. CASE spc # "wait"
      <4>1. Own <= 2 /\ Own \in Nat
        BY <3>1 DEF Own, Alive
      <4>2. /\ Cardinality({fds[d][1] : d \in DOMAIN fds}) \in Nat
            /\ Cardinality({fds[d][1] : d \in DOMAIN fds}) <= Cardinality(DOMAIN fds)
        BY <2>1, PipesOfDescriptors
      <4> QED BY <2>1, <4>1, <4>2
    <3>2. CASE spc = "wait"
      <4> DEFINE D == DOMAIN fds \ {p[2]}
      <4>1. /\ p[1] \in D /\ p[2] \in DOMAIN fds /\ fds[p[1]][1] = fds[p[2]][1]
        BY <1>1, <3>2 DEF Inv, FdInv
      <4>2. {fds[d][1] : d \in DOMAIN fds} = {fds[d][1] : d \in D}
        BY <4>1
      <4>3. IsFiniteSet(D) /\ Cardinality(D) = Cardinality(DOMAIN fds) - 1
        BY <2>1, <4>1, FS_RemoveElement
      <4> HIDE DEF D
      <4>4. /\ Cardinality({fds[d][1] : d \in D}) \in Nat
            /\ Cardinality({fds[d][1] : d \in D}) <= Cardinality(D)
        BY <4>3, PipesOfDescriptors
      <4>5. Own <= 3 /\ Own \in Nat
        BY <3>2 DEF Own
      <4>6. Cardinality(D) <= Leaks + 2 /\ Cardinality(D) \in Int /\ Leaks + 2 \in Int
        BY <2>1, <4>3, <4>5
      <4>7. Cardinality({fds[d][1] : d \in D}) <= Leaks + 2
        BY <4>4, <4>6
      <4> QED BY <4>2, <4>7, Zenon
    <3> QED BY <3>1, <3>2
  <2> QED BY <2>2, <2>3, <2>4
<1> QED BY <1>1, Invariance, PTL
---------------------------------------------------------------------------
(* The parser.                                                                *)
(* The bars among the first n characters, for a line of any length. *)
LEMMA BarsExist ==
  ASSUME NEW l \in Seq(Char)
  PROVE  \E g : g = [n \in 0 .. Len(l) |->
                       IF n = 0 THEN <<>>
                       ELSE IF l[n] = "|" THEN Append(g[n - 1], n) ELSE g[n - 1]]
<1> DEFINE Grown(x, n) == IF l[n] = "|" THEN Append(x, n) ELSE x
           Good(g, n) == /\ g = [k \in 0 .. n |-> g[k]] /\ g[0] = <<>>
                         /\ \A k \in 1 .. n : g[k] = Grown(g[k - 1], k)
           Bad == {n \in 0 .. Len(l) : ~\E g : Good(g, n)}
<1>1. Len(l) \in Nat
  OBVIOUS
<1> HIDE DEF Grown
<1>2. Bad = {}
  <2>1. SUFFICES ASSUME Bad # {} PROVE FALSE
    OBVIOUS
  <2>2. PICK m \in Bad : \A n \in Bad : m <= n
    <3>1. Bad \in SUBSET Nat
      BY <1>1
    <3> HIDE DEF Bad
    <3> QED BY <2>1, <3>1, HasLeast
  <2>3. m \in 0 .. Len(l) /\ m \in Nat
    BY <1>1
  <2>4. m # 0
    <3>1. Good([k \in 0 .. 0 |-> <<>>], 0)
      OBVIOUS
    <3> HIDE DEF Good
    <3> QED BY <2>2, <3>1
  <2>5. m - 1 \in 0 .. Len(l) /\ m - 1 \notin Bad
    <3>1. m - 1 \in 0 .. Len(l) /\ ~(m <= m - 1)
      BY <1>1, <2>3, <2>4
    <3> HIDE DEF Bad
    <3> QED BY <2>2, <3>1, Zenon
  <2> HIDE DEF Good
  <2>6. PICK g : Good(g, m - 1)
    BY <2>5
  <2> DEFINE h == [k \in 0 .. m |-> IF k = m THEN Grown(g[m - 1], m) ELSE g[k]]
  <2>7. Good(h, m)
    <3>1. h = [k \in 0 .. m |-> h[k]]
      OBVIOUS
    <3>2. h[0] = <<>>
      BY <2>3, <2>4, <2>6 DEF Good
    <3>3. ASSUME NEW k \in 1 .. m PROVE h[k] = Grown(h[k - 1], k)
      <4>1. k - 1 \in 0 .. m /\ k - 1 # m /\ h[k - 1] = g[k - 1]
        BY <2>3
      <4>2. CASE k = m
        <5>1. h[m] = Grown(g[m - 1], m)
          <6>1. m \in 0 .. m
            BY <2>3
          <6> QED BY <6>1, Zenon
        <5> QED BY <4>1, <4>2, <5>1, Zenon
      <4>3. CASE k # m
        <5>1. k \in 1 .. m - 1 /\ k \in 0 .. m
          BY <2>3, <4>3
        <5>2. h[k] = g[k]
          BY <4>3, <5>1
        <5>3. g[k] = Grown(g[k - 1], k)
          <6> HIDE DEF h
          <6> QED BY <2>6, <5>1 DEF Good
        <5> HIDE DEF h
        <5> QED BY <4>1, <5>2, <5>3
      <4> QED BY <4>2, <4>3
    <3> HIDE DEF h
    <3> QED BY <3>1, <3>2, <3>3 DEF Good
  <2> QED BY <2>2, <2>7
<1>3. PICK g : Good(g, Len(l))
  BY <1>1, <1>2
<1>4. ASSUME NEW n \in 0 .. Len(l)
      PROVE  g[n] = IF n = 0 THEN <<>>
                    ELSE IF l[n] = "|" THEN Append(g[n - 1], n) ELSE g[n - 1]
  <2>1. n # 0 => n \in 1 .. Len(l)
    BY <1>1
  <2> QED BY <1>3, <2>1 DEF Grown
<1> HIDE DEF Grown
<1>5. g = [n \in 0 .. Len(l) |-> g[n]]
  BY <1>3
<1> QED BY <1>4, <1>5

LEMMA BarsStep ==
  ASSUME NEW l \in Seq(Char)
  PROVE  /\ Bars(l)[0] = <<>>
         /\ \A n \in 1 .. Len(l) :
              Bars(l)[n] = IF l[n] = "|" THEN Append(Bars(l)[n - 1], n) ELSE Bars(l)[n - 1]
<1> DEFINE Step(f) == [n \in 0 .. Len(l) |->
                         IF n = 0 THEN <<>>
                         ELSE IF l[n] = "|" THEN Append(f[n - 1], n) ELSE f[n - 1]]
           b == Bars(l)
<1>1. Len(l) \in Nat
  OBVIOUS
<1>2. \E g : g = Step(g)
  BY BarsExist
<1>3. b = CHOOSE f : f = Step(f)
  BY DEF Bars
<1>4. b = Step(b)
  <2> HIDE DEF Step, b
  <2> QED BY <1>2, <1>3, Zenon
<1> HIDE DEF b
<1>5. Step(b)[0] = <<>>
  BY <1>1
<1>6. ASSUME NEW n \in 1 .. Len(l)
      PROVE  Step(b)[n] = IF l[n] = "|" THEN Append(b[n - 1], n) ELSE b[n - 1]
  <2>1. n \in 0 .. Len(l) /\ n # 0
    BY <1>1
  <2>2. Step(b)[n] = IF n = 0 THEN <<>>
                     ELSE IF l[n] = "|" THEN Append(b[n - 1], n) ELSE b[n - 1]
    BY <2>1
  <2> HIDE DEF Step
  <2> QED BY <2>1, <2>2
<1> HIDE DEF Step
<1>7. b[0] = <<>>
  BY <1>4, <1>5, Zenon
<1>8. ASSUME NEW n \in 1 .. Len(l)
      PROVE  b[n] = IF l[n] = "|" THEN Append(b[n - 1], n) ELSE b[n - 1]
  <2>1. b[n] = Step(b)[n]
    BY <1>4, Zenon
  <2> QED BY <1>6, <2>1
<1> QED BY <1>7, <1>8 DEF b

(* c is a sequence of bars among the first n characters of l, in their order. *)
InOrder(l, n, c) ==
  /\ c \in Seq(Nat)
  /\ \A k \in 1 .. Len(c) : c[k] \in 1 .. n /\ l[c[k]] = "|"
  /\ \A k \in 1 .. Len(c) - 1 : c[k] < c[k + 1]

(* Numbers in order stay so with a larger one behind them. *)
LEMMA OneMoreCut ==
  ASSUME NEW n \in Nat, NEW c \in Seq(Nat), NEW d \in Nat, n < d,
         \A k \in 1 .. Len(c) : c[k] \in 1 .. n,
         \A k \in 1 .. Len(c) - 1 : c[k] < c[k + 1]
  PROVE  /\ Append(c, d) \in Seq(Nat) /\ Len(Append(c, d)) = Len(c) + 1 /\ Len(c) \in Nat
         /\ Append(c, d)[Len(c) + 1] = d
         /\ \A k \in 1 .. Len(c) : Append(c, d)[k] = c[k]
         /\ \A k \in 1 .. Len(c) : Append(c, d)[k] < Append(c, d)[k + 1]
<1> DEFINE a == Append(c, d)
<1>1. /\ a \in Seq(Nat) /\ Len(a) = Len(c) + 1 /\ Len(c) \in Nat /\ a[Len(c) + 1] = d
      /\ \A k \in 1 .. Len(c) : a[k] = c[k]
  OBVIOUS
<1> HIDE DEF a
<1>2. ASSUME NEW k \in 1 .. Len(c) PROVE a[k] < a[k + 1]
  <2>1. CASE k = Len(c)
    <3>1. a[k] = c[k] /\ a[k + 1] = d /\ c[k] \in 1 .. n
      BY <1>1, <2>1
    <3> QED BY <3>1
  <2>2. CASE k # Len(c)
    <3>1. k \in 1 .. Len(c) - 1 /\ k + 1 \in 1 .. Len(c)
      BY <1>1, <2>2
    <3> QED BY <1>1, <3>1
  <2> QED BY <2>1, <2>2
<1> QED BY <1>1, <1>2 DEF a

LEMMA BarsAre ==
  ASSUME NEW l \in Seq(Char), NEW n \in 0 .. Len(l)
  PROVE  InOrder(l, n, Bars(l)[n])
<1> DEFINE b == Bars(l)
           Bad == {m \in 0 .. Len(l) : ~InOrder(l, m, b[m])}
<1>1. Len(l) \in Nat
  OBVIOUS
<1>2. /\ b[0] = <<>>
      /\ \A m \in 1 .. Len(l) : b[m] = IF l[m] = "|" THEN Append(b[m - 1], m) ELSE b[m - 1]
  BY BarsStep
<1> HIDE DEF b
<1>3. Bad = {}
  <2>1. SUFFICES ASSUME Bad # {} PROVE FALSE
    OBVIOUS
  <2>2. PICK m \in Bad : \A k \in Bad : m <= k
    <3>1. Bad \in SUBSET Nat
      BY <1>1
    <3> HIDE DEF Bad
    <3> QED BY <2>1, <3>1, HasLeast
  <2>3. m \in 0 .. Len(l) /\ m # 0
    <3>1. InOrder(l, 0, <<>>)
      BY DEF InOrder
    <3> QED BY <1>2, <2>2, <3>1
  <2>4. m - 1 \in 0 .. Len(l) /\ m - 1 \notin Bad /\ m \in 1 .. Len(l) /\ m - 1 \in Nat
    <3>1. m - 1 \in 0 .. Len(l) /\ ~(m <= m - 1) /\ m \in 1 .. Len(l) /\ m - 1 \in Nat
      BY <1>1, <2>3
    <3> HIDE DEF Bad
    <3> QED BY <2>2, <3>1, Zenon
  <2> DEFINE c == b[m - 1]
  <2>5. InOrder(l, m - 1, c)
    BY <2>4
  <2> HIDE DEF c
  <2>6. c \in Seq(Nat) /\ Len(c) \in Nat
    BY <2>5 DEF InOrder
  <2>7. CASE l[m] # "|"
    <3>1. b[m] = c
      BY <1>2, <2>4, <2>7 DEF c
    <3>2. InOrder(l, m, c)
      BY <2>4, <2>5 DEF InOrder
    <3> QED BY <2>2, <3>1, <3>2
  <2>8. CASE l[m] = "|"
    <3> DEFINE a == Append(c, m)
    <3>1. b[m] = a
      BY <1>2, <2>4, <2>8 DEF c
    <3>2. /\ a \in Seq(Nat) /\ Len(a) = Len(c) + 1 /\ a[Len(c) + 1] = m
          /\ \A k \in 1 .. Len(c) : a[k] = c[k]
          /\ \A k \in 1 .. Len(c) : a[k] < a[k + 1]
      <4>1. /\ \A k \in 1 .. Len(c) : c[k] \in 1 .. m - 1
            /\ \A k \in 1 .. Len(c) - 1 : c[k] < c[k + 1]
        BY <2>5 DEF InOrder
      <4>2. m - 1 \in Nat /\ m \in Nat /\ m - 1 < m
        BY <2>4
      <4> QED BY <2>6, <4>1, <4>2, OneMoreCut
    <3> HIDE DEF a
    <3>3. ASSUME NEW k \in 1 .. Len(a) PROVE a[k] \in 1 .. m /\ l[a[k]] = "|"
      <4>1. CASE k \in 1 .. Len(c)
        <5>1. c[k] \in 1 .. m - 1 /\ l[c[k]] = "|" /\ a[k] = c[k]
          BY <2>5, <3>2, <4>1 DEF InOrder
        <5> QED BY <2>4, <5>1
      <4>2. CASE k = Len(c) + 1
        BY <2>4, <2>8, <3>2, <4>2
      <4> QED BY <2>6, <3>2, <4>1, <4>2
    <3>4. \A k \in 1 .. Len(a) - 1 : a[k] < a[k + 1]
      BY <2>6, <3>2
    <3>5. InOrder(l, m, a)
      BY <3>2, <3>3, <3>4 DEF InOrder
    <3> QED BY <2>2, <3>1, <3>5
  <2> QED BY <2>7, <2>8
<1> QED BY <1>3 DEF b

(* The cuts of a line: its bars in their order and its end. *)
LEMMA CutsAre ==
  ASSUME NEW l \in Seq(Char)
  PROVE  /\ Cuts(l) \in Seq(Nat) /\ Len(Cuts(l)) \in Nat /\ Len(Cuts(l)) >= 1
         /\ Cuts(l)[Len(Cuts(l))] = Len(l) + 1
         /\ \A k \in 1 .. Len(Cuts(l)) - 1 : /\ Cuts(l)[k] \in 1 .. Len(l) /\ l[Cuts(l)[k]] = "|"
                                             /\ Cuts(l)[k] < Cuts(l)[k + 1]
<1> DEFINE c == Bars(l)[Len(l)]
           a == Append(c, Len(l) + 1)
<1>1. Len(l) \in Nat /\ Len(l) + 1 \in Nat /\ Len(l) < Len(l) + 1
  OBVIOUS
<1>2. InOrder(l, Len(l), c)
  <2>1. Len(l) \in 0 .. Len(l)
    BY <1>1
  <2> QED BY <2>1, BarsAre
<1> HIDE DEF c
<1>3. /\ c \in Seq(Nat)
      /\ \A k \in 1 .. Len(c) : c[k] \in 1 .. Len(l) /\ l[c[k]] = "|"
      /\ \A k \in 1 .. Len(c) - 1 : c[k] < c[k + 1]
  BY <1>2 DEF InOrder
<1>4. /\ a \in Seq(Nat) /\ Len(a) = Len(c) + 1 /\ Len(c) \in Nat
      /\ a[Len(c) + 1] = Len(l) + 1
      /\ \A k \in 1 .. Len(c) : a[k] = c[k]
      /\ \A k \in 1 .. Len(c) : a[k] < a[k + 1]
  BY <1>1, <1>3, OneMoreCut
<1>5. Cuts(l) = a
  BY DEF Cuts, c
<1> HIDE DEF a
<1>6. ASSUME NEW k \in 1 .. Len(a) - 1
      PROVE  a[k] \in 1 .. Len(l) /\ l[a[k]] = "|" /\ a[k] < a[k + 1]
  <2>1. k \in 1 .. Len(c)
    BY <1>4
  <2> QED BY <1>3, <1>4, <2>1
<1>7. Len(a) \in Nat /\ Len(a) >= 1 /\ a[Len(a)] = Len(l) + 1
  BY <1>4
<1> QED BY <1>4, <1>5, <1>6, <1>7

(* The first word of s has its first letter at f and ends before t. *)
WordFrom(s, f) ==
  /\ f \in 1 .. Len(s) + 1
  /\ \A m \in 1 .. f - 1 : s[m] = Space
  /\ f <= Len(s) => s[f] # Space

WordTo(s, f, t) ==
  /\ t \in f .. Len(s) + 1
  /\ \A m \in f .. t - 1 : s[m] # Space
  /\ t <= Len(s) => s[t] = Space

LEMMA WordIs ==
  ASSUME NEW s \in Seq(Char)
  PROVE  \E f, t \in Nat : WordFrom(s, f) /\ WordTo(s, f, t) /\ Word(s) = SubSeq(s, f, t - 1)
<1>1. Len(s) \in Nat
  OBVIOUS
<1> DEFINE IsFrom(n) == /\ \A m \in 1 .. n - 1 : s[m] = Space
                        /\ n <= Len(s) => s[n] # Space
           from == CHOOSE n \in 1 .. Len(s) + 1 : IsFrom(n)
           IsTo(n) == /\ \A m \in from .. n - 1 : s[m] # Space
                      /\ n <= Len(s) => s[n] = Space
           to == CHOOSE n \in from .. Len(s) + 1 : IsTo(n)
<1>2. Word(s) = SubSeq(s, from, to - 1)
  BY DEF Word
<1>3. \E n \in 1 .. Len(s) + 1 : IsFrom(n)
  <2> DEFINE E == {n \in 1 .. Len(s) + 1 : n <= Len(s) => s[n] # Space}
  <2>1. E \in SUBSET Nat /\ E # {}
    <3>1. Len(s) + 1 \in E
      BY <1>1
    <3>2. \A n \in E : n \in Nat
      BY <1>1
    <3> QED BY <3>1, <3>2, Zenon
  <2>2. PICK n \in E : \A k \in E : n <= k
    <3> HIDE DEF E
    <3> QED BY <2>1, HasLeast
  <2>3. ASSUME NEW m \in 1 .. n - 1 PROVE s[m] = Space
    <3>1. m \in 1 .. Len(s) + 1 /\ m <= Len(s) /\ ~(n <= m)
      BY <1>1, <2>2
    <3> QED BY <2>2, <3>1
  <2> QED BY <2>2, <2>3
<1>4. from \in 1 .. Len(s) + 1 /\ IsFrom(from)
  <2> HIDE DEF IsFrom
  <2> QED BY <1>3, Zenon
<1> HIDE DEF from
<1>5. \E n \in from .. Len(s) + 1 : IsTo(n)
  <2> DEFINE E == {n \in from .. Len(s) + 1 : n <= Len(s) => s[n] = Space}
  <2>1. E \in SUBSET Nat /\ E # {}
    <3>1. Len(s) + 1 \in E
      BY <1>1, <1>4
    <3>2. \A n \in E : n \in Nat
      BY <1>1, <1>4
    <3> QED BY <3>1, <3>2, Zenon
  <2>2. PICK n \in E : \A k \in E : n <= k
    <3> HIDE DEF E
    <3> QED BY <2>1, HasLeast
  <2>3. ASSUME NEW m \in from .. n - 1 PROVE s[m] # Space
    <3>1. m \in from .. Len(s) + 1 /\ m <= Len(s) /\ ~(n <= m)
      BY <1>1, <1>4, <2>2
    <3> QED BY <2>2, <3>1
  <2> QED BY <2>2, <2>3
<1>6. to \in from .. Len(s) + 1 /\ IsTo(to)
  <2> HIDE DEF IsTo
  <2> QED BY <1>5, Zenon
<1> HIDE DEF to
<1>7. from \in Nat /\ to \in Nat
  BY <1>1, <1>4, <1>6
<1>8. WordFrom(s, from) /\ WordTo(s, from, to)
  BY <1>4, <1>6 DEF WordFrom, WordTo
<1> QED BY <1>2, <1>7, <1>8

LEMMA OneWord ==
  ASSUME NEW s \in Seq(Char), NEW f \in Nat, NEW t \in Nat, NEW g \in Nat, NEW u \in Nat,
         WordFrom(s, f), WordTo(s, f, t), WordFrom(s, g), WordTo(s, g, u)
  PROVE  f = g /\ t = u
<1>1. Len(s) \in Nat
  OBVIOUS
<1>2. f = g
  BY <1>1 DEF WordFrom
<1>3. t = u
  BY <1>1, <1>2 DEF WordTo, WordFrom
<1> QED BY <1>2, <1>3

(* strtok skips a space before the first word. *)
LEMMA SpaceSkipped ==
  ASSUME NEW s \in Seq(Char), NEW t \in Seq(Char), Len(s) = Len(t) + 1, s[1] = Space,
         \A m \in 1 .. Len(t) : s[m + 1] = t[m]
  PROVE  Word(s) = Word(t)
<1>1. Len(t) \in Nat /\ Len(s) \in Nat
  OBVIOUS
<1>2. PICK f \in Nat, e \in Nat : WordFrom(t, f) /\ WordTo(t, f, e) /\ Word(t) = SubSeq(t, f, e - 1)
  BY WordIs
<1>3. PICK g \in Nat, u \in Nat : WordFrom(s, g) /\ WordTo(s, g, u) /\ Word(s) = SubSeq(s, g, u - 1)
  BY WordIs
<1>4. ASSUME NEW m \in 2 .. Len(s) PROVE s[m] = t[m - 1]
  <2>1. m - 1 \in 1 .. Len(t) /\ (m - 1) + 1 = m
    BY <1>1
  <2> QED BY <2>1
<1>5. WordFrom(s, f + 1)
  <2>1. /\ f \in 1 .. Len(t) + 1 /\ \A m \in 1 .. f - 1 : t[m] = Space
        /\ f <= Len(t) => t[f] # Space
    BY <1>2 DEF WordFrom
  <2>2. ASSUME NEW m \in 1 .. (f + 1) - 1 PROVE s[m] = Space
    <3>1. m = 1 \/ (m \in 2 .. Len(s) /\ m - 1 \in 1 .. f - 1)
      BY <1>1, <2>1
    <3> QED BY <1>4, <2>1, <3>1
  <2>3. f + 1 <= Len(s) => s[f + 1] # Space
    BY <1>1, <2>1
  <2>4. f + 1 \in 1 .. Len(s) + 1
    BY <1>1, <2>1
  <2> QED BY <2>2, <2>3, <2>4 DEF WordFrom
<1>6. WordTo(s, f + 1, e + 1)
  <2>1. /\ e \in f .. Len(t) + 1 /\ \A m \in f .. e - 1 : t[m] # Space
        /\ e <= Len(t) => t[e] = Space /\ f >= 1
    BY <1>2 DEF WordTo, WordFrom
  <2>2. f >= 1
    BY <1>2 DEF WordFrom
  <2>3. ASSUME NEW m \in f + 1 .. (e + 1) - 1 PROVE s[m] # Space
    <3>1. m \in 2 .. Len(s) /\ m - 1 \in f .. e - 1
      BY <1>1, <2>1, <2>2
    <3> QED BY <1>4, <2>1, <3>1
  <2>4. e + 1 <= Len(s) => s[e + 1] = Space
    BY <1>1, <2>1, <2>2
  <2>5. e + 1 \in f + 1 .. Len(s) + 1
    BY <1>1, <2>1
  <2> QED BY <2>3, <2>4, <2>5 DEF WordTo
<1>7. g = f + 1 /\ u = e + 1
  BY <1>3, <1>5, <1>6, OneWord
<1>8. f >= 1 /\ f <= e /\ e - 1 <= Len(t)
  BY <1>1, <1>2 DEF WordFrom, WordTo
<1> DEFINE v == SubSeq(t, f, e - 1)
           w == SubSeq(s, f + 1, e)
<1>9. /\ v \in Seq(Char) /\ Len(v) = e - f
      /\ \A k \in 1 .. e - f : v[k] = t[f + k - 1]
  BY <1>1, <1>8
<1>10. /\ w \in Seq(Char) /\ Len(w) = e - f
       /\ \A k \in 1 .. e - f : w[k] = s[f + k]
  BY <1>1, <1>8
<1>11. ASSUME NEW k \in 1 .. e - f PROVE s[f + k] = t[f + k - 1]
  <2>1. f + k - 1 \in 1 .. Len(t) /\ (f + k - 1) + 1 = f + k
    BY <1>1, <1>8
  <2> QED BY <2>1
<1>12. Word(s) = w /\ Word(t) = v
  <2>1. u - 1 = e
    BY <1>7
  <2> QED BY <1>2, <1>3, <1>7, <2>1
<1> HIDE DEF v, w
<1>13. v = w
  <2>1. Len(v) = Len(w) /\ \A k \in 1 .. Len(v) : v[k] = w[k]
    BY <1>9, <1>10, <1>11
  <2> QED BY <1>9, <1>10, <2>1, SeqEqual
<1> QED BY <1>12, <1>13

(* The words of a line whose bars are each followed by a space: it makes no   *)
(* difference whether one character is skipped or two.                        *)
FirstAfterBar(l, k) == IF k = 1 THEN 1 ELSE Cuts(l)[k - 1] + 1

LEMMA CommandsAre ==
  ASSUME NEW l \in Seq(Char),
         \A n \in DOMAIN l : l[n] = "|" => n < Len(l) /\ l[n + 1] = Space,
         NEW k \in 1 .. Len(Cuts(l))
  PROVE  Word(SubSeq(l, First(l, k), Cuts(l)[k] - 1))
           = Word(SubSeq(l, FirstAfterBar(l, k), Cuts(l)[k] - 1))
<1> DEFINE c == Cuts(l)
           a == c[k - 1]
           d == c[k]
<1>1. Len(l) \in Nat /\ DOMAIN l = 1 .. Len(l)
  OBVIOUS
<1>2. /\ c \in Seq(Nat) /\ Len(c) \in Nat /\ Len(c) >= 1 /\ c[Len(c)] = Len(l) + 1
      /\ \A j \in 1 .. Len(c) - 1 : c[j] \in 1 .. Len(l) /\ l[c[j]] = "|" /\ c[j] < c[j + 1]
  BY CutsAre
<1>3. CASE k = 1
  BY <1>3 DEF First, FirstAfterBar
<1>4. CASE k # 1
  <2> HIDE DEF c
  <2>1. k - 1 \in 1 .. Len(c) - 1 /\ (k - 1) + 1 = k /\ k \in 1 .. Len(c)
    BY <1>2, <1>4 DEF c
  <2>2. a \in 1 .. Len(l) /\ l[a] = "|" /\ a < d
    BY <1>2, <2>1
  <2>3. d \in Nat /\ (d = Len(l) + 1 \/ (d \in 1 .. Len(l) /\ l[d] = "|"))
    <3>1. CASE k = Len(c)
      BY <1>1, <1>2, <3>1
    <3>2. CASE k # Len(c)
      <4>1. k \in 1 .. Len(c) - 1
        BY <1>2, <2>1, <3>2
      <4> QED BY <1>2, <4>1
    <3> QED BY <3>1, <3>2
  <2> HIDE DEF a, d
  <2>4. a < Len(l) /\ l[a + 1] = Space
    BY <1>1, <2>2
  <2>5. d # a + 1
    <3>1. "|" # Space
      BY Zenon DEF Space
    <3> QED BY <1>1, <2>2, <2>3, <2>4, <3>1
  <2>6. a \in Nat /\ d \in Nat /\ a + 2 <= d /\ d - 1 <= Len(l)
    BY <1>1, <2>2, <2>3, <2>5
  <2> DEFINE s == SubSeq(l, a + 1, d - 1)
             t == SubSeq(l, a + 2, d - 1)
  <2>7. /\ s \in Seq(Char) /\ Len(s) = d - 1 - a
        /\ \A m \in 1 .. d - 1 - a : s[m] = l[a + m]
    BY <1>1, <2>6
  <2>8. /\ t \in Seq(Char) /\ Len(t) = d - 2 - a
        /\ \A m \in 1 .. d - 2 - a : t[m] = l[a + 1 + m]
    BY <1>1, <2>6
  <2> HIDE DEF s, t
  <2>9. Len(s) = Len(t) + 1 /\ s[1] = Space
    <3>1. 1 \in 1 .. d - 1 - a
      BY <2>6
    <3> QED BY <2>4, <2>6, <2>7, <2>8, <3>1
  <2>10. ASSUME NEW m \in 1 .. Len(t) PROVE s[m + 1] = t[m]
    <3>1. m + 1 \in 1 .. d - 1 - a /\ a + (m + 1) = a + 1 + m /\ m \in 1 .. d - 2 - a
      BY <2>6, <2>8
    <3> QED BY <2>7, <2>8, <3>1
  <2>11. Word(s) = Word(t)
    BY <2>7, <2>8, <2>9, <2>10, SpaceSkipped
  <2>12. First(l, k) = a + 2 /\ FirstAfterBar(l, k) = a + 1
    BY <1>4 DEF First, Skip, FirstAfterBar, a, c
  <2> QED BY <2>11, <2>12 DEF s, t, d, c
<1> QED BY <1>3, <1>4

(* The commands are those of the last line until the shell prompts again. *)
ParseInv ==
  /\ typed \in Seq(Seq(Char))
  /\ spc \in {"start", "wait"} => typed # <<>> /\ cmd = Commands(Line)

LEMMA ReadLineParses ==
  ASSUME ParseInv, ReadLine
  PROVE  ParseInv'
<1>1. PICK l \in Lines[Len(typed) + 1] :
        /\ typed' = Append(typed, l)
        /\ IF Overruns(l) THEN spc' = "killed" /\ cmd' = cmd
                          ELSE spc' = "start" /\ cmd' = Commands(l)
  BY DEF ReadLine
<1>2. l \in Seq(Char)
  <2> DEFINE S == SUBSET Seq(Char)
  <2>1. Lines \in Seq(S) /\ Len(typed) \in Nat /\ Len(typed) + 1 \in 1 .. Len(Lines)
    <3>1. Lines \in Seq(S) /\ Len(Lines) \in Nat
      BY ShellAssumption
    <3>2. Len(typed) \in Nat /\ Len(typed) < Len(Lines)
      BY DEF ReadLine, ParseInv
    <3> QED BY <3>1, <3>2
  <2>2. Lines[Len(typed) + 1] \in S
    <3> HIDE DEF S
    <3> QED BY <2>1
  <2> QED BY <1>1, <2>2
<1>3. /\ typed' \in Seq(Seq(Char)) /\ typed' # <<>> /\ typed'[Len(typed')] = l
  <2> DEFINE S == Seq(Char)
  <2>1. typed \in Seq(S) /\ l \in S
    BY <1>2 DEF ParseInv
  <2> HIDE DEF S
  <2>2. /\ Append(typed, l) \in Seq(S) /\ Append(typed, l) # <<>>
        /\ Append(typed, l)[Len(Append(typed, l))] = l
    BY <2>1
  <2> QED BY <1>1, <2>2 DEF S
<1> QED BY <1>1, <1>3 DEF ParseInv, Line, Commands

LEMMA ParseStep == ParseInv /\ [Next]_vars => ParseInv'
<1> SUFFICES ASSUME ParseInv, [Next]_vars PROVE ParseInv'
  OBVIOUS
<1>1. CASE ReadLine
  BY <1>1, ReadLineParses
<1>2. CASE EndOfInput \/ ForkFails \/ ShellStep \/ ProgramStep \/ UNCHANGED vars
  <2>1. /\ UNCHANGED <<typed, cmd>>
        /\ spc' \in {"start", "wait"} => spc \in {"start", "wait"}
    BY <1>2 DEF EndOfInput, ForkFails, ShellStep, StartCommand, EndCommand, ProgramStep,
                vars, lineVars
  <2> QED BY <2>1 DEF ParseInv, Line, Commands
<1> QED BY <1>1, <1>2 DEF Next

(* The commands the shell runs are those of the line it has read last.        *)
THEOREM ParseInvariance == Spec => []ParseInv
<1>1. Init => ParseInv
  BY DEF Init, ParseInv
<1> QED BY <1>1, ParseStep, PTL DEF Spec

(* A line with a space after every bar is run as it is written: parse_cmdline *)
(* cuts it at the bars, and skips nothing but that space with each.           *)
THEOREM ParsesAsWritten == Spec => []ParsedAsWritten
<1>1. ParseInv => ParsedAsWritten
  <2> SUFFICES ASSUME ParseInv, spc = "start",
                      \A n \in DOMAIN Line : Line[n] = "|" => n < Len(Line) /\ Line[n + 1] = Space
               PROVE  cmd = [k \in 1 .. Len(Cuts(Line)) |->
                               Word(SubSeq(Line, FirstAfterBar(Line, k), Cuts(Line)[k] - 1))]
    BY DEF ParsedAsWritten, FirstAfterBar
  <2>1. Line \in Seq(Char)
    <3> DEFINE S == Seq(Char)
    <3>1. typed \in Seq(S) /\ typed # <<>>
      BY DEF ParseInv
    <3> HIDE DEF S
    <3>2. typed[Len(typed)] \in S
      BY <3>1
    <3> QED BY <3>2 DEF S, Line
  <2>2. cmd = [k \in 1 .. Len(Cuts(Line)) |->
                 Word(SubSeq(Line, First(Line, k), Cuts(Line)[k] - 1))]
    BY DEF ParseInv, Commands
  <2>3. \A k \in 1 .. Len(Cuts(Line)) :
          Word(SubSeq(Line, First(Line, k), Cuts(Line)[k] - 1))
            = Word(SubSeq(Line, FirstAfterBar(Line, k), Cuts(Line)[k] - 1))
    BY <2>1, CommandsAre
  <2> QED BY <2>2, <2>3, Zenon
<1> QED BY <1>1, ParseInvariance, PTL
=============================================================================
