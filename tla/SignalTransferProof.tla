------------------------ MODULE SignalTransferProof ------------------------
(***************************************************************************)
(* What holds of the transfer by signals for every size of the file and of *)
(* the sender's buffer: the types, and that the receiver writes no package *)
(* twice and none after a later one, whatever is dropped or overtaken, and *)
(* that of two packages in a row it writes at least one.                   *)
(***************************************************************************)
EXTENDS SignalTransfer, TLAPS

(* A package that begins before the end of the file has one to three bytes    *)
(* and does not reach beyond the file.                                        *)
LEMMA PackageBounds ==
  ASSUME TypeOK, pos < size
  PROVE  /\ PackageAt(pos) \in Package
         /\ PackageAt(pos).from = pos
         /\ PackageAt(pos).len \in 1 .. 3
         /\ pos + PackageAt(pos).len \in 0 .. size
<1>1. pos \in Nat /\ size \in Nat /\ size <= MaxSize
  BY SignalAssumption DEF TypeOK
<1>2. pos % MAX_BUFF_SIZE \in 0 .. MAX_BUFF_SIZE - 1
  BY <1>1, SignalAssumption
<1> QED
  BY <1>1, <1>2, SignalAssumption DEF PackageAt, Least, Package

(* The bytes of the packages are numbers. *)
LEMMA FromIsInt ==
  ASSUME TypeOK
  PROVE  /\ VAL.from \in Int /\ queued.from \in Int /\ pos \in Int
         /\ \A i \in 1 .. Len(out) : out[i].from \in Int
         /\ Len(out) \in Nat
<1>1. \A p \in Package : p.from \in Int
  BY DEF Package
<1>2. \A i \in 1 .. Len(out) : out[i] \in Package
  BY DEF TypeOK
<1> QED
  BY <1>1, <1>2 DEF TypeOK

(* Before any signal is sent nothing is out of order. *)
LEMMA InitIInv ==
  ASSUME Init
  PROVE  IInv
<1>1. TypeOK
  <2>1. NoBytes \in Package /\ 0 \in 0 .. size /\ size \in 0 .. MaxSize
    BY SignalAssumption DEF Init, NoBytes, Package
  <2>2. out \in Seq(Package)
    BY DEF Init
  <2>3. size \in 0 .. MaxSize /\ pos \in 0 .. size /\ n \in 0 .. 3
    BY <2>1 DEF Init
  <2>4. VAL \in Package /\ queued \in Package
    BY <2>1 DEF Init
  <2> QED
    BY <2>2, <2>3, <2>4 DEF Init, TypeOK
<1>2. OrderInv /\ InOrder
  BY DEF Init, OrderInv, InOrder, Written, Unwritten
<1> QED
  BY <1>1, <1>2 DEF IInv

(* The sender only adds a package behind all that were sent.                  *)
LEMMA SenderKeeps ==
  ASSUME IInv, SenderStep
  PROVE  IInv'
<1> USE DEF IInv, TypeOK, OrderInv, InOrder, Written, Unwritten, SendSignal,
            kernelVars, receiverVars
<1>1. CASE SndPid
  BY <1>1 DEF SndPid
<1>2. CASE SendPackage
  <2>1. pos < size
    BY <1>2 DEF SendPackage
  <2>2. /\ PackageAt(pos) \in Package /\ PackageAt(pos).from = pos
        /\ PackageAt(pos).len \in 1 .. 3
        /\ pos + PackageAt(pos).len \in 0 .. size
    BY <2>1, PackageBounds
  <2>3. pos' > pos /\ queued' \in Package
    BY <1>2, <2>2 DEF SendPackage
  <2>4. TypeOK'
    BY <1>2, <2>2, <2>3 DEF SendPackage
  <2>5. InOrder'
    BY <1>2 DEF SendPackage
  <2>6. \A i \in 1 .. Len(out) : out[i].from < pos
    OBVIOUS
  <2>7. CASE "USR1" \in pending
    BY <1>2, <2>3, <2>4, <2>5, <2>6, <2>7, FromIsInt DEF SendPackage
  <2>8. CASE "USR1" \notin pending
    <3>1. queued'.from = pos
      BY <1>2, <2>2, <2>8 DEF SendPackage
    <3>2. OrderInv'
      BY <1>2, <2>3, <2>6, <2>8, <3>1, FromIsInt DEF SendPackage
    <3> QED
      BY <2>4, <2>5, <3>2
  <2> QED
    BY <2>7, <2>8
<1>3. CASE EnterPause
  BY <1>3 DEF EnterPause
<1>4. CASE SendEnd
  BY <1>4 DEF SendEnd
<1>5. CASE HandleAck
  <2>1. /\ UNCHANGED <<size, pos, pending, queued, rpc, woken, SND_PID, VAL, WRITE, END, n, out>>
        /\ ack' = FALSE /\ (spc' = spc \/ spc' = "send")
    BY <1>5 DEF HandleAck
  <2>2. TypeOK'
    BY <2>1
  <2>3. OrderInv' /\ InOrder'
    BY <2>1
  <2> QED
    BY <2>2, <2>3
<1> QED
  BY <1>1, <1>2, <1>3, <1>4, <1>5 DEF SenderStep

(* What is about to be written comes before what is queued and was sent.      *)
LEMMA AtWrite ==
  ASSUME IInv, rpc = "write"
  PROVE  /\ VAL.from < pos /\ spc # "start"
         /\ "USR1" \in pending => VAL.from < queued.from
BY DEF IInv, OrderInv, Unwritten

(* A handler moves the queued package into VAL, behind all that is written;   *)
(* the loop writes VAL once and then forgets it.                              *)
LEMMA ReceiverKeeps ==
  ASSUME IInv, ReceiverStep
  PROVE  IInv'
<1> USE DEF IInv, TypeOK, OrderInv, InOrder, Written, Unwritten, Delivered, ReceiverExists,
            senderVars, kernelVars
<1>1. CASE Configure
  BY <1>1 DEF Configure
<1>2. CASE Killed
  BY <1>2 DEF Killed
<1>3. CASE sigint_handler
  BY <1>3 DEF sigint_handler
<1>4. CASE sigusr1_handler
  <2>1. /\ VAL' = queued /\ WRITE' /\ "USR1" \in pending /\ "USR1" \notin pending'
        /\ UNCHANGED <<rpc, out, pos, size, spc>>
    BY <1>4 DEF sigusr1_handler
  <2>2. TypeOK' /\ InOrder'
    BY <1>4 DEF sigusr1_handler
  <2>3. OrderInv'
    BY <1>4, <2>1, FromIsInt DEF sigusr1_handler
  <2> QED
    BY <2>2, <2>3
<1>5. CASE sigusr2_handler
  BY <1>5 DEF sigusr2_handler
<1>6. CASE PauseReturns
  BY <1>6 DEF PauseReturns
<1>7. CASE TestWrite
  BY <1>7 DEF TestWrite, Package
<1>8. CASE Write
  <2> DEFINE w == [from |-> VAL.from, len |-> n]
  <2>1. w \in Package /\ w.from = VAL.from
    BY DEF Package
  <2> HIDE DEF w
  <2>2. /\ out' = Append(out, w) /\ rpc = "write" /\ rpc' = "clear"
        /\ UNCHANGED <<senderVars, kernelVars, woken, SND_PID, VAL, WRITE, END, n>>
    BY <1>8 DEF Write, w
  <2>3. /\ out' \in Seq(Package) /\ Len(out') = Len(out) + 1
        /\ out'[Len(out) + 1] = w
        /\ \A i \in 1 .. Len(out) : out'[i] = out[i]
    BY <2>1, <2>2
  <2>4. TypeOK'
    BY <2>2, <2>3
  <2>5. \A i \in 1 .. Len(out) : out[i].from < VAL.from /\ VAL.from < pos
    BY <2>2
  <2>6. InOrder'
    BY <2>1, <2>2, <2>3, <2>5
  <2>7. OrderInv'
    <3>1. \A i \in 1 .. Len(out') : out'[i].from \in Int /\ out'[i].from <= VAL.from
      <4>1. /\ VAL.from \in Int /\ \A i \in 1 .. Len(out) : out[i].from \in Int
            /\ Len(out) \in Nat
        BY FromIsInt
      <4> HIDE DEF IInv
      <4>2. \A i \in 1 .. Len(out) : out'[i].from \in Int /\ out'[i].from <= VAL.from
        BY <2>3, <2>5, <4>1
      <4>3. out'[Len(out) + 1].from = VAL.from
        BY <2>1, <2>3
      <4> QED BY <2>3, <4>1, <4>2, <4>3
    <3>2. VAL.from < pos /\ ("USR1" \in pending => VAL.from < queued.from) /\ spc # "start"
      <4> HIDE DEF IInv
      <4> QED BY <2>2, AtWrite
    <3>3. /\ \A i \in 1 .. Len(out') : out'[i].from < pos
          /\ "USR1" \in pending => \A i \in 1 .. Len(out') : out'[i].from < queued.from
      BY <3>1, <3>2, FromIsInt, SMTT(20)
    <3>4. UNCHANGED <<pos, pending, queued, spc, VAL, WRITE>> /\ ~Unwritten'
      BY <2>2
    <3>5. OrderInv'
      BY <3>1, <3>2, <3>3, <3>4
    <3> QED
      BY <3>5
  <2> QED
    BY <2>4, <2>6, <2>7
<1>9. CASE Clear
  BY <1>9 DEF Clear
<1>10. CASE TestEnd
  BY <1>10 DEF TestEnd
<1>11. CASE Acknowledge
  BY <1>11 DEF Acknowledge
<1>12. CASE WaitForSignal
  BY <1>12 DEF WaitForSignal
<1> QED
  BY <1>1, <1>2, <1>3, <1>4, <1>5, <1>6, <1>7, <1>8, <1>9, <1>10, <1>11, <1>12
  DEF ReceiverStep

(* Written, unwritten, queued and sent packages follow each other in the file *)
(* in every state, for every size of the file and the buffer.                 *)
THEOREM Invariance == Spec => []IInv
<1>1. IInv /\ [Next]_vars => IInv'
  <2> SUFFICES ASSUME IInv, [Next]_vars PROVE IInv'
    OBVIOUS
  <2>1. CASE UNCHANGED vars
    BY <2>1 DEF vars, senderVars, kernelVars, receiverVars, IInv, TypeOK, OrderInv, InOrder,
                Written, Unwritten
  <2> QED
    BY <2>1, SenderKeeps, ReceiverKeeps DEF Next
<1> QED
  BY <1>1, InitIInv, PTL DEF Spec

(* The variables keep their types: no package reaches beyond the file, and    *)
(* every length fits the int it is sent in (sig_snd.c:45-62).                 *)
THEOREM TypeCorrect == Spec => []TypeOK
<1>1. IInv => TypeOK
  BY DEF IInv
<1> QED
  BY <1>1, Invariance, PTL

(* The receiver writes no package twice and none after a later one            *)
(* (sig_rcv.c:49-70).                                                         *)
THEOREM WrittenInOrder == Spec => []InOrder
<1>1. IInv => InOrder
  BY DEF IInv
<1> QED
  BY <1>1, Invariance, PTL

---------------------------------------------------------------------------
(* Losses.  The transfer is a game with two tokens: the sender starts with    *)
(* one, the SIGINT of SndPid is the other.  A token goes round as a signal at *)
(* the receiver, a round of its loop, an acknowledgement and the sender's     *)
(* turn; meeting another one it is lost.  Free counts the tokens that can get *)
(* to the sender before the receiver writes again.                            *)

One(b) == IF b THEN 1 ELSE 0

Turns  == IF spc = "start" THEN 2 ELSE One(spc = "send")
Signs  == One("INT" \in pending) + One("USR2" \in pending)
Rounds == One(\/ rpc \in {"clear", "end", "ack", "last", "done"}
              \/ rpc = "test" /\ ~WRITE
              \/ rpc = "pause" /\ woken /\ ~WRITE)
Free   == Turns + Signs + Rounds + One(ack)

(* The first byte the receiver has not come to, and by how many packages, at  *)
(* most, the sender is ahead of it.                                           *)
Rest == IF out = <<>> THEN 0 ELSE After(out[Len(out)].from)

Behind == IF pos = Rest THEN 0 ELSE
          IF pos = After(Rest) THEN 1 ELSE
          IF pos = After(After(Rest)) THEN 2 ELSE 3

EndInv ==
  /\ woken => rpc = "pause"
  /\ END \/ "USR2" \in pending => spc = "done"
  /\ rpc \in {"last", "done"} => END
  /\ spc = "done" => pos = size

ChainInv ==
  /\ Rest \in 0 .. pos
  /\ Unwritten => VAL.from \in {Rest, After(Rest)}
  /\ "USR1" \in pending => queued.from \in {Rest, After(Rest)}

Before(i) == IF i = 1 THEN 0 ELSE After(out[i - 1].from)

StepsInv == \A i \in Written : out[i].from \in {Before(i), After(Before(i))}

TokenInv == Behind + Free <= 2

LoneInv == IInv /\ EndInv /\ ChainInv /\ StepsInv /\ TokenInv

LEMMA AfterBounds ==
  ASSUME TypeOK, NEW p \in 0 .. size
  PROVE  /\ After(p) \in p .. size
         /\ p < size => p < After(p)
<1>1. p \in Nat /\ size \in Nat
  BY SignalAssumption DEF TypeOK
<1>2. p % MAX_BUFF_SIZE \in 0 .. MAX_BUFF_SIZE - 1
  BY <1>1, SignalAssumption
<1> QED BY <1>1, <1>2, SignalAssumption DEF After, PackageAt, Least

LEMMA RestBounds ==
  ASSUME TypeOK, Rest \in 0 .. pos
  PROVE  /\ pos \in Int /\ size \in Int /\ pos <= size /\ Rest \in 0 .. size
         /\ After(Rest) \in Rest .. size /\ (Rest < size => Rest < After(Rest))
         /\ After(After(Rest)) \in After(Rest) .. size
         /\ After(Rest) < size => After(Rest) < After(After(Rest))
<1>1. pos \in 0 .. size /\ size \in Nat
  BY SignalAssumption DEF TypeOK
<1>2. Rest \in 0 .. size
  BY <1>1
<1>3. After(Rest) \in Rest .. size /\ (Rest < size => Rest < After(Rest))
  BY <1>2, AfterBounds
<1>4. After(Rest) \in 0 .. size
  BY <1>1, <1>2, <1>3
<1> QED BY <1>1, <1>2, <1>3, <1>4, AfterBounds

(* What is written stays as it is: so do the packages behind it. *)
LEMMA RestSame ==
  ASSUME out' = out, size' = size
  PROVE  /\ Rest' = Rest /\ After(Rest)' = After(Rest)
         /\ After(After(Rest))' = After(After(Rest))
         /\ StepsInv => StepsInv'
<1>1. Rest' = Rest
  BY DEF Rest, After, PackageAt, Least
<1>2. After(Rest)' = After(Rest) /\ After(After(Rest))' = After(After(Rest))
  BY <1>1 DEF After, PackageAt, Least
<1>3. \A i \in Written : Before(i)' = Before(i) /\ After(Before(i))' = After(Before(i))
  BY DEF Before, After, PackageAt, Least
<1>4. StepsInv => StepsInv'
  BY <1>3 DEF StepsInv, Written
<1> QED BY <1>1, <1>2, <1>4

LEMMA FreeIsNat == Free \in Nat /\ Behind \in 0 .. 3
BY DEF Free, Turns, Signs, Rounds, One, Behind

LEMMA InitLone == ASSUME Init PROVE LoneInv
<1>1. IInv
  BY InitIInv
<1>2. Rest = 0 /\ pos = 0
  BY DEF Init, Rest
<1>3. EndInv /\ ChainInv /\ StepsInv
  BY <1>2 DEF Init, EndInv, ChainInv, StepsInv, Written, Unwritten
<1>4. TokenInv
  BY <1>2 DEF Init, TokenInv, Behind, Free, Turns, Signs, Rounds, One
<1> QED BY <1>1, <1>3, <1>4 DEF LoneInv

(* A step makes no token and leaves the sender as far ahead as it was, or     *)
(* spends one to get further ahead, or gains one by catching up.              *)
LEMMA TokensSum ==
  \A a, b, f, g \in Int : a + f <= 2 =>
    /\ b <= a /\ g <= f => b + g <= 2
    /\ b <= a + 1 /\ g + 1 <= f => b + g <= 2
    /\ b + 1 <= a /\ g <= f + 1 => b + g <= 2
OBVIOUS

(* A step that neither sends nor writes keeps the invariant if it makes no    *)
(* token and puts no other package in line.                                   *)
LEMMA QuietStep ==
  ASSUME LoneInv, IInv', EndInv', Free' <= Free,
         UNCHANGED <<size, pos, out>>,
         Unwritten' => VAL'.from \in {Rest, After(Rest)},
         "USR1" \in pending' => queued'.from \in {Rest, After(Rest)}
  PROVE  LoneInv'
<1>1. /\ Rest' = Rest /\ After(Rest)' = After(Rest)
      /\ After(After(Rest))' = After(After(Rest)) /\ StepsInv'
  BY RestSame DEF LoneInv
<1>2. ChainInv'
  BY <1>1 DEF LoneInv, ChainInv
<1>3. Behind' = Behind
  BY <1>1 DEF Behind
<1>4. Free' \in Nat
  BY DEF Free, Turns, Signs, Rounds, One
<1>5. Behind + Free <= 2
  BY DEF LoneInv, TokenInv
<1>6. Behind' + Free' <= 2
  <2>1. Behind' \in Int /\ Free' \in Int /\ Behind \in Int /\ Free \in Int
    BY <1>3, <1>4, FreeIsNat
  <2>2. Behind' <= Behind
    BY <1>3, <2>1
  <2> QED BY <1>5, <2>1, <2>2, TokensSum, Zenon
<1>7. TokenInv'
  BY <1>6 DEF TokenInv
<1> QED BY <1>1, <1>2, <1>7 DEF LoneInv

LEMMA SenderKeepsLone ==
  ASSUME LoneInv, SenderStep
  PROVE  LoneInv'
<1>0. TypeOK /\ OrderInv /\ EndInv /\ ChainInv /\ StepsInv /\ TokenInv /\ IInv'
  BY SenderKeeps DEF LoneInv, IInv
<1>a. pending \subseteq {"INT", "USR1", "USR2"} /\ ack \in BOOLEAN /\ woken \in BOOLEAN
      /\ WRITE \in BOOLEAN /\ END \in BOOLEAN
  BY <1>0 DEF TypeOK
<1>1. CASE SndPid \/ EnterPause \/ SendEnd \/ HandleAck
  <2>1. UNCHANGED <<size, pos, queued, rpc, woken, SND_PID, VAL, WRITE, END, n, out>>
    BY <1>1 DEF SndPid, EnterPause, SendEnd, HandleAck, kernelVars, receiverVars
  <2>2. Free' <= Free
    <3>1. CASE SndPid
      BY <1>a, <2>1, <3>1 DEF SndPid, SendSignal, Free, Turns, Signs, Rounds, One
    <3>2. CASE EnterPause
      BY <1>a, <2>1, <3>2 DEF EnterPause, kernelVars, Free, Turns, Signs, Rounds, One
    <3>3. CASE SendEnd
      BY <1>a, <2>1, <3>3 DEF SendEnd, SendSignal, Free, Turns, Signs, Rounds, One
    <3>4. CASE HandleAck
      BY <1>a, <2>1, <3>4 DEF HandleAck, kernelVars, Free, Turns, Signs, Rounds, One
    <3> QED BY <1>1, <3>1, <3>2, <3>3, <3>4
  <2>3. EndInv'
    BY <1>0, <1>1, <2>1 DEF EndInv, SndPid, EnterPause, SendEnd, HandleAck, SendSignal, kernelVars
  <2>4. "USR1" \in pending' => "USR1" \in pending
    BY <1>1 DEF SndPid, EnterPause, SendEnd, HandleAck, SendSignal, kernelVars
  <2>5. Unwritten' => Unwritten
    BY <2>1 DEF Unwritten
  <2> QED BY <1>0, <2>1, <2>2, <2>3, <2>4, <2>5, QuietStep DEF ChainInv
<1>2. CASE SendPackage
  <2>1. /\ spc = "send" /\ pos < size /\ spc' = "sent" /\ pos' = After(pos)
        /\ queued' = IF "USR1" \in pending THEN queued ELSE PackageAt(pos)
        /\ pending' = pending \/ pending' = pending \cup {"USR1"}
        /\ UNCHANGED <<size, ack, rpc, woken, SND_PID, VAL, WRITE, END, n, out>>
    BY <1>2 DEF SendPackage, After, SendSignal, receiverVars
  <2>2. /\ Rest' = Rest /\ After(Rest)' = After(Rest)
        /\ After(After(Rest))' = After(After(Rest)) /\ StepsInv'
    BY <1>0, <2>1, RestSame
  <2>3. Free' + 1 <= Free
    BY <1>a, <2>1 DEF Free, Turns, Signs, Rounds, One
  <2>4. Behind <= 1
    BY <1>0, <2>3, FreeIsNat DEF TokenInv, Free, Turns, Signs, Rounds, One
  <2>5. pos \in {Rest, After(Rest)}
    BY <2>4 DEF Behind
  <2>6. Behind' <= Behind + 1 /\ Behind' \in 0 .. 3
    BY <2>1, <2>2, <2>5 DEF Behind
  <2>7. TokenInv'
    <3>1. Free' \in Nat
      BY DEF Free, Turns, Signs, Rounds, One
    <3>2. Behind + Free <= 2
      BY <1>0 DEF TokenInv
    <3>3. Behind' + Free' <= 2
      <4>1. Behind' \in Int /\ Free' \in Int /\ Behind \in Int /\ Free \in Int
        BY <2>6, <3>1, FreeIsNat
      <4> QED BY <2>3, <2>6, <3>2, <4>1, TokensSum, Zenon
    <3> QED BY <3>3 DEF TokenInv
  <2>8. ChainInv'
    <3>1. pos' \in Int /\ pos' > pos /\ Rest' \in 0 .. pos'
      <4>1. pos \in 0 .. size /\ pos \in Int
        BY <1>0 DEF TypeOK
      <4>2. After(pos) \in pos .. size /\ pos < After(pos)
        BY <1>0, <2>1, <4>1, AfterBounds
      <4> QED BY <1>0, <2>1, <2>2, <4>1, <4>2 DEF ChainInv
    <3>2. queued'.from \in {Rest, After(Rest)} \/ "USR1" \notin pending'
      <4>1. PackageAt(pos).from = pos
        BY DEF PackageAt
      <4> QED BY <1>0, <2>1, <2>5, <4>1 DEF ChainInv
    <3>3. Unwritten' => Unwritten
      BY <2>1 DEF Unwritten
    <3> QED BY <1>0, <2>1, <2>2, <3>1, <3>2, <3>3 DEF ChainInv
  <2>9. EndInv'
    BY <1>0, <2>1 DEF EndInv
  <2> QED BY <1>0, <2>2, <2>7, <2>8, <2>9 DEF LoneInv
<1> QED BY <1>1, <1>2 DEF SenderStep

LEMMA ReceiverKeepsLone ==
  ASSUME LoneInv, ReceiverStep
  PROVE  LoneInv'
<1>0. TypeOK /\ OrderInv /\ EndInv /\ ChainInv /\ StepsInv /\ TokenInv /\ IInv'
  BY ReceiverKeeps DEF LoneInv, IInv
<1>a. pending \subseteq {"INT", "USR1", "USR2"} /\ ack \in BOOLEAN /\ woken \in BOOLEAN
      /\ WRITE \in BOOLEAN /\ END \in BOOLEAN
  BY <1>0 DEF TypeOK
<1>1. CASE \/ Configure \/ Killed \/ WaitForSignal \/ PauseReturns
           \/ TestWrite \/ Clear \/ TestEnd \/ Acknowledge
  <2>1. /\ UNCHANGED <<size, spc, pos, queued, VAL, END, out>>
        /\ "USR1" \in pending' => "USR1" \in pending
        /\ "USR2" \in pending' => "USR2" \in pending
    BY <1>1 DEF Configure, Killed, WaitForSignal, PauseReturns, TestWrite, Clear, TestEnd, Acknowledge,
                senderVars, kernelVars
  <2>2. Unwritten' => Unwritten
    BY <1>1 DEF Configure, Killed, WaitForSignal, PauseReturns, TestWrite, Clear, TestEnd, Acknowledge, Unwritten,
                senderVars, kernelVars
  <2>3. EndInv'
    BY <1>0, <1>1, <2>1 DEF EndInv, Configure, Killed, WaitForSignal, PauseReturns, TestWrite, Clear, TestEnd, Acknowledge
  <2>4. Free' <= Free
    <3> USE <1>a, <2>1 DEF Free, Turns, Signs, Rounds, One, senderVars, kernelVars
    <3>1. CASE Configure
      BY <3>1, <1>0 DEF Configure, EndInv
    <3>2. CASE Killed
      BY <3>2 DEF Killed
    <3>3. CASE PauseReturns
      BY <3>3 DEF PauseReturns
    <3>4. CASE TestWrite
      BY <3>4 DEF TestWrite
    <3>5. CASE Clear
      BY <3>5 DEF Clear
    <3>6. CASE TestEnd
      BY <3>6 DEF TestEnd
    <3>7. CASE Acknowledge
      BY <3>7, <1>0 DEF Acknowledge, EndInv
    <3>8. CASE WaitForSignal
      BY <3>8, <1>0 DEF WaitForSignal, EndInv
    <3> QED BY <1>1, <3>1, <3>2, <3>3, <3>4, <3>5, <3>6, <3>7, <3>8
  <2> QED BY <1>0, <2>1, <2>2, <2>3, <2>4, QuietStep DEF ChainInv
<1>2. CASE sigint_handler \/ sigusr1_handler \/ sigusr2_handler
  <2>1. /\ UNCHANGED <<size, spc, pos, ack, queued, rpc, n, out>>
        /\ woken' = (woken \/ rpc = "pause")
    BY <1>2 DEF sigint_handler, sigusr1_handler, sigusr2_handler, Delivered, senderVars
  <2>2. Free' <= Free
    <3> USE <1>a, <2>1 DEF Free, Turns, Signs, Rounds, One, Delivered, senderVars
    <3>1. CASE sigint_handler
      BY <3>1 DEF sigint_handler
    <3>2. CASE sigusr1_handler
      BY <3>2 DEF sigusr1_handler
    <3>3. CASE sigusr2_handler
      BY <3>3 DEF sigusr2_handler
    <3> QED BY <1>2, <3>1, <3>2, <3>3
  <2>3. EndInv'
    <3> USE <1>0, <2>1 DEF EndInv, Delivered
    <3>1. CASE sigint_handler
      BY <3>1 DEF sigint_handler
    <3>2. CASE sigusr1_handler
      BY <3>2 DEF sigusr1_handler
    <3>3. CASE sigusr2_handler
      BY <3>3 DEF sigusr2_handler
    <3> QED BY <1>2, <3>1, <3>2, <3>3
  <2>4. "USR1" \in pending' => queued'.from \in {Rest, After(Rest)}
    BY <1>0, <1>2, <2>1 DEF ChainInv, sigint_handler, sigusr1_handler, sigusr2_handler, Delivered
  <2>5. Unwritten' => VAL'.from \in {Rest, After(Rest)}
    BY <1>0, <1>2, <2>1 DEF ChainInv, sigint_handler, sigusr1_handler, sigusr2_handler, Delivered, Unwritten
  <2> QED BY <1>0, <2>1, <2>2, <2>3, <2>4, <2>5, QuietStep
<1>3. CASE Write
  <2> DEFINE w == [from |-> VAL.from, len |-> n]
  <2>1. w \in Package /\ w.from = VAL.from
    BY <1>0 DEF TypeOK, Package
  <2> HIDE DEF w
  <2>2. /\ out' = Append(out, w) /\ rpc = "write" /\ rpc' = "clear"
        /\ UNCHANGED <<size, spc, pos, ack, pending, queued, woken, SND_PID, VAL, WRITE, END, n>>
    BY <1>3 DEF Write, w, senderVars, kernelVars
  <2>3. /\ Len(out) \in Nat /\ Len(out') = Len(out) + 1 /\ out' # <<>>
        /\ out'[Len(out) + 1] = w
        /\ \A i \in 1 .. Len(out) : out'[i] = out[i]
    BY <1>0, <2>1, <2>2 DEF TypeOK
  <2>4. VAL.from \in {Rest, After(Rest)} /\ VAL.from < pos
    BY <1>0, <2>2 DEF ChainInv, OrderInv, Unwritten
  <2>5. \A p : After(p)' = After(p)
    BY <2>2 DEF After, PackageAt, Least
  <2>6. Rest' = After(VAL.from) /\ After(Rest)' = After(After(VAL.from))
    <3>1. Rest' = After(VAL.from)
      BY <2>1, <2>2, <2>3 DEF Rest, After, PackageAt, Least
    <3> QED BY <2>2, <3>1 DEF After, PackageAt, Least
  <2>7. /\ pos \in Int /\ size \in Int /\ pos <= size /\ Rest \in 0 .. size
        /\ After(Rest) \in Rest .. size /\ (Rest < size => Rest < After(Rest))
        /\ After(After(Rest)) \in After(Rest) .. size
        /\ After(Rest) < size => After(Rest) < After(After(Rest))
        /\ Rest <= pos
    BY <1>0, RestBounds DEF ChainInv
  <2>8. Behind <= 2 /\ pos # Rest
    BY <1>0, <2>4, <2>7, FreeIsNat DEF TokenInv
  <2>9. Behind' + 1 <= Behind /\ Behind' \in 0 .. 3 /\ Rest' \in 0 .. pos'
    <3>1. CASE VAL.from = Rest
      BY <2>2, <2>6, <2>7, <2>8, <3>1 DEF Behind
    <3>2. CASE VAL.from = After(Rest)
      BY <2>2, <2>4, <2>6, <2>7, <2>8, <3>2 DEF Behind
    <3> QED BY <2>4, <3>1, <3>2
  <2>10. TokenInv'
    <3>1. Free' <= Free + 1
      BY <1>a, <2>2 DEF Free, Turns, Signs, Rounds, One
    <3>2. Free' \in Nat
      BY DEF Free, Turns, Signs, Rounds, One
    <3>3. Behind + Free <= 2
      BY <1>0 DEF TokenInv
    <3>4. Behind' + Free' <= 2
      <4>1. Behind' \in Int /\ Free' \in Int /\ Behind \in Int /\ Free \in Int
        BY <2>9, <3>2, FreeIsNat
      <4> QED BY <2>9, <3>1, <3>3, <4>1, TokensSum, Zenon
    <3> QED BY <3>4 DEF TokenInv
  <2>11. ChainInv'
    <3>1. ~Unwritten'
      BY <2>2 DEF Unwritten
    <3>2. ASSUME "USR1" \in pending
          PROVE  queued.from = After(VAL.from)
      <4>1. VAL.from < queued.from /\ queued.from \in {Rest, After(Rest)}
        BY <1>0, <2>2, <3>2 DEF ChainInv, OrderInv, Unwritten
      <4> QED BY <2>4, <2>7, <4>1
    <3> QED BY <2>2, <2>6, <2>9, <3>1, <3>2 DEF ChainInv
  <2>12. StepsInv'
    <3> SUFFICES ASSUME NEW i \in 1 .. Len(out')
                 PROVE  out'[i].from \in {Before(i)', After(Before(i))'}
      BY DEF StepsInv, Written
    <3>1. CASE i \in 1 .. Len(out)
      <4>1. i # 1 => i - 1 \in 1 .. Len(out)
        BY <2>3, <3>1
      <4>2. Before(i)' = Before(i) /\ After(Before(i))' = After(Before(i))
        BY <2>2, <2>3, <4>1 DEF Before, After, PackageAt, Least
      <4> QED BY <1>0, <2>3, <3>1, <4>2 DEF StepsInv, Written
    <3>2. CASE i = Len(out) + 1
      <4>1. CASE out = <<>>
        <5>1. i = 1 /\ Rest = 0
          BY <3>2, <4>1 DEF Rest
        <5>2. Before(i)' = Rest /\ After(Before(i))' = After(Rest)
          BY <2>2, <5>1 DEF Before, After, PackageAt, Least
        <5> QED BY <2>1, <2>3, <2>4, <3>2, <5>2
      <4>2. CASE out # <<>>
        <5>1. i # 1 /\ i - 1 = Len(out) /\ Len(out) \in 1 .. Len(out)
          BY <1>0, <2>3, <3>2, <4>2 DEF TypeOK
        <5>2. Rest = After(out'[i - 1].from)
          BY <2>3, <4>2, <5>1 DEF Rest
        <5>3. Before(i)' = Rest /\ After(Before(i))' = After(Rest)
          BY <2>2, <5>1, <5>2 DEF Before, After, PackageAt, Least
        <5> QED BY <2>1, <2>3, <2>4, <3>2, <5>3
      <4> QED BY <4>1, <4>2
    <3> QED BY <2>3, <3>1, <3>2
  <2>13. EndInv'
    BY <1>0, <2>2 DEF EndInv
  <2> QED BY <1>0, <2>10, <2>11, <2>12, <2>13 DEF LoneInv
<1> QED BY <1>1, <1>2, <1>3 DEF ReceiverStep

(* A package that is dropped, overwritten or forgotten (sig_rcv.c:49-57) is   *)
(* a lone one: the sender, whose token is the SIGINT it waits for             *)
(* (sig_snd.c:64), is never further ahead, and at most the last package is    *)
(* missing when the receiver ends.                                            *)
THEOREM LossesAreLone == Spec => []LossIsLone
<1>1. LoneInv /\ [Next]_vars => LoneInv'
  <2> SUFFICES ASSUME LoneInv, [Next]_vars PROVE LoneInv'
    OBVIOUS
  <2>1. CASE UNCHANGED vars
    <3>1. UNCHANGED <<size, spc, pos, ack, pending, queued, rpc, woken, SND_PID, VAL, WRITE, END, n, out>>
      BY <2>1 DEF vars, senderVars, kernelVars, receiverVars
    <3>2. IInv'
      BY <3>1 DEF LoneInv, IInv, TypeOK, OrderInv, InOrder, Written, Unwritten
    <3>3. EndInv' /\ Free' = Free /\ Unwritten' = Unwritten
      BY <3>1 DEF LoneInv, EndInv, Free, Turns, Signs, Rounds, One, Unwritten
    <3>4. Free' <= Free
      BY <3>3, FreeIsNat
    <3> QED BY <3>1, <3>2, <3>3, <3>4, QuietStep DEF LoneInv, ChainInv
  <2> QED BY <2>1, SenderKeepsLone, ReceiverKeepsLone DEF Next
<1>2. LoneInv => LossIsLone
  <2> SUFFICES ASSUME LoneInv PROVE LossIsLone
    OBVIOUS
  <2>1. StepsInv
    BY DEF LoneInv
  <2>2. ASSUME rpc = "done" PROVE After(Rest) = size
    <3>1. TypeOK /\ pos = size /\ Rest \in 0 .. pos
      BY <2>2 DEF LoneInv, IInv, EndInv, ChainInv
    <3>2. Behind <= 1
      BY <2>2, FreeIsNat DEF LoneInv, TokenInv, Free, Turns, Signs, Rounds, One
    <3>3. size \in {Rest, After(Rest)}
      BY <3>1, <3>2 DEF Behind
    <3> QED BY <3>1, <3>3, RestBounds
  <2> QED BY <2>1, <2>2 DEF LossIsLone, StepsInv, Rest, Before
<1> QED BY <1>1, <1>2, InitLone, PTL DEF Spec
=============================================================================
