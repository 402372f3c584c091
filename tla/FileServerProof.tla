-------------------------- MODULE FileServerProof --------------------------
(***************************************************************************)
(* What holds of the file server for every number of clients, threads,     *)
(* files and requests: main reads only where there is something to read,   *)
(* what a client gets is what it has asked for, and a client with one      *)
(* request gets its file in order and whole.                               *)
(***************************************************************************)
EXTENDS FileServer, SequenceTheorems, TLAPS

(* The table has every client once, and only clients that have registered;    *)
(* one whose command is still unread is not in it.                            *)
TableInv ==
  /\ \A j, l \in 1 .. Len(clients) : clients[j] = clients[l] => j = l
  /\ \A j \in 1 .. Len(clients) : clients[j] \in registered
  /\ \A n \in 1 .. Len(cmds) : cmds[n] \in Client =>
       /\ cmds[n] \in registered
       /\ \A j \in 1 .. Len(clients) : clients[j] # cmds[n]

(* The loop over the table comes after the command FIFO. *)
ReadyInv == mpc = "clients" => 0 \notin ready

(* The threads that are not idle have a job. *)
JobInv == \A t \in Thread : IF tpc[t] = "idle" THEN job[t] = Idle ELSE job[t] \in Job

(* Requests, jobs, and pieces in a FIFO or read go back to what the client    *)
(* has asked for.                                                             *)
TxInv   == \A c \in Client : \A k \in 1 .. Len(tx[c]) : tx[c][k] # "noise" => tx[c][k] \in AskedBy(c)
JobsInv == \A k \in 1 .. Len(jobs) : jobs[k].file \in AskedBy(jobs[k].dest)
WorkInv == \A t \in Thread : tpc[t] # "idle" => job[t].file \in AskedBy(job[t].dest)
RxInv   == \A c \in Client : \A k \in 1 .. Len(rx[c]) : rx[c][k].file \in AskedBy(c)
GotInv  == \A c \in Client : \A k \in 1 .. Len(got[c]) : got[c][k].file \in AskedBy(c)

RouteInv == TxInv /\ JobsInv /\ WorkInv /\ RxInv /\ GotInv

Inv == TypeOK /\ TableInv /\ ReadyInv /\ ReadsDontBlock /\ JobInv /\ RouteInv

---------------------------------------------------------------------------
LEMMA AppendFacts ==
  ASSUME NEW S, NEW s \in Seq(S), NEW e \in S
  PROVE  /\ Append(s, e) \in Seq(S)
         /\ Len(Append(s, e)) = Len(s) + 1 /\ Len(s) \in Nat
         /\ \A k \in 1 .. Len(s) : Append(s, e)[k] = s[k]
         /\ Append(s, e)[Len(s) + 1] = e
         /\ Append(s, e) # <<>>
OBVIOUS

LEMMA HeadTailFacts ==
  ASSUME NEW S, NEW s \in Seq(S), s # <<>>
  PROVE  /\ Head(s) \in S /\ Head(s) = s[1] /\ 1 \in 1 .. Len(s)
         /\ Tail(s) \in Seq(S)
         /\ \A k \in 1 .. Len(Tail(s)) : k + 1 \in 1 .. Len(s) /\ Tail(s)[k] = s[k + 1]
OBVIOUS

LEMMA RouteSame ==
  ASSUME RouteInv, UNCHANGED <<tx, jobs, tpc, job, rx, got, asked>>
  PROVE  RouteInv'
<1>1. UNCHANGED <<tx, jobs, tpc, job, rx, got>> /\ \A b : AskedBy(b)' = AskedBy(b)
  BY DEF AskedBy
<1>2. TxInv' /\ JobsInv'
  BY <1>1 DEF RouteInv, TxInv, JobsInv
<1>3. WorkInv'
  BY <1>1 DEF RouteInv, WorkInv
<1>4. RxInv' /\ GotInv'
  BY <1>1 DEF RouteInv, RxInv, GotInv
<1> QED BY <1>2, <1>3, <1>4 DEF RouteInv

LEMMA InitInv == Init => Inv
<1> SUFFICES ASSUME Init
             PROVE  Inv
  OBVIOUS
<1> USE FileServerAssumption
<1>1. TypeOK
  <2>1. <<>> \in Seq(Client) /\ <<>> \in Seq(Client \cup {"off", "noise"}) /\ <<>> \in Seq(Job)
        /\ <<>> \in Seq(File \cup {"noise"}) /\ <<>> \in Seq(Piece) /\ <<>> \in Seq(File)
    OBVIOUS
  <2>2. Len(clients) = 0
    BY DEF Init
  <2>3. /\ tx \in [Client -> Seq(File \cup {"noise"})] /\ rx \in [Client -> Seq(Piece)]
        /\ got \in [Client -> Seq(Piece)] /\ asked \in [Client -> Seq(File)]
    BY <2>1 DEF Init
  <2> QED BY <2>1, <2>2, <2>3 DEF Init, TypeOK
<1>2. TableInv /\ ReadyInv /\ ReadsDontBlock /\ JobInv
  BY DEF Init, TableInv, ReadyInv, ReadsDontBlock, JobInv
<1>3. RouteInv
  BY DEF Init, RouteInv, TxInv, JobsInv, WorkInv, RxInv, GotInv
<1> QED BY <1>1, <1>2, <1>3 DEF Inv

---------------------------------------------------------------------------
(* Commands and requests only add to what the server has to read. *)
LEMMA CommandKeeps ==
  ASSUME Inv, (\E c \in Client : Register(c)) \/ \E m \in {"off", "noise"} : SendCommand(m)
  PROVE  Inv'
<1> USE FileServerAssumption
<1>0. TypeOK /\ TableInv /\ ReadyInv /\ ReadsDontBlock /\ JobInv /\ RouteInv
  BY DEF Inv
<1>1. PICK m \in Client \cup {"off", "noise"} :
        /\ cmds' = Append(cmds, m)
        /\ m \in Client => m \notin registered /\ registered' = registered \cup {m}
        /\ m \notin Client => registered' = registered
        /\ noise' \in Nat
        /\ UNCHANGED <<mainVars, tx, jobs, threadVars, rx, reading, got, ended, asked>>
  BY <1>0 DEF Register, SendCommand, TypeOK
<1>2. UNCHANGED <<mpc, ready, clients, tx, jobs, tpc, job, sent, rx, reading, got, ended, asked>>
  BY <1>1 DEF mainVars, threadVars
<1>3. /\ cmds' \in Seq(Client \cup {"off", "noise"})
      /\ Len(cmds') = Len(cmds) + 1 /\ Len(cmds) \in Nat
      /\ \A k \in 1 .. Len(cmds) : cmds'[k] = cmds[k]
      /\ cmds'[Len(cmds) + 1] = m
      /\ cmds' # <<>>
  <2>1. cmds \in Seq(Client \cup {"off", "noise"})
    BY <1>0 DEF TypeOK
  <2> QED BY <1>1, <2>1, AppendFacts
<1>4. TypeOK'
  BY <1>0, <1>1, <1>2, <1>3 DEF TypeOK
<1>5. TableInv'
  <2>1. /\ \A j, l \in 1 .. Len(clients) : clients[j] = clients[l] => j = l
        /\ \A j \in 1 .. Len(clients) : clients[j] \in registered
        /\ registered \subseteq registered'
    BY <1>0, <1>1 DEF TableInv
  <2>2. ASSUME NEW n \in 1 .. Len(cmds'), cmds'[n] \in Client
        PROVE  /\ cmds'[n] \in registered'
               /\ \A j \in 1 .. Len(clients) : clients[j] # cmds'[n]
    <3>1. CASE n = Len(cmds) + 1
      BY <1>1, <1>3, <2>1, <2>2, <3>1
    <3>2. CASE n \in 1 .. Len(cmds)
      BY <1>0, <1>1, <1>3, <2>1, <2>2, <3>2 DEF TableInv
    <3> QED BY <1>3, <3>1, <3>2
  <2> QED BY <1>2, <2>1, <2>2 DEF TableInv
<1>6. ReadyInv' /\ ReadsDontBlock' /\ JobInv'
  BY <1>0, <1>2, <1>3 DEF ReadyInv, ReadsDontBlock, JobInv
<1>7. RouteInv'
  BY <1>0, <1>2, RouteSame
<1> QED BY <1>4, <1>5, <1>6, <1>7 DEF Inv

LEMMA AskKeeps ==
  ASSUME Inv, NEW c \in Client, WrongRequest(c) \/ \E f \in File : Get(c, f)
  PROVE  Inv'
<1> USE FileServerAssumption
<1>0. TypeOK /\ TableInv /\ ReadyInv /\ ReadsDontBlock /\ JobInv /\ RouteInv
  BY DEF Inv
<1>1. PICK f \in File \cup {"noise"} :
        /\ tx' = [tx EXCEPT ![c] = Append(@, f)]
        /\ asked' = IF f = "noise" THEN asked ELSE [asked EXCEPT ![c] = Append(@, f)]
        /\ noise' \in Nat
        /\ UNCHANGED <<mainVars, cmds, jobs, threadVars, rx, reading, got, ended, registered>>
  <2>1. CASE WrongRequest(c)
    <3>1. noise' \in Nat
      BY <1>0, <2>1 DEF WrongRequest, TypeOK
    <3> QED BY <2>1, <3>1 DEF WrongRequest
  <2>2. CASE \E f \in File : Get(c, f)
    <3>1. PICK f \in File : Get(c, f)
      BY <2>2
    <3>2. noise' \in Nat
      BY <1>0, <3>1 DEF Get, TypeOK
    <3>3. f # "noise"
      OBVIOUS
    <3> QED BY <3>1, <3>2, <3>3 DEF Get
  <2> QED BY <2>1, <2>2
<1>2. UNCHANGED <<mpc, ready, clients, cmds, jobs, tpc, job, sent, rx, reading, got, ended, registered>>
  BY <1>1 DEF mainVars, threadVars
<1>3. /\ Append(tx[c], f) \in Seq(File \cup {"noise"})
      /\ Len(Append(tx[c], f)) = Len(tx[c]) + 1 /\ Len(tx[c]) \in Nat
      /\ \A k \in 1 .. Len(tx[c]) : Append(tx[c], f)[k] = tx[c][k]
      /\ Append(tx[c], f)[Len(tx[c]) + 1] = f
      /\ Append(tx[c], f) # <<>>
  <2>1. tx[c] \in Seq(File \cup {"noise"})
    BY <1>0 DEF TypeOK
  <2> QED BY <1>1, <2>1, AppendFacts
<1>4. /\ tx' \in [Client -> Seq(File \cup {"noise"})]
      /\ tx'[c] = Append(tx[c], f)
      /\ \A b \in Client : b # c => tx'[b] = tx[b]
      /\ \A b \in Client : tx[b] # <<>> => tx'[b] # <<>>
  BY <1>0, <1>1, <1>3 DEF TypeOK
<1>5. /\ asked' \in [Client -> Seq(File)]
      /\ \A b \in Client : AskedBy(b) \subseteq AskedBy(b)'
      /\ f # "noise" => f \in AskedBy(c)'
  <2>1. CASE f = "noise"
    BY <1>0, <1>1, <2>1 DEF TypeOK, AskedBy
  <2>2. CASE f # "noise"
    <3>1. /\ Append(asked[c], f) \in Seq(File)
          /\ Len(Append(asked[c], f)) = Len(asked[c]) + 1 /\ Len(asked[c]) \in Nat
          /\ \A k \in 1 .. Len(asked[c]) : Append(asked[c], f)[k] = asked[c][k]
          /\ Append(asked[c], f)[Len(asked[c]) + 1] = f
      BY <1>0, <1>1, <2>2, AppendFacts DEF TypeOK
    <3>2. /\ asked' \in [Client -> Seq(File)] /\ asked'[c] = Append(asked[c], f)
          /\ \A b \in Client : b # c => asked'[b] = asked[b]
      BY <1>0, <1>1, <2>2, <3>1 DEF TypeOK
    <3>3. AskedBy(c) \subseteq AskedBy(c)'
      <4>1. \A k \in 1 .. Len(asked[c]) : k \in 1 .. Len(asked'[c]) /\ asked'[c][k] = asked[c][k]
        BY <3>1, <3>2
      <4> QED BY <4>1 DEF AskedBy
    <3>4. \A b \in Client : b # c => AskedBy(b)' = AskedBy(b)
      BY <3>2 DEF AskedBy
    <3>5. f \in AskedBy(c)'
      <4>1. Len(asked[c]) + 1 \in 1 .. Len(asked'[c]) /\ asked'[c][Len(asked[c]) + 1] = f
        BY <3>1, <3>2
      <4> QED BY <4>1 DEF AskedBy
    <3> QED BY <3>2, <3>3, <3>4, <3>5
  <2> QED BY <2>1, <2>2
<1>6. TypeOK'
  BY <1>0, <1>1, <1>2, <1>4, <1>5 DEF TypeOK
<1>7. TableInv' /\ ReadyInv' /\ JobInv'
  BY <1>0, <1>2 DEF TableInv, ReadyInv, JobInv
<1>8. ReadsDontBlock'
  <2>1. \A j \in ready \ {0} : clients[j] \in Client
    BY <1>0 DEF TypeOK
  <2> QED BY <1>0, <1>2, <1>4, <2>1 DEF ReadsDontBlock
<1>9. RouteInv'
  <2>1. TxInv'
    <3> SUFFICES ASSUME NEW b \in Client, NEW k \in 1 .. Len(tx'[b]), tx'[b][k] # "noise"
                 PROVE  tx'[b][k] \in AskedBy(b)'
      BY DEF TxInv
    <3>1. CASE b # c \/ k \in 1 .. Len(tx[c])
      BY <1>0, <1>3, <1>4, <1>5, <3>1 DEF RouteInv, TxInv
    <3>2. CASE b = c /\ k = Len(tx[c]) + 1
      BY <1>3, <1>4, <1>5, <3>2
    <3> QED BY <1>3, <1>4, <3>1, <3>2
  <2>2. JobsInv'
    <3>1. \A k \in 1 .. Len(jobs) : jobs[k].dest \in Client
      <4>1. \A k \in 1 .. Len(jobs) : jobs[k] \in Job
        BY <1>0 DEF TypeOK
      <4> QED BY <4>1 DEF Job
    <3> QED BY <1>0, <1>2, <1>5, <3>1 DEF RouteInv, JobsInv
  <2>3. WorkInv'
    <3>1. \A t \in Thread : tpc[t] # "idle" => job[t].dest \in Client
      BY <1>0 DEF JobInv, Job
    <3> QED BY <1>0, <1>2, <1>5, <3>1 DEF RouteInv, WorkInv
  <2>4. RxInv' /\ GotInv'
    BY <1>0, <1>2, <1>5 DEF RouteInv, RxInv, GotInv
  <2> QED BY <2>1, <2>2, <2>3, <2>4 DEF RouteInv
<1> QED BY <1>6, <1>7, <1>8, <1>9 DEF Inv

(* What a client does with its own FIFO. *)
LEMMA ReadKeeps ==
  ASSUME Inv, NEW c \in Client, ClientReads(c) \/ Leave(c)
  PROVE  Inv'
<1> USE FileServerAssumption
<1>0. TypeOK /\ TableInv /\ ReadyInv /\ ReadsDontBlock /\ JobInv /\ RouteInv
  BY DEF Inv
<1>1. /\ UNCHANGED <<mainVars, cmds, tx, jobs, threadVars, registered, asked>>
  BY DEF ClientReads, OpenToRead, ReadPiece, EndOfStream, Leave
<1>2. UNCHANGED <<mpc, ready, clients, cmds, tx, jobs, tpc, job, sent, registered, asked>>
  BY <1>1 DEF mainVars, threadVars
<1>3. rx[c] \in Seq(Piece) /\ got[c] \in Seq(Piece) /\ <<>> \in Seq(Piece)
  BY <1>0 DEF TypeOK
<1>4. /\ noise' \in Nat /\ reading' \in [Client -> {"no", "opening", "open"}]
      /\ ended' \in [Client -> Nat]
  <2>0. /\ noise \in Nat /\ reading \in [Client -> {"no", "opening", "open"}]
        /\ ended \in [Client -> Nat]
    BY <1>0 DEF TypeOK
  <2>1. CASE OpenToRead(c)
    <3>1. PICK r \in {"opening", "open"} : reading' = [reading EXCEPT ![c] = r]
      BY <2>1 DEF OpenToRead
    <3> QED BY <2>0, <2>1, <3>1 DEF OpenToRead
  <2>2. CASE ReadPiece(c)
    BY <2>0, <2>2 DEF ReadPiece
  <2>3. CASE EndOfStream(c)
    BY <2>0, <2>3 DEF EndOfStream
  <2>4. CASE Leave(c)
    BY <2>0, <2>4 DEF Leave
  <2> QED BY <2>1, <2>2, <2>3, <2>4 DEF ClientReads
<1>5. \/ rx' = rx /\ got' = got
      \/ rx' = rx /\ got' = [got EXCEPT ![c] = <<>>]
      \/ rx' = [rx EXCEPT ![c] = <<>>] /\ got' = got
      \/ rx[c] # <<>> /\ rx' = [rx EXCEPT ![c] = Tail(@)] /\ got' = [got EXCEPT ![c] = Append(@, Head(rx[c]))]
  BY DEF ClientReads, OpenToRead, ReadPiece, EndOfStream, Leave
<1>6. /\ rx' \in [Client -> Seq(Piece)] /\ got' \in [Client -> Seq(Piece)]
      /\ RxInv' /\ GotInv'
  <2>0. /\ rx \in [Client -> Seq(Piece)] /\ got \in [Client -> Seq(Piece)]
        /\ RxInv /\ GotInv /\ \A b \in Client : AskedBy(b)' = AskedBy(b)
    BY <1>0, <1>2 DEF TypeOK, RouteInv, AskedBy
  <2>1. CASE rx' = rx /\ got' = got
    BY <2>0, <2>1 DEF RxInv, GotInv
  <2>2. CASE rx' = rx /\ got' = [got EXCEPT ![c] = <<>>]
    BY <1>3, <2>0, <2>2 DEF RxInv, GotInv
  <2>3. CASE rx' = [rx EXCEPT ![c] = <<>>] /\ got' = got
    BY <1>3, <2>0, <2>3 DEF RxInv, GotInv
  <2>4. CASE rx[c] # <<>> /\ rx' = [rx EXCEPT ![c] = Tail(@)] /\ got' = [got EXCEPT ![c] = Append(@, Head(rx[c]))]
    <3>1. /\ Head(rx[c]) \in Piece /\ Head(rx[c]) = rx[c][1] /\ 1 \in 1 .. Len(rx[c])
          /\ Tail(rx[c]) \in Seq(Piece)
          /\ \A k \in 1 .. Len(Tail(rx[c])) : k + 1 \in 1 .. Len(rx[c]) /\ Tail(rx[c])[k] = rx[c][k + 1]
      BY <1>3, <2>4, HeadTailFacts
    <3>2. /\ Append(got[c], Head(rx[c])) \in Seq(Piece)
          /\ Len(Append(got[c], Head(rx[c]))) = Len(got[c]) + 1 /\ Len(got[c]) \in Nat
          /\ \A k \in 1 .. Len(got[c]) : Append(got[c], Head(rx[c]))[k] = got[c][k]
          /\ Append(got[c], Head(rx[c]))[Len(got[c]) + 1] = Head(rx[c])
      BY <1>3, <3>1, AppendFacts
    <3>3. /\ rx' \in [Client -> Seq(Piece)] /\ rx'[c] = Tail(rx[c])
          /\ \A b \in Client : b # c => rx'[b] = rx[b]
      BY <2>0, <2>4, <3>1
    <3>4. /\ got' \in [Client -> Seq(Piece)] /\ got'[c] = Append(got[c], Head(rx[c]))
          /\ \A b \in Client : b # c => got'[b] = got[b]
      BY <2>0, <2>4, <3>2
    <3>5. RxInv'
      <4> SUFFICES ASSUME NEW b \in Client, NEW k \in 1 .. Len(rx'[b])
                   PROVE  rx'[b][k].file \in AskedBy(b)
        BY <2>0 DEF RxInv
      <4>1. CASE b = c
        <5>1. k \in 1 .. Len(Tail(rx[c])) /\ rx'[b][k] = Tail(rx[c])[k]
          BY <3>3, <4>1
        <5>2. k + 1 \in 1 .. Len(rx[c]) /\ rx'[b][k] = rx[c][k + 1]
          BY <3>1, <5>1
        <5>3. rx[c][k + 1].file \in AskedBy(c)
          BY <2>0, <5>2 DEF RxInv
        <5> QED BY <4>1, <5>2, <5>3
      <4>2. CASE b # c
        BY <2>0, <3>3, <4>2 DEF RxInv
      <4> QED BY <4>1, <4>2
    <3>6. GotInv'
      <4> SUFFICES ASSUME NEW b \in Client, NEW k \in 1 .. Len(got'[b])
                   PROVE  got'[b][k].file \in AskedBy(b)
        BY <2>0 DEF GotInv
      <4>1. CASE b # c \/ k \in 1 .. Len(got[c])
        BY <2>0, <3>2, <3>4, <4>1 DEF GotInv
      <4>2. CASE b = c /\ k = Len(got[c]) + 1
        <5>1. got'[b][k] = rx[c][1]
          BY <3>1, <3>2, <3>4, <4>2
        <5> QED BY <2>0, <3>1, <4>2, <5>1 DEF RxInv
      <4> QED BY <3>2, <3>4, <4>1, <4>2
    <3> QED BY <3>3, <3>4, <3>5, <3>6
  <2> QED BY <1>5, <2>1, <2>2, <2>3, <2>4
<1>7. TypeOK'
  BY <1>0, <1>2, <1>4, <1>6 DEF TypeOK
<1>8. TableInv' /\ ReadyInv' /\ ReadsDontBlock' /\ JobInv'
  BY <1>0, <1>2 DEF TableInv, ReadyInv, ReadsDontBlock, JobInv
<1>9. RouteInv'
  <2>1. UNCHANGED <<tx, jobs, tpc, job>> /\ \A b : AskedBy(b)' = AskedBy(b)
    BY <1>2 DEF AskedBy
  <2>2. TxInv' /\ JobsInv'
    BY <1>0, <2>1 DEF RouteInv, TxInv, JobsInv
  <2>3. WorkInv'
    BY <1>0, <2>1 DEF RouteInv, WorkInv
  <2> QED BY <1>6, <2>2, <2>3 DEF RouteInv
<1> QED BY <1>7, <1>8, <1>9 DEF Inv

---------------------------------------------------------------------------
(* The loop of main. *)
LEMMA SelectKeeps == ASSUME Inv, Select \/ ReinitSelect PROVE Inv'
<1> USE FileServerAssumption
<1>0. TypeOK /\ TableInv /\ ReadyInv /\ ReadsDontBlock /\ JobInv /\ RouteInv
  BY DEF Inv
<1>1. UNCHANGED <<clients, cmds, tx, jobs, tpc, job, sent, rx, reading, got, ended, registered, asked, noise>>
  BY DEF Select, ReinitSelect, threadVars, clientVars
<1>2. Len(clients) \in Nat
  BY <1>0 DEF TypeOK
<1>3. /\ mpc' \in {"select", "command", "clients"} /\ ready' \subseteq 0 .. Len(clients)
      /\ mpc' = "clients" => 0 \notin ready'
  BY <1>0, <1>2 DEF Select, ReinitSelect, TypeOK, Refilled
<1>4. TypeOK'
  BY <1>0, <1>1, <1>3 DEF TypeOK
<1>5. ReadsDontBlock' /\ ReadyInv'
  BY <1>1, <1>3 DEF Select, ReinitSelect, Pending, ReadsDontBlock, ReadyInv
<1>6. TableInv' /\ JobInv' /\ RouteInv'
  <2>1. TableInv' /\ JobInv'
    BY <1>0, <1>1 DEF TableInv, JobInv
  <2> QED BY <1>0, <1>1, <2>1, RouteSame
<1> QED BY <1>4, <1>5, <1>6 DEF Inv

LEMMA ServerCmdKeeps == ASSUME Inv, ServerCmd PROVE Inv'
<1> USE FileServerAssumption
<1>0. TypeOK /\ TableInv /\ ReadyInv /\ ReadsDontBlock /\ JobInv /\ RouteInv
  BY DEF Inv
<1>1. /\ mpc = "command" /\ mpc' \in {"exited", "clients"}
      /\ ready' = ready \ {0} /\ cmds' = <<>>
      /\ clients' = IF Head(cmds) \in Client THEN Append(clients, Head(cmds)) ELSE clients
      /\ UNCHANGED <<tx, jobs, tpc, job, sent, rx, reading, got, ended, registered, asked, noise>>
  BY DEF ServerCmd, threadVars, clientVars
<1>2. cmds # <<>> /\ cmds \in Seq(Client \cup {"off", "noise"})
  BY <1>0, <1>1 DEF TypeOK, ReadsDontBlock
<1>3. Head(cmds) = cmds[1] /\ 1 \in 1 .. Len(cmds)
  BY <1>2, HeadTailFacts
<1>4. clients \in Seq(Client) /\ Len(clients) \in Nat
  BY <1>0 DEF TypeOK
<1>5. /\ clients' \in Seq(Client) /\ Len(clients') \in Nat /\ Len(clients) <= Len(clients')
      /\ \A j \in 1 .. Len(clients) : clients'[j] = clients[j]
      /\ \A j \in 1 .. Len(clients') : j \in 1 .. Len(clients) \/
           /\ j = Len(clients) + 1 /\ Head(cmds) \in Client /\ clients'[j] = Head(cmds)
  <2>1. CASE Head(cmds) \in Client
    <3>1. /\ Append(clients, Head(cmds)) \in Seq(Client)
          /\ Len(Append(clients, Head(cmds))) = Len(clients) + 1
          /\ \A k \in 1 .. Len(clients) : Append(clients, Head(cmds))[k] = clients[k]
          /\ Append(clients, Head(cmds))[Len(clients) + 1] = Head(cmds)
      BY <1>4, <2>1, AppendFacts
    <3> QED BY <1>1, <1>4, <2>1, <3>1
  <2>2. CASE Head(cmds) \notin Client
    BY <1>1, <1>4, <2>2
  <2> QED BY <2>1, <2>2
<1>6. TypeOK'
  <2>1. <<>> \in Seq(Client \cup {"off", "noise"}) /\ ready' \subseteq 0 .. Len(clients')
    BY <1>0, <1>1, <1>4, <1>5 DEF TypeOK
  <2> QED BY <1>0, <1>1, <1>5, <2>1 DEF TypeOK
<1>7. TableInv'
  <2>1. Len(cmds') = 0
    BY <1>1
  <2>2. Head(cmds) \in Client => /\ Head(cmds) \in registered
                                 /\ \A j \in 1 .. Len(clients) : clients[j] # Head(cmds)
    BY <1>0, <1>3 DEF TableInv
  <2> QED BY <1>0, <1>1, <1>5, <2>1, <2>2 DEF TableInv
<1>8. ReadyInv'
  BY <1>1 DEF ReadyInv
<1>9. ReadsDontBlock'
  <2>1. \A j \in ready \ {0} : j \in 1 .. Len(clients) /\ tx[clients[j]] # <<>>
    BY <1>0, <1>1, <1>4 DEF TypeOK, ReadsDontBlock
  <2> QED BY <1>1, <1>5, <2>1 DEF ReadsDontBlock
<1>10. JobInv' /\ RouteInv'
  <2>1. JobInv'
    BY <1>0, <1>1 DEF JobInv
  <2> QED BY <1>0, <1>1, <2>1, RouteSame
<1> QED BY <1>6, <1>7, <1>8, <1>9, <1>10 DEF Inv

LEMMA ClientRequestKeeps == ASSUME Inv, ClientRequest PROVE Inv'
<1> USE FileServerAssumption
<1>0. TypeOK /\ TableInv /\ ReadyInv /\ ReadsDontBlock /\ JobInv /\ RouteInv
  BY DEF Inv
<1>1. /\ mpc = "clients"
      /\ UNCHANGED <<mpc, clients, cmds, tpc, job, sent, rx, reading, got, ended, registered, asked, noise>>
  BY DEF ClientRequest, threadVars, clientVars
<1>2. PICK j \in ready :
        /\ ready' = ready \ {j}
        /\ jobs' = IF Head(tx[clients[j]]) = "noise" THEN jobs ELSE Append(jobs, Order(clients[j]))
        /\ tx' = [tx EXCEPT ![clients[j]] = <<>>]
  BY DEF ClientRequest, Emptied
<1> DEFINE c == clients[j]
<1>3. j \in 1 .. Len(clients) /\ c \in Client /\ tx[c] # <<>>
  <2>1. clients \in Seq(Client) /\ Len(clients) \in Nat /\ j \in 0 .. Len(clients)
    BY <1>0 DEF TypeOK
  <2>2. j # 0
    BY <1>0, <1>1 DEF ReadyInv
  <2>3. j \in 1 .. Len(clients) /\ c \in Client
    BY <2>1, <2>2
  <2>4. tx[c] # <<>>
    BY <1>0, <1>1, <2>2 DEF ReadsDontBlock
  <2> QED BY <2>3, <2>4
<1>4. tx[c] \in Seq(File \cup {"noise"})
  BY <1>0, <1>3 DEF TypeOK
<1>5. Head(tx[c]) \in File \cup {"noise"} /\ Head(tx[c]) = tx[c][1] /\ 1 \in 1 .. Len(tx[c])
  BY <1>3, <1>4, HeadTailFacts
<1>6. /\ tx' \in [Client -> Seq(File \cup {"noise"})] /\ tx'[c] = <<>>
      /\ \A b \in Client : b # c => tx'[b] = tx[b]
  <2>1. <<>> \in Seq(File \cup {"noise"}) /\ tx \in [Client -> Seq(File \cup {"noise"})]
    BY <1>0 DEF TypeOK
  <2> QED BY <1>2, <1>3, <2>1
<1>7. jobs' \in Seq(Job) /\ JobsInv'
  <2>0. jobs \in Seq(Job) /\ JobsInv /\ \A b : AskedBy(b)' = AskedBy(b)
    BY <1>0, <1>1 DEF TypeOK, RouteInv, AskedBy
  <2>1. CASE Head(tx[c]) = "noise"
    BY <1>2, <2>0, <2>1 DEF JobsInv
  <2>2. CASE Head(tx[c]) # "noise"
    <3>1. Order(c) \in Job /\ Order(c).dest = c /\ Order(c).file = Head(tx[c])
      BY <1>3, <1>5, <2>2 DEF Order, Job
    <3>2. Head(tx[c]) \in AskedBy(c)
      BY <1>0, <1>3, <1>5, <2>2 DEF RouteInv, TxInv
    <3>3. /\ Append(jobs, Order(c)) \in Seq(Job)
          /\ Len(Append(jobs, Order(c))) = Len(jobs) + 1 /\ Len(jobs) \in Nat
          /\ \A k \in 1 .. Len(jobs) : Append(jobs, Order(c))[k] = jobs[k]
          /\ Append(jobs, Order(c))[Len(jobs) + 1] = Order(c)
      BY <2>0, <3>1, AppendFacts
    <3>4. jobs' = Append(jobs, Order(c))
      BY <1>2, <2>2
    <3>5. ASSUME NEW k \in 1 .. Len(jobs')
          PROVE  jobs'[k].file \in AskedBy(jobs'[k].dest)
      <4>1. CASE k \in 1 .. Len(jobs)
        BY <2>0, <3>3, <3>4, <4>1 DEF JobsInv
      <4>2. CASE k = Len(jobs) + 1
        BY <3>1, <3>2, <3>3, <3>4, <4>2
      <4> QED BY <3>3, <3>4, <4>1, <4>2
    <3> QED BY <2>0, <3>3, <3>4, <3>5 DEF JobsInv
  <2> QED BY <2>1, <2>2
<1>8. TypeOK'
  <2>1. ready' \subseteq 0 .. Len(clients)
    BY <1>0, <1>2 DEF TypeOK
  <2> QED BY <1>0, <1>1, <1>6, <1>7, <2>1 DEF TypeOK
<1>9. TableInv' /\ ReadyInv' /\ JobInv'
  BY <1>0, <1>1, <1>2 DEF TableInv, ReadyInv, JobInv
<1>10. ReadsDontBlock'
  <2> SUFFICES ASSUME NEW l \in ready \ {0}, l # j
               PROVE  tx'[clients[l]] # <<>>
    BY <1>1, <1>2 DEF ReadsDontBlock
  <2>1. l \in 1 .. Len(clients) /\ clients[l] \in Client
    BY <1>0 DEF TypeOK
  <2>2. clients[l] # c /\ tx[clients[l]] # <<>>
    BY <1>0, <1>1, <1>3, <2>1 DEF TableInv, ReadsDontBlock
  <2> QED BY <1>6, <2>1, <2>2
<1>11. RouteInv'
  <2>0. TxInv /\ WorkInv /\ RxInv /\ GotInv /\ \A b : AskedBy(b)' = AskedBy(b)
    BY <1>0, <1>1 DEF RouteInv, AskedBy
  <2>1. TxInv'
    <3> SUFFICES ASSUME NEW b \in Client, NEW k \in 1 .. Len(tx'[b]), tx'[b][k] # "noise"
                 PROVE  tx'[b][k] \in AskedBy(b)
      BY <2>0 DEF TxInv
    <3>1. b # c
      BY <1>6
    <3> QED BY <1>6, <2>0, <3>1 DEF TxInv
  <2>2. WorkInv' /\ RxInv' /\ GotInv'
    BY <1>1, <2>0 DEF WorkInv, RxInv, GotInv
  <2> QED BY <1>7, <2>1, <2>2 DEF RouteInv
<1> QED BY <1>8, <1>9, <1>10, <1>11 DEF Inv

---------------------------------------------------------------------------
(* The threads of the pool.  A step of theirs leaves alone what main reads.   *)
LEMMA ThreadAlone ==
  ASSUME Inv, NEW t \in Thread, ThreadStep(t)
  PROVE  /\ UNCHANGED <<ready, clients, cmds, tx, got, ended, registered, asked, noise>>
         /\ TableInv' /\ ReadyInv' /\ ReadsDontBlock' /\ TxInv' /\ GotInv'
         /\ mpc' \in {"select", "command", "clients", "exited", "aborted", "killed"}
         /\ \A b : AskedBy(b)' = AskedBy(b)
<1>0. TypeOK /\ TableInv /\ ReadyInv /\ ReadsDontBlock /\ TxInv /\ GotInv
  BY DEF Inv, RouteInv
<1>1. /\ UNCHANGED <<ready, clients, cmds, tx, got, ended, registered, asked, noise>>
      /\ mpc' = mpc \/ mpc' \in {"aborted", "killed"}
  BY DEF ThreadStep, TakeJob, OpenFiles, WritePiece, BrokenPipe, CloseFiles, mainVars, clientVars
<1>2. mpc \in {"select", "command", "clients", "exited", "aborted", "killed"}
  BY <1>0 DEF TypeOK
<1>3. \A b : AskedBy(b)' = AskedBy(b)
  BY <1>1 DEF AskedBy
<1>4. TableInv' /\ ReadyInv' /\ ReadsDontBlock'
  BY <1>0, <1>1 DEF TableInv, ReadyInv, ReadsDontBlock
<1>5. TxInv' /\ GotInv'
  BY <1>0, <1>1, <1>3 DEF TxInv, GotInv
<1> QED BY <1>1, <1>2, <1>3, <1>4, <1>5

(* The rest of the types and of the invariant, which a thread may touch. *)
ThreadType ==
  /\ jobs \in Seq(Job)
  /\ tpc \in [Thread -> {"idle", "open", "write"}]
  /\ job \in [Thread -> Job \cup {Idle}]
  /\ sent \in [Thread -> Nat]
  /\ rx \in [Client -> Seq(Piece)]
  /\ reading \in [Client -> {"no", "opening", "open"}]

LEMMA ThreadEnough ==
  ASSUME Inv, NEW t \in Thread, ThreadStep(t),
         ThreadType', JobInv', JobsInv', WorkInv', RxInv'
  PROVE  Inv'
<1>0. TypeOK
  BY DEF Inv
<1>1. TypeOK'
  BY <1>0, ThreadAlone DEF TypeOK, ThreadType
<1> QED BY <1>1, ThreadAlone DEF Inv, RouteInv

LEMMA ThreadKeeps ==
  ASSUME Inv, NEW t \in Thread, ThreadStep(t)
  PROVE  Inv'
<1> USE FileServerAssumption
<1>0. /\ ThreadType /\ JobInv /\ JobsInv /\ WorkInv /\ RxInv
      /\ \A b : AskedBy(b)' = AskedBy(b)
  BY ThreadAlone DEF Inv, RouteInv, TypeOK, ThreadType
<1>1. CASE TakeJob(t)
  <2>1. /\ tpc[t] = "idle" /\ tpc' = [tpc EXCEPT ![t] = "open"]
        /\ jobs # <<>> /\ jobs' = Tail(jobs) /\ job' = [job EXCEPT ![t] = Head(jobs)]
        /\ UNCHANGED <<sent, rx, reading>>
    BY <1>1 DEF TakeJob, Go, clientVars
  <2>2. /\ Head(jobs) \in Job /\ Head(jobs) = jobs[1] /\ 1 \in 1 .. Len(jobs)
        /\ Tail(jobs) \in Seq(Job)
        /\ \A k \in 1 .. Len(Tail(jobs)) : k + 1 \in 1 .. Len(jobs) /\ Tail(jobs)[k] = jobs[k + 1]
    BY <1>0, <2>1, HeadTailFacts DEF ThreadType
  <2>3. /\ tpc'[t] = "open" /\ job'[t] = jobs[1]
        /\ \A u \in Thread : u # t => tpc'[u] = tpc[u] /\ job'[u] = job[u]
    BY <1>0, <2>1, <2>2 DEF ThreadType
  <2>4. ThreadType'
    BY <1>0, <2>1, <2>2 DEF ThreadType
  <2>5. JobInv' /\ JobsInv' /\ WorkInv' /\ RxInv'
    <3>1. JobInv'
      BY <1>0, <2>2, <2>3 DEF JobInv
    <3>2. JobsInv'
      BY <1>0, <2>1, <2>2 DEF JobsInv
    <3>3. WorkInv'
      BY <1>0, <2>2, <2>3 DEF WorkInv, JobsInv
    <3>4. RxInv'
      BY <1>0, <2>1 DEF RxInv
    <3> QED BY <3>1, <3>2, <3>3, <3>4
  <2> QED BY <2>4, <2>5, ThreadEnough
<1>2. CASE OpenFiles(t)
  <2>1. /\ tpc[t] = "open" /\ (tpc' = tpc \/ tpc' = [tpc EXCEPT ![t] = "write"])
        /\ reading' = [reading EXCEPT ![job[t].dest] = "open"]
        /\ UNCHANGED <<jobs, job, sent, rx>>
    BY <1>2 DEF OpenFiles
  <2>2. \A u \in Thread : tpc'[u] = tpc[u] \/ (u = t /\ tpc'[u] = "write")
    BY <1>0, <2>1 DEF ThreadType
  <2>3. ThreadType'
    BY <1>0, <2>1 DEF ThreadType
  <2>4. JobInv' /\ WorkInv'
    BY <1>0, <2>1, <2>2 DEF JobInv, WorkInv
  <2>5. JobsInv' /\ RxInv'
    BY <1>0, <2>1 DEF JobsInv, RxInv
  <2> QED BY <2>3, <2>4, <2>5, ThreadEnough
<1>3. CASE WritePiece(t)
  <2> DEFINE c == job[t].dest
             p == [file |-> job[t].file, n |-> sent[t] + 1]
  <2>1. /\ tpc[t] = "write" /\ rx' = [rx EXCEPT ![c] = Append(@, p)]
        /\ sent' = [sent EXCEPT ![t] = @ + 1]
        /\ UNCHANGED <<jobs, tpc, job, reading>>
    BY <1>3 DEF WritePiece, clientVars
  <2>2. c \in Client /\ p \in Piece /\ p.file \in AskedBy(c)
    <3>1. job[t] \in Job /\ sent[t] \in Nat /\ job[t].file \in AskedBy(job[t].dest)
      BY <1>0, <2>1 DEF JobInv, WorkInv, ThreadType
    <3> QED BY <3>1 DEF Job, Piece
  <2> HIDE DEF c, p
  <2>3. /\ Append(rx[c], p) \in Seq(Piece)
        /\ Len(Append(rx[c], p)) = Len(rx[c]) + 1 /\ Len(rx[c]) \in Nat
        /\ \A k \in 1 .. Len(rx[c]) : Append(rx[c], p)[k] = rx[c][k]
        /\ Append(rx[c], p)[Len(rx[c]) + 1] = p
    <3>1. rx[c] \in Seq(Piece)
      BY <1>0, <2>2 DEF ThreadType
    <3> QED BY <2>2, <3>1, AppendFacts
  <2>4. /\ rx' \in [Client -> Seq(Piece)] /\ rx'[c] = Append(rx[c], p)
        /\ \A b \in Client : b # c => rx'[b] = rx[b]
    BY <1>0, <2>1, <2>2, <2>3 DEF ThreadType
  <2>5. ThreadType'
    BY <1>0, <2>1, <2>4 DEF ThreadType
  <2>6. RxInv'
    <3> SUFFICES ASSUME NEW b \in Client, NEW k \in 1 .. Len(rx'[b])
                 PROVE  rx'[b][k].file \in AskedBy(b)
      BY <1>0 DEF RxInv
    <3>1. CASE b # c
      BY <1>0, <2>4, <3>1 DEF RxInv
    <3>2. CASE b = c /\ k \in 1 .. Len(rx[c])
      BY <1>0, <2>2, <2>3, <2>4, <3>2 DEF RxInv
    <3>3. CASE b = c /\ k = Len(rx[c]) + 1
      BY <2>2, <2>3, <2>4, <3>3
    <3> QED BY <2>3, <2>4, <3>1, <3>2, <3>3
  <2>7. JobInv' /\ JobsInv' /\ WorkInv'
    BY <1>0, <2>1 DEF JobInv, JobsInv, WorkInv
  <2> QED BY <2>5, <2>6, <2>7, ThreadEnough
<1>4. CASE BrokenPipe(t)
  <2>1. UNCHANGED <<jobs, tpc, job, sent, rx, reading>>
    BY <1>4 DEF BrokenPipe, threadVars, clientVars
  <2>2. ThreadType'
    BY <1>0, <2>1 DEF ThreadType
  <2>3. JobInv' /\ JobsInv' /\ WorkInv' /\ RxInv'
    BY <1>0, <2>1 DEF JobInv, JobsInv, WorkInv, RxInv
  <2> QED BY <2>2, <2>3, ThreadEnough
<1>5. CASE CloseFiles(t)
  <2>1. /\ tpc[t] = "write" /\ tpc' = [tpc EXCEPT ![t] = "idle"]
        /\ job' = [job EXCEPT ![t] = Idle] /\ sent' = [sent EXCEPT ![t] = 0]
        /\ rx' = rx \/ rx' = [rx EXCEPT ![job[t].dest] = <<>>]
        /\ UNCHANGED <<jobs, reading>>
    BY <1>5 DEF CloseFiles, Go, clientVars
  <2>2. \A u \in Thread : /\ u # t => tpc'[u] = tpc[u] /\ job'[u] = job[u]
                          /\ u = t => tpc'[u] = "idle" /\ job'[u] = Idle
    BY <1>0, <2>1 DEF ThreadType
  <2>3. <<>> \in Seq(Piece) /\ rx' \in [Client -> Seq(Piece)]
        /\ \A b \in Client : rx'[b] = rx[b] \/ rx'[b] = <<>>
    <3>1. <<>> \in Seq(Piece) /\ rx \in [Client -> Seq(Piece)]
      BY <1>0 DEF ThreadType
    <3>2. CASE rx' = rx
      BY <3>1, <3>2
    <3>3. CASE rx' = [rx EXCEPT ![job[t].dest] = <<>>]
      BY <3>1, <3>3
    <3> QED BY <2>1, <3>2, <3>3
  <2>4. ThreadType'
    BY <1>0, <2>1, <2>3 DEF ThreadType
  <2>5. JobInv' /\ WorkInv'
    BY <1>0, <2>2 DEF JobInv, WorkInv
  <2>6. JobsInv'
    BY <1>0, <2>1 DEF JobsInv
  <2>7. RxInv'
    <3> SUFFICES ASSUME NEW b \in Client, NEW k \in 1 .. Len(rx'[b])
                 PROVE  rx'[b][k].file \in AskedBy(b)
      BY <1>0 DEF RxInv
    <3>1. rx'[b] # <<>>
      OBVIOUS
    <3> QED BY <1>0, <2>3, <3>1 DEF RxInv
  <2> QED BY <2>4, <2>5, <2>6, <2>7, ThreadEnough
<1> QED BY <1>1, <1>2, <1>3, <1>4, <1>5 DEF ThreadStep

---------------------------------------------------------------------------
LEMMA NextInv == Inv /\ [Next]_vars => Inv'
<1> SUFFICES ASSUME Inv, [Next]_vars
             PROVE  Inv'
  OBVIOUS
<1>1. CASE ClientStep
  BY <1>1, CommandKeeps, AskKeeps, ReadKeeps DEF ClientStep
<1>2. CASE MainStep
  BY <1>2, SelectKeeps, ServerCmdKeeps, ClientRequestKeeps DEF MainStep
<1>3. CASE \E t \in Thread : ThreadStep(t)
  BY <1>3, ThreadKeeps
<1>4. CASE UNCHANGED vars
  <2>1. UNCHANGED <<mpc, ready, clients, cmds, tx, jobs, tpc, job, sent, rx,
                    reading, got, ended, registered, asked, noise>>
    BY <1>4 DEF vars, mainVars, threadVars, clientVars
  <2>2. TypeOK' /\ TableInv' /\ ReadyInv' /\ ReadsDontBlock' /\ JobInv'
    BY <2>1 DEF Inv, TypeOK, TableInv, ReadyInv, ReadsDontBlock, JobInv
  <2>3. RouteInv'
    BY <2>1, RouteSame DEF Inv
  <2> QED BY <2>2, <2>3 DEF Inv
<1> QED BY <1>1, <1>2, <1>3, <1>4 DEF Next

(* The inductive invariant holds in every state of the server: TableInv is    *)
(* what add_client and the clients' single REG keep, ReadyInv what server_cmd *)
(* does to the fd_set before the loop over the table.                         *)
THEOREM Invariance == Spec => []Inv
<1>1. Init => Inv
  BY InitInv
<1>2. Inv /\ [Next]_vars => Inv'
  BY NextInv
<1> QED BY <1>1, <1>2, PTL DEF Spec

(* Every variable of the server, of its pool and of the clients keeps to its  *)
(* type; the fd_set never names an entry the table does not have.             *)
THEOREM TypeCorrect == Spec => []TypeOK
<1>1. Inv => TypeOK
  BY DEF Inv
<1> QED BY <1>1, Invariance, PTL

(* main never calls read() on an empty FIFO: not on the command FIFO, and on  *)
(* no client's, whichever descriptors select() has left in the set and        *)
(* however the table has grown since.                                         *)
THEOREM MainNeverBlocks == Spec => []ReadsDontBlock
<1>1. Inv => ReadsDontBlock
  BY DEF Inv
<1> QED BY <1>1, Invariance, PTL

LEMMA StreamElements ==
  ASSUME TypeOK, NEW c \in Client, NEW k \in 1 .. Len(Stream(c))
  PROVE  \/ k \in 1 .. Len(got[c]) /\ Stream(c)[k] = got[c][k]
         \/ k - Len(got[c]) \in 1 .. Len(rx[c]) /\ Stream(c)[k] = rx[c][k - Len(got[c])]
<1>1. got[c] \in Seq(Piece) /\ rx[c] \in Seq(Piece)
  BY DEF TypeOK
<1>2. Len(got[c]) \in Nat /\ Len(rx[c]) \in Nat
  BY <1>1
<1>3. /\ Len(got[c] \o rx[c]) = Len(got[c]) + Len(rx[c])
      /\ \A i \in 1 .. Len(got[c]) + Len(rx[c]) :
           (got[c] \o rx[c])[i] = IF i <= Len(got[c]) THEN got[c][i] ELSE rx[c][i - Len(got[c])]
  BY <1>1, ConcatProperties
<1>4. k \in 1 .. Len(got[c]) + Len(rx[c])
  BY <1>3 DEF Stream
<1>5. CASE k <= Len(got[c])
  BY <1>2, <1>3, <1>4, <1>5 DEF Stream
<1>6. CASE ~(k <= Len(got[c]))
  <2>1. k - Len(got[c]) \in 1 .. Len(rx[c])
    <3>1. \A m, n \in Nat : \A i \in 1 .. m + n : ~(i <= m) => i - m \in 1 .. n
      OBVIOUS
    <3> QED BY <1>2, <1>4, <1>6, <3>1
  <2>2. (got[c] \o rx[c])[k] = rx[c][k - Len(got[c])]
    BY <1>3, <1>4, <1>6
  <2> QED BY <2>1, <2>2 DEF Stream
<1> QED BY <1>5, <1>6

(* What send_file writes into a client's FIFO, and what the client reads out  *)
(* of it, are pieces of files this client has asked for: no thread, and no    *)
(* order of the requests, sends one client what another one wanted.           *)
THEOREM Routed == Spec => []Routing
<1>1. Inv => Routing
  <2> SUFFICES ASSUME Inv
               PROVE  Routing
    OBVIOUS
  <2>0. TypeOK /\ JobInv /\ JobsInv /\ WorkInv /\ RxInv /\ GotInv
    BY DEF Inv, RouteInv
  <2>1. \A k \in 1 .. Len(jobs) : jobs[k].file \in AskedBy(jobs[k].dest)
    BY <2>0 DEF JobsInv
  <2>2. \A t \in Thread : job[t] # Idle => job[t].file \in AskedBy(job[t].dest)
    BY <2>0 DEF JobInv, WorkInv
  <2>3. ASSUME NEW c \in Client, NEW k \in 1 .. Len(Stream(c))
        PROVE  Stream(c)[k].file \in AskedBy(c)
    <3>1. CASE k \in 1 .. Len(got[c]) /\ Stream(c)[k] = got[c][k]
      BY <2>0, <3>1 DEF GotInv
    <3>2. CASE k - Len(got[c]) \in 1 .. Len(rx[c]) /\ Stream(c)[k] = rx[c][k - Len(got[c])]
      BY <2>0, <3>2 DEF RxInv
    <3> QED BY <2>0, <3>1, <3>2, StreamElements
  <2> QED BY <2>1, <2>2, <2>3 DEF Routing
<1> QED BY <1>1, Invariance, PTL

---------------------------------------------------------------------------
(* What a client with one request gets.  Where its request may be: in its     *)
(* FIFO, in the queue of the pool, with a thread.                             *)
Single(c)    == Len(asked[c]) <= 1
InTx(c, k)   == tx[c][k] # "noise"
InJobs(c, k) == jobs[k].dest = c
Serves(t, c) == tpc[t] # "idle" /\ job[t].dest = c

(* A request is in one place, and only once there. *)
PlaceOf(c) ==
  /\ \A k, l \in 1 .. Len(tx[c]) : InTx(c, k) /\ InTx(c, l) => k = l
  /\ \A k, l \in 1 .. Len(jobs) : InJobs(c, k) /\ InJobs(c, l) => k = l
  /\ \A t, u \in Thread : Serves(t, c) /\ Serves(u, c) => t = u
  /\ \A k \in 1 .. Len(tx[c]), l \in 1 .. Len(jobs) : ~(InTx(c, k) /\ InJobs(c, l))
  /\ \A k \in 1 .. Len(tx[c]), t \in Thread : ~(InTx(c, k) /\ Serves(t, c))
  /\ \A k \in 1 .. Len(jobs), t \in Thread : ~(InJobs(c, k) /\ Serves(t, c))

PlaceInv == \A c \in Client : Single(c) => PlaceOf(c)

(* As long as no thread writes the file, nothing of it is on the way. *)
Waiting(c) ==
  \/ \E k \in 1 .. Len(tx[c]) : InTx(c, k)
  \/ \E k \in 1 .. Len(jobs) : InJobs(c, k)
  \/ \E t \in Thread : Serves(t, c) /\ tpc[t] = "open"

FreshInv == \A c \in Client : Single(c) /\ Waiting(c) => Stream(c) = <<>>

(* A thread counts what it writes, and goes on behind the last piece that is  *)
(* on the way or read.                                                        *)
SentInv == \A t \in Thread : tpc[t] # "write" => sent[t] = 0

InOrder(s) == \A k \in 1 .. Len(s) - 1 : s[k + 1].n = s[k].n + 1

FlowOf(c) ==
  /\ InOrder(Stream(c))
  /\ \A t \in Thread : Writes(t, c) /\ Stream(c) # <<>> => Stream(c)[Len(Stream(c))].n = sent[t]

FlowInv == \A c \in Client : Single(c) => FlowOf(c)

(* If nobody has left early, the stream of a client is the file as far as the *)
(* thread has written it, and the whole file when no thread writes.           *)
WholeOf(c) ==
  /\ \A t \in Thread : Writes(t, c) => reading[c] = "open" /\ sent[t] = Len(Stream(c))
  /\ \A k \in 1 .. Len(Stream(c)) : Stream(c)[k] = [file |-> asked[c][1], n |-> k]
  /\ NoWriter(c) /\ Stream(c) # <<>> => Len(Stream(c)) = Pieces[asked[c][1]]
  /\ reading[c] = "no" => rx[c] = <<>>
  /\ reading[c] = "no" /\ ended[c] = 0 => got[c] = <<>>

WholeInv == Running /\ noise = 0 => \A c \in Client : Single(c) => WholeOf(c)

OneInv == Inv /\ PlaceInv /\ SentInv /\ FreshInv /\ FlowInv /\ WholeInv

---------------------------------------------------------------------------
LEMMA ConcatFacts ==
  ASSUME NEW S, NEW a \in Seq(S), NEW b \in Seq(S)
  PROVE  /\ a \o b \in Seq(S)
         /\ Len(a \o b) = Len(a) + Len(b) /\ Len(a) \in Nat /\ Len(b) \in Nat
         /\ \A k \in 1 .. Len(a) : (a \o b)[k] = a[k]
         /\ \A k \in 1 .. Len(b) : (a \o b)[Len(a) + k] = b[k]
         /\ a \o b = <<>> <=> a = <<>> /\ b = <<>>
         /\ a \o <<>> = a /\ <<>> \o b = b
OBVIOUS

LEMMA SameSequence ==
  ASSUME NEW S, NEW s \in Seq(S), NEW r \in Seq(S), Len(s) = Len(r),
         \A k \in 1 .. Len(s) : s[k] = r[k]
  PROVE  s = r
BY SeqEqual

(* A piece that is read goes from the FIFO to what the client has. *)
LEMMA MoveOne ==
  ASSUME NEW S, NEW a \in Seq(S), NEW b \in Seq(S), b # <<>>
  PROVE  Append(a, Head(b)) \o Tail(b) = a \o b
<1> DEFINE a1 == Append(a, Head(b))
           b1 == Tail(b)
<1>1. /\ b1 \in Seq(S) /\ Len(b1) + 1 = Len(b) /\ Head(b) = b[1] /\ Head(b) \in S
      /\ \A k \in 1 .. Len(b1) : b1[k] = b[k + 1]
      /\ Len(a) \in Nat /\ Len(b) \in Nat /\ Len(b1) \in Nat
  OBVIOUS
<1>2. /\ a1 \in Seq(S) /\ Len(a1) = Len(a) + 1
      /\ \A k \in 1 .. Len(a) : a1[k] = a[k]
      /\ a1[Len(a) + 1] = b[1]
  BY <1>1, AppendFacts
<1> HIDE DEF a1, b1
<1>3. a1 \o b1 \in Seq(S) /\ a \o b \in Seq(S) /\ Len(a1 \o b1) = Len(a \o b)
  <2>1. a1 \in Seq(S) /\ b1 \in Seq(S)
    BY <1>1, <1>2
  <2>2. a1 \o b1 \in Seq(S) /\ Len(a1 \o b1) = Len(a1) + Len(b1)
    BY <2>1, ConcatFacts
  <2>3. a \o b \in Seq(S) /\ Len(a \o b) = Len(a) + Len(b)
    BY ConcatFacts
  <2>4. Len(a1) + Len(b1) = Len(a) + Len(b)
    <3>1. /\ Len(a) \in Nat /\ Len(b) \in Nat /\ Len(b1) \in Nat
          /\ Len(b1) + 1 = Len(b) /\ Len(a1) = Len(a) + 1
      BY <1>1, <1>2
    <3> QED BY <3>1
  <2> QED BY <2>2, <2>3, <2>4
<1>4. ASSUME NEW k \in 1 .. Len(a \o b)
      PROVE  (a1 \o b1)[k] = (a \o b)[k]
  <2>0. Len(a \o b) = Len(a) + Len(b)
    BY ConcatFacts
  <2>1. CASE k \in 1 .. Len(a)
    <3>1. (a1 \o b1)[k] = a1[k]
      <4>1. k \in 1 .. Len(a1)
        BY <1>1, <1>2, <2>1
      <4> QED BY <1>1, <1>2, <4>1, ConcatFacts
    <3>2. (a \o b)[k] = a[k]
      BY <2>1, ConcatFacts
    <3> QED BY <1>2, <2>1, <3>1, <3>2
  <2>2. CASE k = Len(a) + 1
    <3>1. (a1 \o b1)[k] = a1[k]
      <4>1. k \in 1 .. Len(a1)
        BY <1>1, <1>2, <2>2
      <4> QED BY <1>1, <1>2, <4>1, ConcatFacts
    <3>2. (a \o b)[Len(a) + 1] = b[1]
      <4>1. 1 \in 1 .. Len(b)
        BY <1>1
      <4> QED BY <4>1, ConcatFacts
    <3> QED BY <1>2, <2>2, <3>1, <3>2
  <2>3. CASE k > Len(a) + 1
    <3>1. PICK m \in 1 .. Len(b1) : k = Len(a) + 1 + m
      <4>1. /\ k - (Len(a) + 1) \in 1 .. Len(b1)
            /\ k = Len(a) + 1 + (k - (Len(a) + 1))
        BY <1>1, <2>0, <2>3
      <4> QED BY <4>1
    <3>2. (a1 \o b1)[Len(a1) + m] = b1[m]
      BY <1>1, <1>2, ConcatFacts
    <3>3. (a \o b)[Len(a) + (m + 1)] = b[m + 1]
      <4>1. m + 1 \in 1 .. Len(b)
        BY <1>1
      <4> QED BY <4>1, ConcatFacts
    <3>4. Len(a1) + m = k /\ Len(a) + (m + 1) = k
      BY <1>1, <1>2, <3>1
    <3>5. b1[m] = b[m + 1]
      BY <1>1
    <3>6. (a1 \o b1)[k] = b1[m]
      BY <3>2, <3>4, Zenon
    <3>7. (a \o b)[k] = b[m + 1]
      BY <3>3, <3>4, Zenon
    <3> QED BY <3>5, <3>6, <3>7
  <2>4. k \in 1 .. Len(a) \/ k = Len(a) + 1 \/ k > Len(a) + 1
    <3>1. Len(a) \in Nat /\ Len(b) \in Nat
      BY <1>1
    <3> QED BY <2>0, <3>1
  <2> QED BY <2>1, <2>2, <2>3, <2>4
<1>5. a1 \o b1 = a \o b
  BY <1>3, <1>4, SameSequence
<1> QED BY <1>5 DEF a1, b1

(* What is written to the FIFO comes last in the stream. *)
LEMMA AddOne ==
  ASSUME NEW S, NEW a \in Seq(S), NEW b \in Seq(S), NEW e \in S
  PROVE  /\ Len(a \o Append(b, e)) = Len(a \o b) + 1
         /\ \A k \in 1 .. Len(a \o b) : (a \o Append(b, e))[k] = (a \o b)[k]
         /\ (a \o Append(b, e))[Len(a \o b) + 1] = e
<1> DEFINE b1 == Append(b, e)
<1>1. /\ b1 \in Seq(S) /\ Len(b1) = Len(b) + 1 /\ b1[Len(b) + 1] = e
      /\ \A k \in 1 .. Len(b) : b1[k] = b[k]
      /\ Len(a) \in Nat /\ Len(b) \in Nat /\ Len(a \o b) = Len(a) + Len(b)
  BY AppendFacts, ConcatFacts
<1> HIDE DEF b1
<1>2. Len(a \o b1) = Len(a) + Len(b1)
  <2>1. b1 \in Seq(S)
    BY <1>1
  <2> QED BY <2>1, ConcatFacts
<1>3. (a \o b1)[Len(a) + (Len(b) + 1)] = e
  <2>1. Len(b) + 1 \in 1 .. Len(b1)
    BY <1>1
  <2> QED BY <1>1, <2>1, ConcatFacts
<1>4. ASSUME NEW k \in 1 .. Len(a \o b)
      PROVE  (a \o b1)[k] = (a \o b)[k]
  <2>1. CASE k \in 1 .. Len(a)
    <3>1. (a \o b1)[k] = a[k]
      BY <1>1, <2>1, ConcatFacts
    <3>2. (a \o b)[k] = a[k]
      BY <2>1, ConcatFacts
    <3> QED BY <3>1, <3>2
  <2>2. CASE ~(k \in 1 .. Len(a))
    <3>1. PICK m \in 1 .. Len(b) : k = Len(a) + m
      <4>1. k - Len(a) \in 1 .. Len(b) /\ k = Len(a) + (k - Len(a))
        BY <1>1, <2>2
      <4> QED BY <4>1
    <3>2. (a \o b1)[Len(a) + m] = b1[m]
      <4>1. m \in 1 .. Len(b1)
        BY <1>1
      <4> QED BY <1>1, <4>1, ConcatFacts
    <3>3. (a \o b)[Len(a) + m] = b[m]
      BY ConcatFacts
    <3> QED BY <1>1, <3>1, <3>2, <3>3
  <2> QED BY <2>1, <2>2
<1>5. Len(a) + (Len(b) + 1) = Len(a \o b) + 1
  BY <1>1
<1>6. Len(a \o b1) = Len(a \o b) + 1
  BY <1>1, <1>2
<1> QED BY <1>3, <1>4, <1>5, <1>6 DEF b1

(* Each end of a stream that is in order is in order. *)
LEMMA EndsInOrder ==
  ASSUME NEW a \in Seq(Piece), NEW b \in Seq(Piece), InOrder(a \o b)
  PROVE  InOrder(a) /\ InOrder(b)
<1>0. /\ Len(a \o b) = Len(a) + Len(b) /\ Len(a) \in Nat /\ Len(b) \in Nat
      /\ \A k \in 1 .. Len(a) : (a \o b)[k] = a[k]
      /\ \A k \in 1 .. Len(b) : (a \o b)[Len(a) + k] = b[k]
  BY ConcatFacts
<1>1. ASSUME NEW k \in 1 .. Len(a) - 1
      PROVE  a[k + 1].n = a[k].n + 1
  <2>1. k \in 1 .. Len(a) /\ k + 1 \in 1 .. Len(a) /\ k \in 1 .. Len(a \o b) - 1
    BY <1>0
  <2>2. (a \o b)[k + 1].n = (a \o b)[k].n + 1
    BY <2>1 DEF InOrder
  <2> QED BY <1>0, <2>1, <2>2
<1>2. ASSUME NEW k \in 1 .. Len(b) - 1
      PROVE  b[k + 1].n = b[k].n + 1
  <2>1. /\ k \in 1 .. Len(b) /\ k + 1 \in 1 .. Len(b) /\ Len(a) + k \in 1 .. Len(a \o b) - 1
        /\ (Len(a) + k) + 1 = Len(a) + (k + 1)
    BY <1>0
  <2>2. (a \o b)[(Len(a) + k) + 1].n = (a \o b)[Len(a) + k].n + 1
    BY <2>1 DEF InOrder
  <2>3. (a \o b)[Len(a) + k] = b[k] /\ (a \o b)[Len(a) + (k + 1)] = b[k + 1]
    BY <1>0, <2>1
  <2> QED BY <2>1, <2>2, <2>3
<1> QED BY <1>1, <1>2 DEF InOrder

---------------------------------------------------------------------------
(* Before its first request nothing is under way for a client. *)
LEMMA NothingYet ==
  ASSUME Inv, NEW c \in Client, asked[c] = <<>>
  PROVE  /\ \A k \in 1 .. Len(tx[c]) : ~InTx(c, k)
         /\ \A k \in 1 .. Len(jobs) : ~InJobs(c, k)
         /\ \A t \in Thread : ~Serves(t, c)
         /\ rx[c] = <<>> /\ got[c] = <<>>
<1>1. AskedBy(c) = {}
  BY DEF AskedBy
<1>2. rx[c] \in Seq(Piece) /\ got[c] \in Seq(Piece)
  BY DEF Inv, TypeOK
<1>3. \A k \in 1 .. Len(rx[c]) : FALSE
  BY <1>1 DEF Inv, RouteInv, RxInv
<1>4. \A k \in 1 .. Len(got[c]) : FALSE
  BY <1>1 DEF Inv, RouteInv, GotInv
<1>5. rx[c] = <<>> /\ got[c] = <<>>
  BY <1>2, <1>3, <1>4
<1>6. \A k \in 1 .. Len(tx[c]) : ~InTx(c, k)
  BY <1>1 DEF Inv, RouteInv, TxInv, InTx
<1>7. \A k \in 1 .. Len(jobs) : ~InJobs(c, k)
  BY <1>1 DEF Inv, RouteInv, JobsInv, InJobs
<1>8. \A t \in Thread : ~Serves(t, c)
  BY <1>1 DEF Inv, RouteInv, WorkInv, Serves
<1> QED BY <1>5, <1>6, <1>7, <1>8

(* There is one file a client with one request can get. *)
LEMMA OnlyAsked ==
  ASSUME TypeOK, NEW c \in Client, Single(c), NEW f \in AskedBy(c)
  PROVE  f = asked[c][1]
<1>1. asked[c] \in Seq(File) /\ Len(asked[c]) \in Nat
  BY DEF TypeOK
<1>2. PICK k \in 1 .. Len(asked[c]) : f = asked[c][k]
  BY DEF AskedBy
<1>3. k = 1
  BY <1>1 DEF Single
<1> QED BY <1>2, <1>3

(* Requests are never taken back; the first is Get's. *)
LEMMA AskedGrows ==
  ASSUME Inv, [Next]_vars, NEW c \in Client, Single(c)'
  PROVE  Single(c) /\ (asked'[c] = asked[c] \/ asked[c] = <<>>)
<1>1. asked \in [Client -> Seq(File)] /\ Len(asked[c]) \in Nat
  BY DEF Inv, TypeOK
<1>2. CASE \E b \in Client, f \in File : Get(b, f)
  <2>1. PICK b \in Client, f \in File : Get(b, f)
    BY <1>2
  <2>2. CASE b = c
    <3>1. /\ Append(asked[c], f) \in Seq(File)
          /\ Len(Append(asked[c], f)) = Len(asked[c]) + 1
      BY <1>1, AppendFacts
    <3>2. asked'[c] = Append(asked[c], f)
      BY <1>1, <2>1, <2>2 DEF Get
    <3>3. Len(asked[c]) = 0
      BY <1>1, <3>1, <3>2 DEF Single
    <3>4. asked[c] = <<>>
      BY <1>1, <3>3
    <3> QED BY <3>3, <3>4 DEF Single
  <2>3. CASE b # c
    BY <1>1, <2>1, <2>3 DEF Get, Single
  <2> QED BY <2>2, <2>3
<1>3. CASE ~\E b \in Client, f \in File : Get(b, f)
  <2>1. asked' = asked
    <3>1. CASE ClientStep
      BY <1>3, <3>1 DEF ClientStep, Register, ClientReads, OpenToRead, ReadPiece, EndOfStream,
                        Leave, WrongRequest, SendCommand
    <3>2. CASE MainStep
      BY <3>2 DEF MainStep, Select, ServerCmd, ClientRequest, ReinitSelect, clientVars
    <3>3. ASSUME NEW t \in Thread, ThreadStep(t) PROVE asked' = asked
      BY <3>3, ThreadAlone
    <3>4. CASE UNCHANGED vars
      BY <3>4 DEF vars, clientVars
    <3> QED BY <3>1, <3>2, <3>3, <3>4 DEF Next
  <2> QED BY <2>1 DEF Single
<1> QED BY <1>2, <1>3

(* Once the server has ended it stays so, and noise is not forgotten. *)
LEMMA EndsForGood ==
  ASSUME TypeOK, [Next]_vars
  PROVE  (Running' => Running) /\ (noise' = 0 => noise = 0)
<1> USE DEF Running
<1>0. noise \in Nat
  BY DEF TypeOK
<1>1. CASE ClientStep
  <2>1. mpc' = mpc /\ (noise' = noise \/ noise' = noise + 1)
    BY <1>1 DEF ClientStep, Register, ClientReads, OpenToRead, ReadPiece, EndOfStream,
                Leave, WrongRequest, SendCommand, Get, mainVars
  <2> QED BY <1>0, <2>1
<1>2. CASE MainStep
  BY <1>2 DEF MainStep, Select, ServerCmd, ClientRequest, ReinitSelect, clientVars
<1>3. ASSUME NEW t \in Thread, ThreadStep(t)
      PROVE  (Running' => Running) /\ noise' = noise
  BY <1>3 DEF ThreadStep, TakeJob, OpenFiles, WritePiece, BrokenPipe, CloseFiles, mainVars, clientVars, Go
<1>4. CASE UNCHANGED vars
  BY <1>4 DEF vars, mainVars, clientVars
<1> QED BY <1>1, <1>2, <1>3, <1>4 DEF Next

---------------------------------------------------------------------------
(* Where the requests of c are does not change, but for a thread that ends.   *)
LEMMA PlaceFrame ==
  ASSUME NEW c \in Client, PlaceOf(c), tx'[c] = tx[c], jobs' = jobs,
         \A t \in Thread : (Serves(t, c)' => Serves(t, c)) /\ (tpc'[t] = "open" => tpc[t] = "open")
  PROVE  PlaceOf(c)' /\ (Waiting(c)' => Waiting(c))
<1>1. /\ \A k : InTx(c, k)' <=> InTx(c, k)
      /\ \A k : InJobs(c, k)' <=> InJobs(c, k)
  BY DEF InTx, InJobs
<1>2. PlaceOf(c)'
  BY <1>1 DEF PlaceOf
<1>3. Waiting(c)' => Waiting(c)
  BY <1>1 DEF Waiting
<1> QED BY <1>2, <1>3

LEMMA PlaceAsk ==
  ASSUME Inv, PlaceInv, NEW b \in Client, WrongRequest(b) \/ \E f \in File : Get(b, f),
         NEW c \in Client, Single(c)', Single(c)
  PROVE  PlaceOf(c)' /\ (Waiting(c)' => Waiting(c) \/ asked[c] = <<>>)
<1>0. TypeOK /\ PlaceOf(c)
  BY DEF Inv, PlaceInv
<1>1. PICK f \in File \cup {"noise"} :
        /\ tx' = [tx EXCEPT ![b] = Append(@, f)]
        /\ f # "noise" => asked' = [asked EXCEPT ![b] = Append(@, f)]
        /\ jobs' = jobs /\ tpc' = tpc /\ job' = job
  BY DEF WrongRequest, Get, threadVars
<1>2. \A t \in Thread : (Serves(t, c)' <=> Serves(t, c)) /\ (tpc'[t] = "open" <=> tpc[t] = "open")
  BY <1>1 DEF Serves
<1>3. CASE b # c
  <2>1. tx'[c] = tx[c]
    BY <1>0, <1>1, <1>3 DEF TypeOK
  <2> QED BY <1>0, <1>1, <1>2, <2>1, PlaceFrame
<1>4. CASE b = c
  <2>1. /\ tx'[c] = Append(tx[c], f)
        /\ Len(Append(tx[c], f)) = Len(tx[c]) + 1 /\ Len(tx[c]) \in Nat
        /\ \A k \in 1 .. Len(tx[c]) : Append(tx[c], f)[k] = tx[c][k]
        /\ Append(tx[c], f)[Len(tx[c]) + 1] = f
    <3>1. tx[c] \in Seq(File \cup {"noise"}) /\ tx'[c] = Append(tx[c], f)
      BY <1>0, <1>1, <1>4 DEF TypeOK
    <3> QED BY <3>1, AppendFacts
  <2>2. \A k \in 1 .. Len(tx'[c]) : InTx(c, k)' =>
          \/ k \in 1 .. Len(tx[c]) /\ InTx(c, k)
          \/ k = Len(tx[c]) + 1 /\ f # "noise"
    BY <2>1 DEF InTx
  <2>3. \A k : InJobs(c, k)' <=> InJobs(c, k)
    BY <1>1 DEF InJobs
  <2>4. CASE f = "noise"
    <3>1. \A k \in 1 .. Len(tx'[c]) : InTx(c, k)' => k \in 1 .. Len(tx[c]) /\ InTx(c, k)
      BY <2>2, <2>4
    <3>2. PlaceOf(c)'
      BY <1>0, <1>1, <1>2, <2>3, <3>1 DEF PlaceOf
    <3>3. Waiting(c)' => Waiting(c)
      BY <1>1, <1>2, <2>3, <3>1 DEF Waiting
    <3> QED BY <3>2, <3>3
  <2>5. CASE f # "noise"
    <3>1. asked'[c] = Append(asked[c], f)
      BY <1>0, <1>1, <1>4, <2>5 DEF TypeOK
    <3>2. asked[c] = <<>>
      <4>1. asked[c] \in Seq(File) /\ f \in File
        BY <1>0, <2>5 DEF TypeOK
      <4>2. Len(Append(asked[c], f)) = Len(asked[c]) + 1 /\ Len(asked[c]) \in Nat
        BY <4>1, AppendFacts
      <4>3. Len(asked[c]) = 0
        BY <3>1, <4>2 DEF Single
      <4> QED BY <4>1, <4>3
    <3>3. /\ \A k \in 1 .. Len(tx[c]) : ~InTx(c, k)
          /\ \A k \in 1 .. Len(jobs) : ~InJobs(c, k)
          /\ \A t \in Thread : ~Serves(t, c)
      BY <3>2, NothingYet
    <3>4. \A k \in 1 .. Len(tx'[c]) : InTx(c, k)' => k = Len(tx[c]) + 1
      BY <2>2, <3>3
    <3>5. \A k \in 1 .. Len(jobs') : ~InJobs(c, k)'
      BY <1>1, <2>3, <3>3
    <3>6. \A t \in Thread : ~Serves(t, c)'
      BY <1>2, <3>3
    <3>7. PlaceOf(c)'
      BY <3>4, <3>5, <3>6 DEF PlaceOf
    <3> QED BY <3>2, <3>7
  <2> QED BY <2>4, <2>5
<1> QED BY <1>3, <1>4

LEMMA PlaceRequest ==
  ASSUME Inv, PlaceInv, ClientRequest, NEW c \in Client, Single(c)
  PROVE  PlaceOf(c)' /\ (Waiting(c)' => Waiting(c))
<1>0. TypeOK /\ PlaceOf(c)
  BY DEF Inv, PlaceInv
<1>1. PICK j \in ready :
        /\ jobs' = IF Head(tx[clients[j]]) = "noise" THEN jobs ELSE Append(jobs, Order(clients[j]))
        /\ tx' = [tx EXCEPT ![clients[j]] = <<>>]
  BY DEF ClientRequest, Emptied
<1> DEFINE b == clients[j]
<1>2. tpc' = tpc /\ job' = job /\ mpc = "clients"
  BY DEF ClientRequest, threadVars
<1>3. j \in 1 .. Len(clients) /\ b \in Client /\ tx[b] # <<>>
  <2>1. clients \in Seq(Client) /\ Len(clients) \in Nat /\ j \in 0 .. Len(clients)
    BY <1>0 DEF TypeOK
  <2>2. j # 0
    BY <1>2 DEF Inv, ReadyInv
  <2>3. j \in 1 .. Len(clients) /\ b \in Client
    BY <2>1, <2>2
  <2>4. tx[b] # <<>>
    BY <1>2, <2>2 DEF Inv, ReadsDontBlock
  <2> QED BY <2>3, <2>4
<1>4. tx[b] \in Seq(File \cup {"noise"}) /\ jobs \in Seq(Job)
  BY <1>0, <1>3 DEF TypeOK
<1>5. Head(tx[b]) \in File \cup {"noise"} /\ Head(tx[b]) = tx[b][1] /\ 1 \in 1 .. Len(tx[b])
  BY <1>3, <1>4, HeadTailFacts
<1>6. \A t \in Thread : (Serves(t, c)' <=> Serves(t, c)) /\ (tpc'[t] = "open" <=> tpc[t] = "open")
  BY <1>2 DEF Serves
<1>7. tx'[b] = <<>> /\ (b # c => tx'[c] = tx[c])
  BY <1>0, <1>1, <1>3 DEF TypeOK
<1>8. CASE Head(tx[b]) = "noise"
  <2>1. jobs' = jobs
    BY <1>1, <1>8
  <2>2. \A k \in 1 .. Len(tx'[c]) : InTx(c, k)' => k \in 1 .. Len(tx[c]) /\ InTx(c, k)
    BY <1>7 DEF InTx
  <2>3. \A k : InJobs(c, k)' <=> InJobs(c, k)
    BY <2>1 DEF InJobs
  <2>4. PlaceOf(c)'
    BY <1>0, <1>6, <2>1, <2>2, <2>3 DEF PlaceOf
  <2>5. Waiting(c)' => Waiting(c)
    BY <1>6, <2>1, <2>2, <2>3 DEF Waiting
  <2> QED BY <2>4, <2>5
<1>9. CASE Head(tx[b]) # "noise"
  <2>1. Order(b) \in Job /\ Order(b).dest = b
    BY <1>3, <1>5, <1>9 DEF Order, Job
  <2>2. /\ jobs' = Append(jobs, Order(b))
        /\ Len(jobs') = Len(jobs) + 1 /\ Len(jobs) \in Nat
        /\ \A k \in 1 .. Len(jobs) : jobs'[k] = jobs[k]
        /\ jobs'[Len(jobs) + 1] = Order(b)
    <3>1. jobs' = Append(jobs, Order(b))
      BY <1>1, <1>9
    <3> QED BY <1>4, <2>1, <3>1, AppendFacts
  <2>3. \A k \in 1 .. Len(jobs') : InJobs(c, k)' =>
          \/ k \in 1 .. Len(jobs) /\ InJobs(c, k)
          \/ k = Len(jobs) + 1 /\ b = c
    BY <2>1, <2>2 DEF InJobs
  <2>4. CASE b # c
    <3>1. \A k \in 1 .. Len(jobs') : InJobs(c, k)' => k \in 1 .. Len(jobs) /\ InJobs(c, k)
      BY <2>3, <2>4
    <3>2. \A k : InTx(c, k)' <=> InTx(c, k)
      BY <1>7, <2>4 DEF InTx
    <3>3. tx'[c] = tx[c]
      BY <1>7, <2>4
    <3>4. PlaceOf(c)'
      BY <1>0, <1>6, <3>1, <3>2, <3>3 DEF PlaceOf
    <3>5. Waiting(c)' => Waiting(c)
      BY <1>6, <3>1, <3>2, <3>3 DEF Waiting
    <3> QED BY <3>4, <3>5
  <2>5. CASE b = c
    <3>1. InTx(c, 1) /\ 1 \in 1 .. Len(tx[c])
      BY <1>5, <1>9, <2>5 DEF InTx
    <3>2. /\ \A k \in 1 .. Len(jobs) : ~InJobs(c, k)
          /\ \A t \in Thread : ~Serves(t, c)
      BY <1>0, <3>1 DEF PlaceOf
    <3>3. \A k \in 1 .. Len(tx'[c]) : FALSE
      BY <1>7, <2>5
    <3>4. \A k \in 1 .. Len(jobs') : InJobs(c, k)' => k = Len(jobs) + 1
      BY <2>3, <3>2
    <3>5. \A t \in Thread : ~Serves(t, c)'
      BY <1>6, <3>2
    <3>6. PlaceOf(c)'
      BY <3>3, <3>4, <3>5 DEF PlaceOf
    <3>7. Waiting(c)
      BY <3>1 DEF Waiting
    <3> QED BY <3>6, <3>7
  <2> QED BY <2>4, <2>5
<1> QED BY <1>8, <1>9

LEMMA PlaceTake ==
  ASSUME Inv, PlaceInv, NEW t \in Thread, TakeJob(t), NEW c \in Client, Single(c)
  PROVE  PlaceOf(c)' /\ (Waiting(c)' => Waiting(c))
<1>0. TypeOK /\ PlaceOf(c)
  BY DEF Inv, PlaceInv
<1>1. /\ tpc[t] = "idle" /\ tpc' = [tpc EXCEPT ![t] = "open"]
      /\ jobs # <<>> /\ jobs' = Tail(jobs) /\ job' = [job EXCEPT ![t] = Head(jobs)]
      /\ tx' = tx
  BY DEF TakeJob, Go
<1>2. /\ Head(jobs) = jobs[1] /\ 1 \in 1 .. Len(jobs) /\ Len(jobs) \in Nat
      /\ \A k \in 1 .. Len(jobs') : k + 1 \in 1 .. Len(jobs) /\ jobs'[k] = jobs[k + 1]
  <2>1. jobs \in Seq(Job)
    BY <1>0 DEF TypeOK
  <2> QED BY <1>1, <2>1, HeadTailFacts
<1>3. /\ tpc'[t] = "open" /\ job'[t] = jobs[1]
      /\ \A u \in Thread : u # t => tpc'[u] = tpc[u] /\ job'[u] = job[u]
  BY <1>0, <1>1, <1>2 DEF TypeOK
<1>4. \A k \in 1 .. Len(jobs') : InJobs(c, k)' => k + 1 \in 1 .. Len(jobs) /\ k + 1 # 1 /\ InJobs(c, k + 1)
  BY <1>2 DEF InJobs
<1>5. /\ Serves(t, c)' => InJobs(c, 1)
      /\ \A u \in Thread : u # t => (Serves(u, c)' <=> Serves(u, c))
  BY <1>3 DEF Serves, InJobs
<1>6. tx'[c] = tx[c] /\ \A k : InTx(c, k)' <=> InTx(c, k)
  BY <1>1 DEF InTx
<1>7. PlaceOf(c)'
  <2>1. \A k, l \in 1 .. Len(tx[c]) : InTx(c, k) /\ InTx(c, l) => k = l
    BY <1>0 DEF PlaceOf
  <2>2. \A k, l \in 1 .. Len(jobs) : InJobs(c, k) /\ InJobs(c, l) => k = l
    BY <1>0 DEF PlaceOf
  <2>3. \A u, v \in Thread : Serves(u, c) /\ Serves(v, c) => u = v
    BY <1>0 DEF PlaceOf
  <2>4. \A k \in 1 .. Len(tx[c]), l \in 1 .. Len(jobs) : ~(InTx(c, k) /\ InJobs(c, l))
    BY <1>0 DEF PlaceOf
  <2>5. \A k \in 1 .. Len(tx[c]), u \in Thread : ~(InTx(c, k) /\ Serves(u, c))
    BY <1>0 DEF PlaceOf
  <2>6. \A k \in 1 .. Len(jobs), u \in Thread : ~(InJobs(c, k) /\ Serves(u, c))
    BY <1>0 DEF PlaceOf
  <2>7. ASSUME NEW k \in 1 .. Len(jobs'), NEW l \in 1 .. Len(jobs'), InJobs(c, k)', InJobs(c, l)'
        PROVE  k = l
    BY <1>4, <2>2, <2>7
  <2>8. ASSUME NEW u \in Thread, NEW v \in Thread, Serves(u, c)', Serves(v, c)'
        PROVE  u = v
    BY <1>2, <1>5, <2>3, <2>6, <2>8
  <2>9. ASSUME NEW k \in 1 .. Len(tx'[c]), NEW l \in 1 .. Len(jobs')
        PROVE  ~(InTx(c, k)' /\ InJobs(c, l)')
    BY <1>4, <1>6, <2>4
  <2>10. ASSUME NEW k \in 1 .. Len(tx'[c]), NEW u \in Thread
         PROVE  ~(InTx(c, k)' /\ Serves(u, c)')
    BY <1>2, <1>5, <1>6, <2>4, <2>5
  <2>11. ASSUME NEW k \in 1 .. Len(jobs'), NEW u \in Thread
         PROVE  ~(InJobs(c, k)' /\ Serves(u, c)')
    BY <1>2, <1>4, <1>5, <2>2, <2>6
  <2>12. \A k, l \in 1 .. Len(tx'[c]) : InTx(c, k)' /\ InTx(c, l)' => k = l
    BY <1>6, <2>1
  <2> QED BY <2>7, <2>8, <2>9, <2>10, <2>11, <2>12 DEF PlaceOf
<1>8. Waiting(c)' => Waiting(c)
  <2>1. ASSUME NEW u \in Thread, Serves(u, c)', tpc'[u] = "open"
        PROVE  Waiting(c)
    BY <1>2, <1>3, <1>5, <2>1 DEF Waiting
  <2>2. ASSUME NEW k \in 1 .. Len(jobs'), InJobs(c, k)'
        PROVE  Waiting(c)
    BY <1>4, <2>2 DEF Waiting
  <2>3. ASSUME NEW k \in 1 .. Len(tx'[c]), InTx(c, k)'
        PROVE  Waiting(c)
    BY <1>6, <2>3 DEF Waiting
  <2> QED BY <2>1, <2>2, <2>3 DEF Waiting
<1> QED BY <1>7, <1>8

(* A request stays in one place, and a client is not waiting that was not.    *)
LEMMA PlaceStep ==
  ASSUME Inv, PlaceInv, [Next]_vars, NEW c \in Client, Single(c)'
  PROVE  PlaceOf(c)' /\ (Waiting(c)' => Waiting(c) \/ asked[c] = <<>>)
<1>0. TypeOK /\ Single(c) /\ PlaceOf(c)
  BY AskedGrows DEF Inv, PlaceInv
<1>1. CASE \E b \in Client : WrongRequest(b) \/ \E f \in File : Get(b, f)
  BY <1>0, <1>1, PlaceAsk
<1>2. CASE ClientRequest
  BY <1>0, <1>2, PlaceRequest
<1>3. CASE \E t \in Thread : TakeJob(t)
  BY <1>0, <1>3, PlaceTake
<1>4. CASE \E t \in Thread : ThreadStep(t) /\ ~TakeJob(t)
  <2>1. PICK t \in Thread : ThreadStep(t) /\ ~TakeJob(t)
    BY <1>4
  <2>2. /\ tx' = tx /\ jobs' = jobs
        /\ \/ tpc' = tpc /\ job' = job
           \/ tpc[t] = "open" /\ tpc' = [tpc EXCEPT ![t] = "write"] /\ job' = job
           \/ tpc' = [tpc EXCEPT ![t] = "idle"] /\ job' = [job EXCEPT ![t] = Idle]
    BY <2>1 DEF ThreadStep, OpenFiles, WritePiece, BrokenPipe, CloseFiles, Go, threadVars
  <2>3. \A u \in Thread : (Serves(u, c)' => Serves(u, c)) /\ (tpc'[u] = "open" => tpc[u] = "open")
    <3>1. tpc \in [Thread -> {"idle", "open", "write"}] /\ job \in [Thread -> Job \cup {Idle}]
      BY <1>0 DEF TypeOK
    <3> QED BY <2>2, <3>1 DEF Serves
  <2> QED BY <1>0, <2>2, <2>3, PlaceFrame
<1>5. CASE UNCHANGED <<tx, jobs, tpc, job>>
  <2>1. \A t \in Thread : (Serves(t, c)' => Serves(t, c)) /\ (tpc'[t] = "open" => tpc[t] = "open")
    BY <1>5 DEF Serves
  <2> QED BY <1>0, <1>5, <2>1, PlaceFrame
<1>6. ASSUME ~\E b \in Client : WrongRequest(b) \/ \E f \in File : Get(b, f), ClientStep
      PROVE  UNCHANGED <<tx, jobs, tpc, job>>
  BY <1>6 DEF ClientStep, Register, ClientReads, OpenToRead, ReadPiece, EndOfStream, Leave,
              SendCommand, threadVars
<1>7. ASSUME MainStep, ~ClientRequest
      PROVE  UNCHANGED <<tx, jobs, tpc, job>>
  BY <1>7 DEF MainStep, Select, ServerCmd, ReinitSelect, threadVars
<1>8. ASSUME UNCHANGED vars
      PROVE  UNCHANGED <<tx, jobs, tpc, job>>
  BY <1>8 DEF vars, threadVars
<1> QED BY <1>1, <1>2, <1>3, <1>4, <1>5, <1>6, <1>7, <1>8 DEF Next

---------------------------------------------------------------------------
(* A thread that does not write has written nothing of its file yet. *)
LEMMA SentStep ==
  ASSUME Inv, SentInv, [Next]_vars
  PROVE  SentInv'
<1>0. /\ tpc \in [Thread -> {"idle", "open", "write"}] /\ sent \in [Thread -> Nat]
  BY DEF Inv, TypeOK
<1>1. ASSUME NEW t \in Thread, ThreadStep(t)
      PROVE  SentInv'
  <2>1. CASE TakeJob(t)
    BY <1>0, <2>1 DEF TakeJob, Go, SentInv
  <2>2. CASE OpenFiles(t)
    BY <1>0, <2>2 DEF OpenFiles, SentInv
  <2>3. CASE WritePiece(t)
    <3>1. tpc[t] = "write" /\ tpc' = tpc /\ sent' = [sent EXCEPT ![t] = @ + 1]
      BY <2>3 DEF WritePiece
    <3>2. \A u \in Thread : u # t => sent'[u] = sent[u]
      BY <1>0, <3>1
    <3> QED BY <3>1, <3>2 DEF SentInv
  <2>4. CASE BrokenPipe(t)
    BY <2>4 DEF BrokenPipe, threadVars, SentInv
  <2>5. CASE CloseFiles(t)
    BY <1>0, <2>5 DEF CloseFiles, Go, SentInv
  <2> QED BY <1>1, <2>1, <2>2, <2>3, <2>4, <2>5 DEF ThreadStep
<1>2. CASE tpc' = tpc /\ sent' = sent
  BY <1>2 DEF SentInv
<1>3. ASSUME ClientStep \/ MainStep \/ UNCHANGED vars
      PROVE  tpc' = tpc /\ sent' = sent
  BY <1>3 DEF ClientStep, Register, ClientReads, OpenToRead, ReadPiece, EndOfStream,
              Leave, WrongRequest, SendCommand, Get, threadVars,
              MainStep, Select, ServerCmd, ClientRequest, ReinitSelect, vars
<1> QED BY <1>1, <1>2, <1>3 DEF Next

(* What a step can do to the stream of client c and to those who write it.   *)
Alone(c) ==
  /\ rx'[c] = rx[c] /\ got'[c] = got[c] /\ reading'[c] = reading[c] /\ ended'[c] = ended[c]
  /\ \A t \in Thread : /\ Writes(t, c)' <=> Writes(t, c)
                       /\ Writes(t, c) => sent'[t] = sent[t]

LEMMA WhoMoves ==
  ASSUME Inv, [Next]_vars, NEW c \in Client
  PROVE  \/ Alone(c)
         \/ OpenToRead(c) \/ ReadPiece(c) \/ EndOfStream(c) \/ Leave(c)
         \/ \E t \in Thread : /\ tpc[t] # "idle" /\ job[t].dest = c
                              /\ OpenFiles(t) \/ WritePiece(t) \/ CloseFiles(t)
<1>0. /\ rx \in [Client -> Seq(Piece)] /\ got \in [Client -> Seq(Piece)]
      /\ reading \in [Client -> {"no", "opening", "open"}] /\ ended \in [Client -> Nat]
      /\ tpc \in [Thread -> {"idle", "open", "write"}] /\ sent \in [Thread -> Nat]
      /\ job \in [Thread -> Job \cup {Idle}]
  BY DEF Inv, TypeOK
<1>1. ASSUME UNCHANGED <<rx, got, reading, ended, tpc, job, sent>>
      PROVE  Alone(c)
  BY <1>1 DEF Alone, Writes
<1>2. ASSUME NEW b \in Client, ClientReads(b) \/ Leave(b), b # c
      PROVE  Alone(c)
  <2>1. UNCHANGED <<tpc, job, sent>>
    BY <1>2 DEF ClientReads, OpenToRead, ReadPiece, EndOfStream, Leave, threadVars
  <2>2. rx'[c] = rx[c]
    BY <1>0, <1>2 DEF ClientReads, OpenToRead, ReadPiece, EndOfStream, Leave
  <2>3. got'[c] = got[c]
    BY <1>0, <1>2 DEF ClientReads, OpenToRead, ReadPiece, EndOfStream, Leave
  <2>4. reading'[c] = reading[c] /\ ended'[c] = ended[c]
    BY <1>0, <1>2 DEF ClientReads, OpenToRead, ReadPiece, EndOfStream, Leave
  <2> QED BY <2>1, <2>2, <2>3, <2>4 DEF Alone, Writes
<1>3. ASSUME NEW t \in Thread, ThreadStep(t), ~(tpc[t] # "idle" /\ job[t].dest = c)
      PROVE  Alone(c)
  <2>1. got' = got /\ ended' = ended
    BY <1>3, ThreadAlone
  <2>2. CASE TakeJob(t)
    <3>1. /\ tpc[t] = "idle" /\ tpc' = [tpc EXCEPT ![t] = "open"]
          /\ job' = [job EXCEPT ![t] = Head(jobs)]
          /\ UNCHANGED <<sent, rx, reading>>
      BY <2>2 DEF TakeJob, Go, clientVars
    <3>2. \A u \in Thread : Writes(u, c)' <=> Writes(u, c)
      BY <1>0, <3>1 DEF Writes
    <3> QED BY <2>1, <3>1, <3>2 DEF Alone
  <2>3. CASE OpenFiles(t)
    <3>1. /\ tpc[t] = "open" /\ (tpc' = tpc \/ tpc' = [tpc EXCEPT ![t] = "write"])
          /\ reading' = [reading EXCEPT ![job[t].dest] = "open"]
          /\ UNCHANGED <<job, sent, rx>>
      BY <2>3 DEF OpenFiles
    <3>2. job[t].dest # c
      BY <1>3, <3>1
    <3>3. \A u \in Thread : Writes(u, c)' <=> Writes(u, c)
      BY <1>0, <3>1, <3>2 DEF Writes
    <3>4. reading'[c] = reading[c]
      BY <1>0, <3>1, <3>2
    <3> QED BY <2>1, <3>1, <3>3, <3>4 DEF Alone
  <2>4. CASE WritePiece(t)
    <3>1. /\ tpc[t] = "write" /\ sent' = [sent EXCEPT ![t] = @ + 1]
          /\ rx' = [rx EXCEPT ![job[t].dest] = Append(@, [file |-> job[t].file, n |-> sent[t] + 1])]
          /\ UNCHANGED <<tpc, job, reading>>
      BY <2>4 DEF WritePiece, clientVars
    <3>2. job[t].dest # c
      BY <1>3, <3>1
    <3>3. \A u \in Thread : /\ Writes(u, c)' <=> Writes(u, c)
                            /\ Writes(u, c) => sent'[u] = sent[u]
      BY <1>0, <3>1, <3>2 DEF Writes
    <3>4. rx'[c] = rx[c]
      BY <1>0, <3>1, <3>2
    <3> QED BY <2>1, <3>1, <3>3, <3>4 DEF Alone
  <2>5. CASE BrokenPipe(t)
    BY <1>1, <2>5 DEF BrokenPipe, threadVars, clientVars
  <2>6. CASE CloseFiles(t)
    <3>1. /\ tpc[t] = "write" /\ tpc' = [tpc EXCEPT ![t] = "idle"]
          /\ job' = [job EXCEPT ![t] = Idle] /\ sent' = [sent EXCEPT ![t] = 0]
          /\ rx' = rx \/ rx' = [rx EXCEPT ![job[t].dest] = <<>>]
          /\ reading' = reading
      BY <2>6 DEF CloseFiles, Go, clientVars
    <3>2. job[t].dest # c
      BY <1>3, <3>1
    <3>3. \A u \in Thread : /\ Writes(u, c)' <=> Writes(u, c)
                            /\ Writes(u, c) => sent'[u] = sent[u]
      BY <1>0, <3>1, <3>2 DEF Writes
    <3>4. rx'[c] = rx[c]
      BY <1>0, <3>1, <3>2
    <3> QED BY <2>1, <3>1, <3>3, <3>4 DEF Alone
  <2> QED BY <1>3, <2>2, <2>3, <2>4, <2>5, <2>6 DEF ThreadStep
<1>4. ASSUME NEW t \in Thread, ThreadStep(t), tpc[t] # "idle", job[t].dest = c
      PROVE  Alone(c) \/ OpenFiles(t) \/ WritePiece(t) \/ CloseFiles(t)
  <2>1. CASE BrokenPipe(t)
    BY <1>1, <2>1 DEF BrokenPipe, threadVars, clientVars
  <2>2. ~TakeJob(t)
    BY <1>4 DEF TakeJob, Go
  <2> QED BY <1>4, <2>1, <2>2 DEF ThreadStep
<1>5. ASSUME \/ \E b \in Client : Register(b) \/ WrongRequest(b)
             \/ \E b \in Client, f \in File : Get(b, f)
             \/ \E m \in {"off", "noise"} : SendCommand(m)
             \/ MainStep \/ UNCHANGED vars
      PROVE  UNCHANGED <<rx, got, reading, ended, tpc, job, sent>>
  BY <1>5 DEF Register, WrongRequest, SendCommand, Get, threadVars, clientVars,
              MainStep, Select, ServerCmd, ClientRequest, ReinitSelect, vars
<1>6. ASSUME NEW b \in Client, ClientReads(b) \/ Leave(b)
      PROVE  Alone(c) \/ OpenToRead(c) \/ ReadPiece(c) \/ EndOfStream(c) \/ Leave(c)
  BY <1>2, <1>6 DEF ClientReads
<1>7. ASSUME ClientStep
      PROVE  Alone(c) \/ OpenToRead(c) \/ ReadPiece(c) \/ EndOfStream(c) \/ Leave(c)
  BY <1>1, <1>5, <1>6, <1>7 DEF ClientStep
<1> QED BY <1>1, <1>3, <1>4, <1>5, <1>7 DEF Next

(* What the steps that are not Alone do to the stream. *)
LEMMA StreamAlone ==
  ASSUME NEW c \in Client, Alone(c)
  PROVE  Stream(c)' = Stream(c) /\ (NoWriter(c)' <=> NoWriter(c))
BY DEF Alone, Stream, NoWriter

LEMMA StreamType ==
  ASSUME TypeOK, NEW c \in Client
  PROVE  /\ rx[c] \in Seq(Piece) /\ got[c] \in Seq(Piece)
         /\ Stream(c) = got[c] \o rx[c] /\ Stream(c) \in Seq(Piece) /\ Len(Stream(c)) \in Nat
         /\ Stream(c) = <<>> <=> got[c] = <<>> /\ rx[c] = <<>>
<1>1. rx[c] \in Seq(Piece) /\ got[c] \in Seq(Piece)
  BY DEF TypeOK
<1>2. Stream(c) = got[c] \o rx[c]
  BY DEF Stream
<1>3. got[c] \o rx[c] \in Seq(Piece) /\ (got[c] \o rx[c] = <<>> <=> got[c] = <<>> /\ rx[c] = <<>>)
  BY <1>1, ConcatFacts
<1>4. Len(got[c] \o rx[c]) \in Nat
  BY <1>1, ConcatFacts
<1> QED BY <1>1, <1>2, <1>3, <1>4

LEMMA WhenOpening ==
  ASSUME TypeOK, NEW c \in Client, OpenToRead(c)
  PROVE  /\ reading[c] = "no" /\ reading'[c] # "no" /\ ended[c] < Len(asked[c])
         /\ rx' = rx /\ got'[c] = <<>> /\ Stream(c)' = rx[c]
         /\ \A t : (Writes(t, c)' <=> Writes(t, c)) /\ sent'[t] = sent[t]
<1>1. /\ reading[c] = "no" /\ ended[c] < Len(asked[c])
      /\ got' = [got EXCEPT ![c] = <<>>] /\ UNCHANGED <<tpc, job, sent, rx>>
  BY DEF OpenToRead, threadVars
<1>2. reading'[c] # "no"
  BY DEF OpenToRead, TypeOK
<1>3. got'[c] = <<>>
  BY <1>1 DEF TypeOK
<1>4. <<>> \o rx[c] = rx[c]
  <2>1. rx[c] \in Seq(Piece) /\ <<>> \in Seq(Piece)
    BY DEF TypeOK
  <2> QED BY <2>1, ConcatFacts
<1>5. Stream(c)' = rx[c]
  BY <1>1, <1>3, <1>4 DEF Stream
<1> QED BY <1>1, <1>2, <1>3, <1>5 DEF Writes

LEMMA WhenReading ==
  ASSUME TypeOK, NEW c \in Client, ReadPiece(c)
  PROVE  /\ reading[c] = "open" /\ reading' = reading /\ Stream(c)' = Stream(c)
         /\ \A t : (Writes(t, c)' <=> Writes(t, c)) /\ sent'[t] = sent[t]
<1>1. /\ reading[c] = "open" /\ rx[c] # <<>> /\ UNCHANGED <<reading, tpc, job, sent>>
      /\ got' = [got EXCEPT ![c] = Append(@, Head(rx[c]))] /\ rx' = [rx EXCEPT ![c] = Tail(@)]
  BY DEF ReadPiece, threadVars
<1>2. got'[c] = Append(got[c], Head(rx[c])) /\ rx'[c] = Tail(rx[c])
  BY <1>1 DEF TypeOK
<1>3. got[c] \in Seq(Piece) /\ rx[c] \in Seq(Piece)
  BY DEF TypeOK
<1>4. Append(got[c], Head(rx[c])) \o Tail(rx[c]) = got[c] \o rx[c]
  BY <1>1, <1>3, MoveOne
<1>5. Stream(c)' = Stream(c)
  BY <1>2, <1>4 DEF Stream
<1> QED BY <1>1, <1>5 DEF Writes

LEMMA WhenEnding ==
  ASSUME TypeOK, NEW c \in Client, EndOfStream(c)
  PROVE  /\ rx[c] = <<>> /\ (Running => NoWriter(c)) /\ ended'[c] # 0
         /\ rx' = rx /\ got' = got /\ Stream(c)' = Stream(c)
         /\ \A t : (Writes(t, c)' <=> Writes(t, c)) /\ sent'[t] = sent[t]
<1>1. /\ rx[c] = <<>> /\ (~Running \/ NoWriter(c)) /\ ended' = [ended EXCEPT ![c] = @ + 1]
      /\ UNCHANGED <<rx, got, tpc, job, sent>>
  BY DEF EndOfStream, threadVars
<1>2. ended'[c] # 0
  BY <1>1 DEF TypeOK
<1> QED BY <1>1, <1>2 DEF Stream, Writes

LEMMA WhenLeaving ==
  ASSUME TypeOK, NEW c \in Client, Leave(c)
  PROVE  /\ noise' # 0
         /\ Stream(c)' = Stream(c) \/ (NoWriter(c) /\ Stream(c)' = got[c])
         /\ \A t : (Writes(t, c)' <=> Writes(t, c)) /\ sent'[t] = sent[t]
<1>1. /\ noise' = noise + 1 /\ UNCHANGED <<got, tpc, job, sent>>
      /\ rx' = IF NoWriter(c) THEN [rx EXCEPT ![c] = <<>>] ELSE rx
  BY DEF Leave, threadVars
<1>2. noise' # 0
  BY <1>1 DEF TypeOK
<1>3. CASE NoWriter(c)
  <2>1. rx'[c] = <<>>
    BY <1>1, <1>3 DEF TypeOK
  <2>2. got[c] \o <<>> = got[c]
    <3>1. got[c] \in Seq(Piece) /\ <<>> \in Seq(Piece)
      BY DEF TypeOK
    <3> QED BY <3>1, ConcatFacts
  <2>3. Stream(c)' = got[c]
    BY <1>1, <2>1, <2>2 DEF Stream
  <2> QED BY <1>1, <1>2, <1>3, <2>3 DEF Writes
<1>4. CASE ~NoWriter(c)
  BY <1>1, <1>2, <1>4 DEF Stream, Writes
<1> QED BY <1>3, <1>4

(* What a thread does to the stream of the client it serves. *)
LEMMA WhenOpened ==
  ASSUME TypeOK, NEW t \in Thread, OpenFiles(t), NEW c \in Client, job[t].dest = c
  PROVE  /\ tpc[t] = "open" /\ rx' = rx /\ got' = got /\ sent' = sent /\ reading'[c] = "open"
         /\ Stream(c)' = Stream(c)
         /\ \A u \in Thread : Writes(u, c)' => Writes(u, c) \/ u = t
         /\ Running' => Writes(t, c)'
<1>1. /\ tpc[t] = "open" /\ reading' = [reading EXCEPT ![c] = "open"]
      /\ \/ mpc' = "aborted" /\ tpc' = tpc
         \/ mpc' = mpc /\ tpc' = [tpc EXCEPT ![t] = "write"]
      /\ UNCHANGED <<job, sent, rx, got>>
  BY DEF OpenFiles
<1>2. reading'[c] = "open"
  BY <1>1 DEF TypeOK
<1>3. \A u \in Thread : Writes(u, c)' => Writes(u, c) \/ u = t
  BY <1>1 DEF Writes, TypeOK
<1>4. Running' => Writes(t, c)'
  BY <1>1 DEF Running, Writes, TypeOK
<1> QED BY <1>1, <1>2, <1>3, <1>4 DEF Stream

LEMMA WhenWriting ==
  ASSUME Inv, NEW t \in Thread, WritePiece(t), NEW c \in Client, job[t].dest = c
  PROVE  /\ tpc[t] = "write" /\ Writes(t, c) /\ Writes(t, c)' /\ reading[c] = "open" /\ reading' = reading
         /\ got' = got /\ sent'[t] = sent[t] + 1 /\ sent[t] \in Nat
         /\ \A u \in Thread : Writes(u, c)' => Writes(u, c)
         /\ job[t].file \in AskedBy(c)
         /\ Len(Stream(c)') = Len(Stream(c)) + 1
         /\ \A k \in 1 .. Len(Stream(c)) : Stream(c)'[k] = Stream(c)[k]
         /\ Stream(c)'[Len(Stream(c)) + 1] = [file |-> job[t].file, n |-> sent[t] + 1]
<1> DEFINE e == [file |-> job[t].file, n |-> sent[t] + 1]
<1>0. TypeOK
  BY DEF Inv
<1>1. /\ tpc[t] = "write" /\ reading[c] = "open"
      /\ rx' = [rx EXCEPT ![c] = Append(@, e)] /\ sent' = [sent EXCEPT ![t] = @ + 1]
      /\ UNCHANGED <<tpc, job, reading, got>>
  BY DEF WritePiece, clientVars
<1>2. sent[t] \in Nat /\ job[t] \in Job /\ job[t].file \in AskedBy(c)
  BY <1>0, <1>1 DEF Inv, JobInv, RouteInv, WorkInv, TypeOK
<1>3. e \in Piece
  BY <1>2 DEF Piece, Job
<1>4. sent'[t] = sent[t] + 1
  BY <1>0, <1>1 DEF TypeOK
<1> HIDE DEF e
<1>5. rx'[c] = Append(rx[c], e) /\ rx[c] \in Seq(Piece) /\ got[c] \in Seq(Piece)
  BY <1>0, <1>1 DEF TypeOK
<1>6. Stream(c)' = got[c] \o Append(rx[c], e)
  BY <1>1, <1>5 DEF Stream
<1>7. /\ Len(got[c] \o Append(rx[c], e)) = Len(got[c] \o rx[c]) + 1
      /\ \A k \in 1 .. Len(got[c] \o rx[c]) : (got[c] \o Append(rx[c], e))[k] = (got[c] \o rx[c])[k]
      /\ (got[c] \o Append(rx[c], e))[Len(got[c] \o rx[c]) + 1] = e
  <2>1. got[c] \in Seq(Piece) /\ rx[c] \in Seq(Piece)
    BY <1>5
  <2> DEFINE g == got[c]
             r == rx[c]
  <2>2. g \in Seq(Piece) /\ r \in Seq(Piece)
    BY <2>1
  <2> HIDE DEF g, r
  <2>3. /\ Len(g \o Append(r, e)) = Len(g \o r) + 1
        /\ \A k \in 1 .. Len(g \o r) : (g \o Append(r, e))[k] = (g \o r)[k]
        /\ (g \o Append(r, e))[Len(g \o r) + 1] = e
    BY <1>3, <2>2, AddOne
  <2> QED BY <2>3 DEF g, r
<1>8. \A u \in Thread : Writes(u, c)' <=> Writes(u, c)
  BY <1>1 DEF Writes
<1>9. Writes(t, c)
  BY <1>1 DEF Writes
<1>10. /\ Len(Stream(c)') = Len(Stream(c)) + 1
       /\ \A k \in 1 .. Len(Stream(c)) : Stream(c)'[k] = Stream(c)[k]
       /\ Stream(c)'[Len(Stream(c)) + 1] = e
  <2>1. Stream(c) = got[c] \o rx[c]
    BY DEF Stream
  <2> QED BY <1>6, <1>7, <2>1, Zenon
<1>11. Writes(t, c)'
  BY <1>8, <1>9
<1>12. e = [file |-> job[t].file, n |-> sent[t] + 1]
  BY DEF e
<1> QED BY <1>1, <1>2, <1>4, <1>8, <1>9, <1>10, <1>11, <1>12, Zenon

LEMMA WhenClosing ==
  ASSUME TypeOK, NEW t \in Thread, CloseFiles(t), NEW c \in Client, job[t].dest = c
  PROVE  /\ Writes(t, c) /\ sent[t] = Pieces[job[t].file]
         /\ got' = got /\ reading' = reading /\ ended' = ended
         /\ \A u \in Thread : Writes(u, c)' => Writes(u, c) /\ u # t /\ sent'[u] = sent[u]
         /\ \/ rx'[c] = rx[c] /\ Stream(c)' = Stream(c)
            \/ reading[c] # "open" /\ rx'[c] = <<>> /\ Stream(c)' = got[c]
<1>1. /\ tpc[t] = "write" /\ tpc' = [tpc EXCEPT ![t] = "idle"] /\ sent[t] = Pieces[job[t].file]
      /\ job' = [job EXCEPT ![t] = Idle] /\ sent' = [sent EXCEPT ![t] = 0]
      /\ rx' = rx \/ (reading[c] # "open" /\ rx' = [rx EXCEPT ![c] = <<>>])
      /\ UNCHANGED <<got, reading, ended>>
  BY DEF CloseFiles, Go, clientVars, AtEnd
<1>2. \A u \in Thread : Writes(u, c)' => Writes(u, c) /\ u # t /\ sent'[u] = sent[u]
  BY <1>1 DEF Writes, TypeOK
<1>3. CASE rx' = rx
  BY <1>1, <1>2, <1>3 DEF Stream, Writes
<1>4. CASE reading[c] # "open" /\ rx' = [rx EXCEPT ![c] = <<>>]
  <2>1. rx'[c] = <<>>
    BY <1>4 DEF TypeOK
  <2>2. got[c] \o <<>> = got[c]
    <3>1. got[c] \in Seq(Piece) /\ <<>> \in Seq(Piece)
      BY DEF TypeOK
    <3> QED BY <3>1, ConcatFacts
  <2> QED BY <1>1, <1>2, <1>4, <2>1, <2>2 DEF Stream, Writes
<1> QED BY <1>1, <1>3, <1>4

(* The thread that serves the one request of c is the only one to do so, and  *)
(* c is not waiting any more when it writes.                                  *)
LEMMA OneWriter ==
  ASSUME Inv, NEW c \in Client, PlaceOf(c), NEW t \in Thread, Serves(t, c)
  PROVE  /\ \A u \in Thread : Writes(u, c) => u = t
         /\ asked[c] # <<>>
         /\ Waiting(c) => tpc[t] = "open"
<1>1. \A u \in Thread : Writes(u, c) => Serves(u, c)
  BY DEF Writes, Serves
<1>2. \A u \in Thread : Serves(u, c) => u = t
  BY DEF PlaceOf
<1>3. asked[c] # <<>>
  BY NothingYet
<1>4. Waiting(c) => tpc[t] = "open"
  BY <1>2 DEF Waiting, PlaceOf
<1> QED BY <1>1, <1>2, <1>3, <1>4

(* Nothing is on the way to a client whose request waits. *)
LEMMA FreshStep ==
  ASSUME Inv, PlaceInv, FreshInv, [Next]_vars, NEW c \in Client, Single(c)', Waiting(c)'
  PROVE  Stream(c)' = <<>>
<1>0. TypeOK /\ Single(c) /\ PlaceOf(c)
  BY AskedGrows DEF Inv, PlaceInv
<1>1. Waiting(c) \/ asked[c] = <<>>
  BY PlaceStep
<1>2. Stream(c) = <<>> /\ got[c] = <<>> /\ rx[c] = <<>>
  <2>1. CASE Waiting(c)
    <3>1. Stream(c) = <<>>
      BY <1>0, <2>1 DEF FreshInv
    <3> QED BY <1>0, <3>1, StreamType
  <2>2. CASE asked[c] = <<>>
    BY <1>0, <2>2, NothingYet, StreamType
  <2> QED BY <1>1, <2>1, <2>2
<1>3. CASE Alone(c)
  BY <1>2, <1>3, StreamAlone
<1>4. CASE OpenToRead(c)
  BY <1>0, <1>2, <1>4, WhenOpening
<1>5. CASE ReadPiece(c)
  BY <1>0, <1>2, <1>5, WhenReading
<1>6. CASE EndOfStream(c)
  BY <1>0, <1>2, <1>6, WhenEnding
<1>7. CASE Leave(c)
  BY <1>0, <1>2, <1>7, WhenLeaving
<1>8. ASSUME NEW t \in Thread, tpc[t] # "idle", job[t].dest = c, OpenFiles(t) \/ WritePiece(t) \/ CloseFiles(t)
      PROVE  Stream(c)' = <<>>
  <2>1. CASE OpenFiles(t)
    BY <1>0, <1>2, <1>8, <2>1, WhenOpened
  <2>2. CASE WritePiece(t)
    <3>1. Serves(t, c) /\ tpc[t] = "write"
      BY <1>8, <2>2 DEF Serves, WritePiece
    <3>2. FALSE
      BY <1>0, <1>1, <3>1, OneWriter
    <3> QED BY <3>2
  <2>3. CASE CloseFiles(t)
    BY <1>0, <1>2, <1>8, <2>3, WhenClosing
  <2> QED BY <1>8, <2>1, <2>2, <2>3
<1> QED BY <1>3, <1>4, <1>5, <1>6, <1>7, <1>8, WhoMoves

(* The pieces stay in order: a thread adds the next one behind the last.      *)
LEMMA FlowStep ==
  ASSUME Inv, PlaceInv, FreshInv, FlowInv, [Next]_vars, NEW c \in Client, Single(c)'
  PROVE  FlowOf(c)'
<1>0. TypeOK /\ Single(c) /\ PlaceOf(c)
  BY AskedGrows DEF Inv, PlaceInv
<1>1. /\ InOrder(Stream(c))
      /\ \A t \in Thread : Writes(t, c) /\ Stream(c) # <<>> => Stream(c)[Len(Stream(c))].n = sent[t]
  BY <1>0 DEF FlowInv, FlowOf
<1>2. /\ rx[c] \in Seq(Piece) /\ got[c] \in Seq(Piece)
      /\ Stream(c) = got[c] \o rx[c] /\ Stream(c) \in Seq(Piece) /\ Len(Stream(c)) \in Nat
      /\ (Stream(c) = <<>> <=> got[c] = <<>> /\ rx[c] = <<>>)
  BY <1>0, StreamType
<1>3. InOrder(got[c]) /\ InOrder(rx[c])
  BY <1>1, <1>2, EndsInOrder
<1>4. ASSUME Stream(c)' = Stream(c),
             \A t \in Thread : Writes(t, c)' => Writes(t, c) /\ sent'[t] = sent[t]
      PROVE  FlowOf(c)'
  BY <1>1, <1>4 DEF FlowOf, InOrder
<1>5. ASSUME Stream(c)' = got[c], \A t \in Thread : ~Writes(t, c)'
      PROVE  FlowOf(c)'
  BY <1>3, <1>5 DEF FlowOf, InOrder
<1>6. CASE Alone(c)
  BY <1>4, <1>6, StreamAlone DEF Alone
<1>7. CASE OpenToRead(c)
  <2>1. Stream(c)' = rx[c] /\ \A t : (Writes(t, c)' <=> Writes(t, c)) /\ sent'[t] = sent[t]
    BY <1>0, <1>7, WhenOpening
  <2>2. ASSUME rx[c] # <<>>
        PROVE  Stream(c) # <<>> /\ rx[c][Len(rx[c])] = Stream(c)[Len(Stream(c))]
    <3>1. Len(rx[c]) \in 1 .. Len(rx[c])
      BY <1>2, <2>2
    <3>2. (got[c] \o rx[c])[Len(got[c]) + Len(rx[c])] = rx[c][Len(rx[c])]
      <4>1. got[c] \in Seq(Piece) /\ rx[c] \in Seq(Piece)
        BY <1>2
      <4> DEFINE g == got[c]
                 r == rx[c]
      <4>2. g \in Seq(Piece) /\ r \in Seq(Piece) /\ Len(r) \in 1 .. Len(r)
        BY <3>1, <4>1
      <4> HIDE DEF g, r
      <4>3. (g \o r)[Len(g) + Len(r)] = r[Len(r)]
        BY <4>2, ConcatFacts
      <4> QED BY <4>3 DEF g, r
    <3>3. Len(got[c] \o rx[c]) = Len(got[c]) + Len(rx[c])
      BY <1>2, ConcatFacts
    <3> QED BY <1>2, <2>2, <3>2, <3>3
  <2> QED BY <1>1, <1>3, <2>1, <2>2 DEF FlowOf, InOrder
<1>8. CASE ReadPiece(c)
  BY <1>0, <1>4, <1>8, WhenReading
<1>9. CASE EndOfStream(c)
  BY <1>0, <1>4, <1>9, WhenEnding
<1>10. CASE Leave(c)
  BY <1>0, <1>4, <1>5, <1>10, WhenLeaving DEF NoWriter
<1>11. ASSUME NEW t \in Thread, tpc[t] # "idle", job[t].dest = c, OpenFiles(t) \/ WritePiece(t) \/ CloseFiles(t)
       PROVE  FlowOf(c)'
  <2>0. Serves(t, c)
    BY <1>11 DEF Serves
  <2>1. CASE OpenFiles(t)
    <3>1. tpc[t] = "open" /\ Stream(c)' = Stream(c)
      BY <1>0, <1>11, <2>1, WhenOpened
    <3>2. Waiting(c)
      BY <2>0, <3>1 DEF Waiting
    <3>3. Stream(c) = <<>>
      BY <1>0, <3>2 DEF FreshInv
    <3> QED BY <1>1, <3>1, <3>3 DEF FlowOf, InOrder
  <2>2. CASE WritePiece(t)
    <3> DEFINE s == Stream(c)
               m == Len(s)
    <3>1. /\ Writes(t, c) /\ sent'[t] = sent[t] + 1 /\ sent[t] \in Nat
          /\ Len(s') = m + 1 /\ \A k \in 1 .. m : s'[k] = s[k]
          /\ s'[m + 1] = [file |-> job[t].file, n |-> sent[t] + 1]
          /\ \A u \in Thread : Writes(u, c)' => Writes(u, c)
      BY <1>11, <2>2, WhenWriting
    <3>2. \A u \in Thread : Writes(u, c) => u = t
      BY <1>0, <2>0, OneWriter
    <3>3. s'[m + 1].n = sent'[t]
      BY <3>1
    <3>0. m \in Nat
      BY <1>2
    <3>6. s # <<>> => s[m].n = sent[t]
      BY <1>1, <3>1
    <3>7. m # 0 => s # <<>>
      OBVIOUS
    <3>8. \A k \in 1 .. m - 1 : s[k + 1].n = s[k].n + 1
      BY <1>1 DEF InOrder
    <3> HIDE DEF m
    <3>4. ASSUME NEW k \in 1 .. Len(s') - 1
          PROVE  s'[k + 1].n = s'[k].n + 1
      <4>1. k \in 1 .. m
        BY <3>0, <3>1
      <4>2. CASE k = m
        <5>1. s[m].n = sent[t]
          BY <3>0, <3>6, <3>7, <4>1, <4>2
        <5> QED BY <3>1, <3>3, <4>1, <4>2, <5>1
      <4>3. CASE k # m
        <5>1. k \in 1 .. m - 1 /\ k + 1 \in 1 .. m
          BY <3>0, <4>1, <4>3
        <5>2. s[k + 1].n = s[k].n + 1
          BY <3>8, <5>1
        <5> QED BY <3>1, <4>1, <5>1, <5>2
      <4> QED BY <4>2, <4>3
    <3>5. \A u \in Thread : Writes(u, c)' => s'[Len(s')].n = sent'[u]
      BY <3>1, <3>2, <3>3
    <3> QED BY <3>4, <3>5 DEF FlowOf, InOrder
  <2>3. CASE CloseFiles(t)
    <3>1. /\ \A u \in Thread : Writes(u, c)' => Writes(u, c) /\ u # t /\ sent'[u] = sent[u]
          /\ Stream(c)' = Stream(c) \/ Stream(c)' = got[c]
      BY <1>0, <1>11, <2>3, WhenClosing
    <3>2. \A u \in Thread : ~Writes(u, c)'
      BY <1>0, <2>0, <3>1, OneWriter
    <3> QED BY <1>4, <1>5, <3>1, <3>2
  <2> QED BY <1>11, <2>1, <2>2, <2>3
<1> QED BY <1>6, <1>7, <1>8, <1>9, <1>10, <1>11, WhoMoves

(* The stream is as far as its thread has come, and ends with the file. *)
LEMMA WholeStep ==
  ASSUME OneInv, [Next]_vars, Running', noise' = 0, NEW c \in Client, Single(c)'
  PROVE  WholeOf(c)'
<1>0. TypeOK /\ Inv /\ Single(c) /\ PlaceOf(c) /\ Running /\ noise = 0 /\ WholeOf(c)
  BY AskedGrows, EndsForGood DEF OneInv, Inv, PlaceInv, WholeInv
<1>1. asked'[c] = asked[c] \/ asked[c] = <<>>
  BY <1>0, AskedGrows
<1>2. /\ rx[c] \in Seq(Piece) /\ got[c] \in Seq(Piece) /\ Len(Stream(c)) \in Nat
      /\ (Stream(c) = <<>> <=> got[c] = <<>> /\ rx[c] = <<>>)
  BY <1>0, StreamType
<1>3. /\ \A t \in Thread : Writes(t, c) => reading[c] = "open" /\ sent[t] = Len(Stream(c))
      /\ \A k \in 1 .. Len(Stream(c)) : Stream(c)[k] = [file |-> asked[c][1], n |-> k]
      /\ NoWriter(c) /\ Stream(c) # <<>> => Len(Stream(c)) = Pieces[asked[c][1]]
      /\ reading[c] = "no" => rx[c] = <<>>
      /\ reading[c] = "no" /\ ended[c] = 0 => got[c] = <<>>
  BY <1>0 DEF WholeOf
<1>4. asked[c] # <<>> => asked'[c] = asked[c]
  BY <1>1
<1>5. asked[c] = <<>> => Stream(c) = <<>>
  BY <1>0, <1>2, NothingYet
<1>6. ASSUME Stream(c)' = <<>>, reading'[c] # "no" \/ (rx'[c] = <<>> /\ got'[c] = <<>>),
             \A t \in Thread : Writes(t, c)' => reading'[c] = "open" /\ sent'[t] = 0
      PROVE  WholeOf(c)'
  BY <1>6 DEF WholeOf
<1>7. CASE Alone(c)
  <2>1. Stream(c)' = Stream(c) /\ (NoWriter(c)' <=> NoWriter(c))
    BY <1>7, StreamAlone
  <2>2. CASE asked[c] = <<>>
    <3>1. /\ \A t \in Thread : ~Writes(t, c)
          /\ Stream(c) = <<>> /\ rx[c] = <<>> /\ got[c] = <<>>
      BY <1>0, <1>5, <2>2, NothingYet DEF Writes, Serves
    <3> QED BY <1>6, <1>7, <2>1, <3>1 DEF Alone
  <2>3. CASE asked'[c] = asked[c]
    BY <1>3, <1>7, <2>1, <2>3 DEF WholeOf, Alone
  <2> QED BY <1>1, <2>2, <2>3
<1>8. CASE OpenToRead(c)
  <2>1. /\ reading[c] = "no" /\ reading'[c] # "no" /\ ended[c] < Len(asked[c])
        /\ Stream(c)' = rx[c]
        /\ \A t : (Writes(t, c)' <=> Writes(t, c)) /\ sent'[t] = sent[t]
    BY <1>0, <1>8, WhenOpening
  <2>2. \A t \in Thread : ~Writes(t, c)'
    BY <1>3, <2>1
  <2> QED BY <1>3, <1>6, <2>1, <2>2
<1>9. CASE ReadPiece(c)
  <2>1. /\ reading[c] = "open" /\ reading' = reading /\ Stream(c)' = Stream(c)
        /\ \A t : (Writes(t, c)' <=> Writes(t, c)) /\ sent'[t] = sent[t]
    BY <1>0, <1>9, WhenReading
  <2>2. asked' = asked
    BY <1>9 DEF ReadPiece
  <2> QED BY <1>3, <2>1, <2>2 DEF WholeOf, NoWriter
<1>10. CASE EndOfStream(c)
  <2>1. /\ rx[c] = <<>> /\ NoWriter(c) /\ ended'[c] # 0
        /\ rx' = rx /\ Stream(c)' = Stream(c)
        /\ \A t : (Writes(t, c)' <=> Writes(t, c)) /\ sent'[t] = sent[t]
    BY <1>0, <1>10, WhenEnding
  <2>2. asked' = asked
    BY <1>10 DEF EndOfStream
  <2> QED BY <1>3, <2>1, <2>2 DEF WholeOf, NoWriter
<1>11. CASE Leave(c)
  BY <1>0, <1>11, WhenLeaving
<1>12. ASSUME NEW t \in Thread, tpc[t] # "idle", job[t].dest = c, OpenFiles(t) \/ WritePiece(t) \/ CloseFiles(t)
       PROVE  WholeOf(c)'
  <2>0. Serves(t, c)
    BY <1>12 DEF Serves
  <2>1. asked[c] # <<>> /\ asked'[c] = asked[c] /\ \A u \in Thread : Writes(u, c) => u = t
    BY <1>0, <1>4, <2>0, OneWriter
  <2>2. CASE OpenFiles(t)
    <3>1. /\ tpc[t] = "open" /\ sent' = sent /\ reading'[c] = "open" /\ Stream(c)' = Stream(c)
          /\ \A u \in Thread : Writes(u, c)' => Writes(u, c) \/ u = t
      BY <1>0, <1>12, <2>2, WhenOpened
    <3>2. Waiting(c)
      BY <2>0, <3>1 DEF Waiting
    <3>3. Stream(c) = <<>>
      BY <1>0, <3>2 DEF OneInv, FreshInv
    <3>4. sent[t] = 0
      BY <3>1 DEF OneInv, SentInv
    <3> QED BY <1>6, <2>1, <3>1, <3>3, <3>4
  <2>3. CASE WritePiece(t)
    <3> DEFINE s == Stream(c)
               m == Len(s)
    <3>1. /\ Writes(t, c) /\ Writes(t, c)' /\ reading[c] = "open" /\ reading' = reading
          /\ sent'[t] = sent[t] + 1 /\ job[t].file \in AskedBy(c)
          /\ \A u \in Thread : Writes(u, c)' => Writes(u, c)
          /\ Len(s') = m + 1 /\ \A k \in 1 .. m : s'[k] = s[k]
          /\ s'[m + 1] = [file |-> job[t].file, n |-> sent[t] + 1]
      BY <1>0, <1>12, <2>3, WhenWriting
    <3>2. job[t].file = asked[c][1]
      BY <1>0, <3>1, OnlyAsked
    <3>3. sent[t] = m /\ m \in Nat
      BY <1>2, <1>3, <3>1
    <3>4. \A k \in 1 .. m : s[k] = [file |-> asked[c][1], n |-> k]
      BY <1>3
    <3>5. ~NoWriter(c)'
      BY <3>1 DEF NoWriter
    <3> HIDE DEF m
    <3>6. \A k \in 1 .. Len(s') : s'[k] = [file |-> asked'[c][1], n |-> k]
      <4> SUFFICES ASSUME NEW k \in 1 .. Len(s')
                   PROVE  s'[k] = [file |-> asked'[c][1], n |-> k]
        OBVIOUS
      <4>1. CASE k \in 1 .. m
        BY <2>1, <3>1, <3>4, <4>1
      <4>2. CASE k = m + 1
        BY <2>1, <3>1, <3>2, <3>3, <4>2
      <4> QED BY <3>1, <3>3, <4>1, <4>2
    <3>7. \A u \in Thread : Writes(u, c)' => reading'[c] = "open" /\ sent'[u] = Len(s')
      BY <2>1, <3>1, <3>3
    <3> QED BY <3>1, <3>5, <3>6, <3>7 DEF WholeOf
  <2>4. CASE CloseFiles(t)
    <3>1. /\ Writes(t, c) /\ sent[t] = Pieces[job[t].file]
          /\ got' = got /\ reading' = reading /\ ended' = ended
          /\ \A u \in Thread : Writes(u, c)' => Writes(u, c) /\ u # t
          /\ \/ rx'[c] = rx[c] /\ Stream(c)' = Stream(c)
             \/ reading[c] # "open"
      BY <1>0, <1>12, <2>4, WhenClosing
    <3>2. reading[c] = "open" /\ sent[t] = Len(Stream(c))
      BY <1>3, <3>1
    <3>3. job[t].file = asked[c][1]
      <4>1. tpc[t] # "idle" /\ job[t].file \in AskedBy(c)
        BY <1>0, <1>12 DEF Inv, RouteInv, WorkInv
      <4> QED BY <1>0, <4>1, OnlyAsked
    <3>4. \A u \in Thread : ~Writes(u, c)'
      BY <2>1, <3>1
    <3> QED BY <1>3, <2>1, <3>1, <3>2, <3>3, <3>4 DEF WholeOf
  <2> QED BY <1>12, <2>2, <2>3, <2>4
<1> QED BY <1>0, <1>7, <1>8, <1>9, <1>10, <1>11, <1>12, WhoMoves

LEMMA InitOneInv == Init => OneInv
<1> SUFFICES ASSUME Init
             PROVE  OneInv
  OBVIOUS
<1>1. ASSUME NEW c \in Client
      PROVE  /\ tx[c] = <<>> /\ rx[c] = <<>> /\ got[c] = <<>> /\ asked[c] = <<>>
             /\ Stream(c) = <<>> /\ Len(Stream(c)) = 0
  <2>1. tx[c] = <<>> /\ rx[c] = <<>> /\ got[c] = <<>> /\ asked[c] = <<>>
    BY DEF Init
  <2>2. TypeOK
    BY InitInv DEF Inv
  <2>3. Stream(c) = <<>>
    BY <2>1, <2>2, StreamType
  <2>4. Len(Stream(c)) = 0
    BY <2>3
  <2> QED BY <2>1, <2>3, <2>4
<1>2. jobs = <<>> /\ \A t \in Thread : tpc[t] = "idle" /\ sent[t] = 0
  BY DEF Init
<1>3. \A c \in Client, t \in Thread : ~Writes(t, c) /\ ~Serves(t, c)
  BY <1>2 DEF Writes, Serves
<1>4. PlaceInv
  BY <1>1, <1>2, <1>3 DEF PlaceInv, PlaceOf
<1>5. FreshInv /\ SentInv
  BY <1>1, <1>2 DEF FreshInv, SentInv
<1>6. FlowInv
  BY <1>1, <1>3 DEF FlowInv, FlowOf, InOrder
<1>7. WholeInv
  BY <1>1, <1>3 DEF WholeInv, WholeOf
<1> QED BY <1>4, <1>5, <1>6, <1>7, InitInv DEF OneInv

LEMMA NextOneInv == OneInv /\ [Next]_vars => OneInv'
<1> SUFFICES ASSUME OneInv, [Next]_vars
             PROVE  OneInv'
  OBVIOUS
<1>0. Inv /\ PlaceInv /\ SentInv /\ FreshInv /\ FlowInv
  BY DEF OneInv
<1>1. Inv'
  BY <1>0, NextInv
<1>2. PlaceInv'
  BY <1>0, PlaceStep DEF PlaceInv
<1>3. SentInv'
  BY <1>0, SentStep
<1>4. FreshInv'
  BY <1>0, FreshStep DEF FreshInv
<1>5. FlowInv'
  BY <1>0, FlowStep DEF FlowInv
<1>6. WholeInv'
  BY WholeStep DEF WholeInv
<1> QED BY <1>1, <1>2, <1>3, <1>4, <1>5, <1>6 DEF OneInv

(* Of a client with one request: it is in one place, nothing is on the way    *)
(* before a thread has both files open, and what is on the way or read is a   *)
(* run of pieces that ends where the thread that writes is.                   *)
THEOREM OneRequestInvariance == Spec => []OneInv
<1> QED BY InitOneInv, NextOneInv, PTL DEF Spec

(* A client with one request gets its pieces in order, none twice and none    *)
(* left out, whatever the threads do for others and also if it leaves and     *)
(* comes back while its file is being written (server.c, send_file).          *)
THEOREM PiecesInOrder == Spec => []OneRequestInOrder
<1>1. OneInv => OneRequestInOrder
  <2> SUFFICES ASSUME OneInv, NEW c \in Client, Len(asked[c]) = 1
               PROVE  InOrder(Stream(c))
    BY DEF OneRequestInOrder, InOrder
  <2>1. Single(c)
    BY DEF Single
  <2> QED BY <2>1 DEF OneInv, FlowInv, FlowOf
<1> QED BY <1>1, OneRequestInvariance, PTL

(* A client that has read to the end of its stream has the whole file: the    *)
(* thread has the FIFO open from before the first piece until after the last. *)
THEOREM EndOfStreamIsEndOfFile == Spec => []EndIsEndOfFile
<1>1. OneInv => EndIsEndOfFile
  <2> SUFFICES ASSUME OneInv, Running, noise = 0, NEW c \in Client,
                      reading[c] = "no", Len(asked[c]) = 1, got[c] # <<>>
               PROVE  Whole(c)
    BY DEF EndIsEndOfFile
  <2> DEFINE f == asked[c][1]
  <2>0. TypeOK /\ WholeOf(c)
    <3>1. Single(c)
      BY DEF Single
    <3> QED BY <3>1 DEF OneInv, Inv, WholeInv
  <2>1. rx[c] = <<>> /\ NoWriter(c)
    BY <2>0 DEF WholeOf, NoWriter
  <2>2. Stream(c) = got[c]
    <3>1. got[c] \in Seq(Piece) /\ Stream(c) = got[c] \o rx[c]
      BY <2>0, StreamType
    <3>2. \A g \in Seq(Piece) : g \o <<>> = g
      BY ConcatFacts
    <3> QED BY <2>1, <3>1, <3>2
  <2>3. /\ \A k \in 1 .. Len(got[c]) : got[c][k] = [file |-> f, n |-> k]
        /\ Len(got[c]) = Pieces[f]
    BY <2>0, <2>1, <2>2 DEF WholeOf
  <2>4. got[c] \in Seq(Piece) /\ asked[c] # <<>>
    <3>1. Len(<<>>) # 1
      OBVIOUS
    <3>2. asked[c] # <<>>
      BY <3>1, Zenon
    <3> QED BY <2>0, <3>2 DEF TypeOK
  <2>5. got[c] = [k \in 1 .. Len(got[c]) |-> got[c][k]]
    BY <2>4
  <2> QED BY <2>3, <2>4, <2>5 DEF Whole
<1> QED BY <1>1, OneRequestInvariance, PTL
=============================================================================
