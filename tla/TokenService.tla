----------------------------- MODULE TokenService -----------------------------
(***************************************************************************)
(* src/task_3/examples/mq_server.c and mq_client.c: clients ask a server   *)
(* for tokens, numbers that it hands out one after the other.  A request   *)
(* is the name of the client's own message queue, in which the answer is   *)
(* put.  The server opens that queue for every answer and never closes it. *)
(* Either program may be killed; the server's queue outlives it.           *)
(***************************************************************************)
EXTENDS Integers, Sequences, FiniteSets

CONSTANTS
  Asker,         \* the clients; a client that is started again is another one
  MAX_MESSAGES,  \* messages a queue holds
  Descriptors,   \* queues a process can have open besides its first
  MaxAsks,       \* bound: requests of a client
  MaxKills       \* bound: how often the server is killed

ASSUME TokenAssumption ==
  /\ MAX_MESSAGES \in Nat \ {0} /\ Descriptors \in Nat
  /\ MaxAsks \in Nat /\ MaxKills \in Nat
  /\ "nobody" \notin Asker

VARIABLES
  svc,     \* the server: "off" or "on"
  serving, \* whose request it has received and not answered, or "nobody"
  asks,    \* its queue, which exists once made is true
  made,
  token,   \* token_number
  opened,  \* the clients' queues it has open
  kills,
  apc,     \* where a client is: "start", "ask", "wait", or how it has ended
  own,     \* own[c]: the answers in its queue
  linked,  \* the clients whose queue has a name
  asked,   \* how often it has asked
  given    \* the tokens given out by this run of the server, with the client

serverVars == <<svc, serving, token, opened, kills, given>>
askerVars  == <<apc, linked, asked>>
tokenVars  == <<serverVars, asks, made, askerVars, own>>

TokenInit ==
  /\ svc = "off" /\ serving = "nobody" /\ asks = <<>> /\ made = FALSE
  /\ token = 1 /\ opened = 0 /\ kills = 0 /\ given = <<>>
  /\ apc = [c \in Asker |-> "start"] /\ own = [c \in Asker |-> <<>>]
  /\ linked = {} /\ asked = [c \in Asker |-> 0]

(* The client makes its queue and opens the server's, or leaves its own       *)
(* behind if there is none.                                                   *)
StartAsker(c) ==
  /\ apc[c] = "start"
  /\ linked' = linked \cup {c}
  /\ apc' = [apc EXCEPT ![c] = IF made THEN "ask" ELSE "failed"]
  /\ UNCHANGED <<serverVars, asks, made, own, asked>>

Ask(c) ==
  /\ apc[c] = "ask" /\ asked[c] < MaxAsks /\ Len(asks) < MAX_MESSAGES
  /\ asks' = Append(asks, c)
  /\ asked' = [asked EXCEPT ![c] = @ + 1]
  /\ apc' = [apc EXCEPT ![c] = "wait"]
  /\ UNCHANGED <<serverVars, made, own, linked>>

GetToken(c) ==
  /\ apc[c] = "wait" /\ own[c] # <<>>
  /\ own' = [own EXCEPT ![c] = Tail(@)]
  /\ apc' = [apc EXCEPT ![c] = "ask"]
  /\ UNCHANGED <<serverVars, asks, made, linked, asked>>

(* The end of its input: mq_close and mq_unlink. *)
EndAsker(c) ==
  /\ apc[c] = "ask"
  /\ apc' = [apc EXCEPT ![c] = "done"] /\ linked' = linked \ {c}
  /\ UNCHANGED <<serverVars, asks, made, own, asked>>

KillAsker(c) ==
  /\ apc[c] \in {"ask", "wait"}
  /\ apc' = [apc EXCEPT ![c] = "killed"]
  /\ UNCHANGED <<serverVars, asks, made, own, linked, asked>>

StartService ==
  /\ svc = "off"
  /\ svc' = "on" /\ made' = TRUE
  /\ serving' = "nobody" /\ token' = 1 /\ opened' = 0 /\ given' = <<>>
  /\ UNCHANGED <<asks, kills, askerVars, own>>

Rest_Kept == asks
Rest      == Tail(asks)

ReceiveAsk ==
  /\ svc = "on" /\ serving = "nobody" /\ asks # <<>>
  /\ serving' = Head(asks) /\ asks' = Rest
  /\ UNCHANGED <<svc, token, opened, kills, given, made, askerVars, own>>

(* mq_open gives -1 for a queue without a name and when no descriptor is      *)
(* left; the test for 1 lets it pass, and mq_send fails with it.              *)
CanOpen == serving \in linked /\ opened < Descriptors

NextToken_Always == token + 1
NextToken        == IF CanOpen THEN token + 1 ELSE token

(* mq_send waits for a place in the client's queue. *)
Answer ==
  /\ svc = "on" /\ serving # "nobody"
  /\ CanOpen => Len(own[serving]) < MAX_MESSAGES
  /\ own' = IF CanOpen THEN [own EXCEPT ![serving] = Append(@, token)] ELSE own
  /\ given' = IF CanOpen THEN Append(given, <<serving, token>>) ELSE given
  /\ opened' = IF CanOpen THEN opened + 1 ELSE opened
  /\ token' = NextToken
  /\ serving' = "nobody"
  /\ UNCHANGED <<svc, kills, asks, made, askerVars>>

KillService ==
  /\ svc = "on" /\ kills < MaxKills
  /\ svc' = "off" /\ kills' = kills + 1
  /\ serving' = "nobody"
  /\ UNCHANGED <<token, opened, given, asks, made, askerVars, own>>

Service      == ReceiveAsk \/ Answer
AskerStep(c) == StartAsker(c) \/ Ask(c) \/ GetToken(c) \/ EndAsker(c) \/ KillAsker(c)
TokenStep    == Service \/ StartService \/ KillService \/ \E c \in Asker : AskerStep(c)
=============================================================================
