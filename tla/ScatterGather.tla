--------------------------- MODULE ScatterGather ---------------------------
(***************************************************************************)
(* What task_8 promises of one run of its server, whatever the network and *)
(* the workers do (src/task_8/tiazhelkov.ve/task.md:16-29): members join   *)
(* while the round is forming, then their answers are collected one by     *)
(* one, and the round ends: complete, with an answer of every member;      *)
(* partial, when the server has stopped waiting for the missing ones; or   *)
(* aborted, before any work was given out.                                 *)
(***************************************************************************)
EXTENDS Integers

CONSTANT Capacity    \* how many members a round can have

VARIABLES
  phase,      \* "forming", "gathering" or how the round has ended
  members,    \* who takes part, numbered as they join
  collected   \* the members whose answer is in

sgVars == <<phase, members, collected>>

SGInit ==
  /\ phase = "forming"
  /\ members = {}
  /\ collected = {}

(* Nobody joins, leaves or is counted under another number later on. *)
Join ==
  /\ phase = "forming"
  /\ \E n \in 1 .. Capacity : members = 1 .. n - 1 /\ members' = 1 .. n
  /\ UNCHANGED <<phase, collected>>

Distribute ==
  /\ phase = "forming"
  /\ phase' = "gathering"
  /\ UNCHANGED <<members, collected>>

Abort ==
  /\ phase = "forming"
  /\ phase' = "aborted"
  /\ UNCHANGED <<members, collected>>

Collect ==
  /\ phase = "gathering"
  /\ \E m \in members \ collected : collected' = collected \cup {m}
  /\ UNCHANGED <<phase, members>>

Complete ==
  /\ phase = "gathering"
  /\ collected = members
  /\ phase' = "complete"
  /\ UNCHANGED <<members, collected>>

GiveUp ==
  /\ phase = "gathering"
  /\ collected # members
  /\ phase' = "partial"
  /\ UNCHANGED <<members, collected>>

SGNext == Join \/ Distribute \/ Abort \/ Collect \/ Complete \/ GiveUp

(* Safety alone, and with the promise that every round ends. *)
SGSafety == SGInit /\ [][SGNext]_sgVars
SGSpec   == SGSafety /\ WF_sgVars(SGNext)
=============================================================================
