---------------------------- MODULE ParallelSum ----------------------------
(***************************************************************************)
(* What monte_carlo(task, num_of_cores) promises its caller: the result is *)
(* the sum of the parts, to which every part that was started is added     *)
(* exactly once and in one step.  A part that could not be started is      *)
(* dropped, and whoever dropped one may not come back at all.              *)
(***************************************************************************)
EXTENDS Integers, FiniteSets

CONSTANT Parts    \* the parts of the integral, one per thread

VARIABLES
  pending,   \* the parts whose fate is open
  sum,       \* how often each part has been added
  outcome    \* "running", "returned" or "crashed"

psVars == <<pending, sum, outcome>>

PSInit ==
  /\ pending = Parts
  /\ sum = [p \in Parts |-> 0]
  /\ outcome = "running"

Add(p) ==
  /\ outcome = "running"
  /\ p \in pending
  /\ pending' = pending \ {p}
  /\ sum' = [sum EXCEPT ![p] = @ + 1]
  /\ UNCHANGED outcome

Drop(p) ==
  /\ outcome = "running"
  /\ p \in pending
  /\ pending' = pending \ {p}
  /\ UNCHANGED <<sum, outcome>>

Return ==
  /\ outcome = "running"
  /\ pending = {}
  /\ outcome' = "returned"
  /\ UNCHANGED <<pending, sum>>

Crash ==
  /\ outcome = "running"
  /\ \E p \in Parts \ pending : sum[p] = 0
  /\ outcome' = "crashed"
  /\ UNCHANGED <<pending, sum>>

PSNext == (\E p \in Parts : Add(p) \/ Drop(p)) \/ Return \/ Crash

PSSafety == PSInit /\ [][PSNext]_psVars
PSSpec   == PSSafety /\ WF_psVars(PSNext)
=============================================================================
