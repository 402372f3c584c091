----------------------------- MODULE MCCluster -----------------------------
(***************************************************************************)
(* Instances of the cluster for TLC.                                       *)
(***************************************************************************)
EXTENDS ClusterInvariant

CONSTANTS h1, h2

MCHosts    == {h1, h2}
MCNobody   == {}
MCMayCrash == {h1}

(* Two machines of different strength, as in the example of task.md:24. *)
MCCores == [h \in Hosts |-> IF h = h1 THEN 1 ELSE 2]
=============================================================================
