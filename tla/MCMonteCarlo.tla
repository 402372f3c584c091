---------------------------- MODULE MCMonteCarlo ----------------------------
(***************************************************************************)
(* The instance of MonteCarlo for TLC: its constants are plain numbers.    *)
(***************************************************************************)
EXTENDS MonteCarlo
=============================================================================
