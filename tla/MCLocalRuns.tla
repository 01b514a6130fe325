---------------------------- MODULE MCLocalRuns ----------------------------
(* Instances of LocalRuns for TLC.                                           *)
EXTENDS LocalRuns
=============================================================================
