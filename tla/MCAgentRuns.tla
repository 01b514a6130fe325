---------------------------- MODULE MCAgentRuns ----------------------------
(***************************************************************************)
(* Instances of AgentRuns for TLC.  Agents and poll handlers are           *)
(* interchangeable; runs are not (they are numbered).                      *)
(***************************************************************************)
EXTENDS AgentRuns, TLC

Symmetry == Permutations(Agents) \union Permutations(Handlers)
=============================================================================
