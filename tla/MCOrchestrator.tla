--------------------------- MODULE MCOrchestrator ---------------------------
(* Orchestrator on small instances: a run of one or two rounds. *)
EXTENDS Orchestrator, TLC

CONSTANTS s1, s2

StopSymmetry == Permutations(StopIds)
=============================================================================
