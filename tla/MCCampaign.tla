----------------------------- MODULE MCCampaign -----------------------------
(* Campaign on a small instance. *)
EXTENDS Campaign

CONSTANTS a1, a2

\* One arm keeps serving for two segments, then the policy is switched.
MCArmOf == [s \in Segments |-> IF s < 3 THEN a1 ELSE a2]
=============================================================================
