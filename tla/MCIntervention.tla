--------------------------- MODULE MCIntervention ---------------------------
(* Two stops, episodes of two steps with one pause, resumes. *)
EXTENDS Intervention, TLC

CONSTANTS s1, s2

MCStops == {s1, s2}
Symmetry == Permutations(MCStops)
=============================================================================
