-------------------------- MODULE MCCommandChannel --------------------------
(* CommandChannel with a few commands of either kind. *)
EXTENDS CommandChannel, TLC

CONSTANTS c1, c2

Symmetry == Permutations(Ids)
=============================================================================
