---------------------------- MODULE MCDiskBudget ----------------------------
(* DiskBudget on small instances: a few units of bytes, two processes. *)
EXTENDS DiskBudget, FiniteSetsExt, TLC

CONSTANTS p1, p2, k1, k2

Symmetry == Permutations(Procs) \cup Permutations(Keys)

\* SumOf is the library's sum.
ASSUME SumAssumption ==
    \A S \in SUBSET (1..3) : \A f \in [S -> 0..3] : SumOf(f) = MapThenSumSet(LAMBDA x : f[x], S)
=============================================================================
