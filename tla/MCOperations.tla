----------------------------- MODULE MCOperations -----------------------------
(* Operations for TLC: two batches of three members that interleave in order.*)
EXTENDS Operations, TLC

MCBatches == {{1, 4, 5}, {2, 3, 6}}
Symmetry == Permutations(Ops)
=============================================================================
