---------------------------- MODULE MCJobManager ----------------------------
(***************************************************************************)
(* Instances of JobManager for TLC: interchangeable workers.               *)
(***************************************************************************)
EXTENDS JobManager, TLC

Symmetry == Permutations(Workers)
=============================================================================
