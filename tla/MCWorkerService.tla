-------------------------- MODULE MCWorkerService --------------------------
(***************************************************************************)
(* Instances of WorkerService for TLC: interchangeable requests and jobs.  *)
(***************************************************************************)
EXTENDS WorkerService, TLC

Symmetry == Permutations(Runs) \cup Permutations(Stops) \cup Permutations(Jobs)
=============================================================================
