----------------------------- MODULE MCExecutor -----------------------------
(* Instances of Executor for TLC.  Runs are interchangeable.               *)
EXTENDS Executor, TLC

Symmetry == Permutations(Runs)
=============================================================================
