------------------------------ MODULE MCRunner ------------------------------
(* Instances of Runner for TLC.  Runs are interchangeable.                 *)
EXTENDS Runner, TLC

(* The automatic limit is 2 cents; the window closes after one tick.       *)
MCRefundPolicy == [limit |-> 2, window |-> 1]

Symmetry == Permutations(Runs)
=============================================================================
