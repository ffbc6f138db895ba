----------------------------- MODULE MCEvaluator -----------------------------
(* Instances of Evaluator for TLC.                                         *)
EXTENDS Evaluator, TLC

(* The automatic limit is 2 cents; the window closes after one tick.       *)
MCRefundPolicy == [limit |-> 2, window |-> 1]

Calm ==
    [reads |-> [n \in ReadNames |-> 0], changes |-> [a \in ActionName |-> 0],
     times |-> [a \in ActionName |-> 1], losses |-> [a \in ActionName |-> 0]]

(* One read tool fails once, or for good; two edits before a commit, once  *)
(* or at every attempt; responses lost, one or two per action; and one     *)
(* block with all three kinds.                                             *)
MCFailureSpecs ==
    {Calm}
    \cup { [Calm EXCEPT !.reads[n] = k] : n \in {"order", "payment"}, k \in {1, 2} }
    \cup { [Calm EXCEPT !.changes = [a \in ActionName |-> 1],
                        !.times = [a \in ActionName |-> k]] : k \in {1, 2} }
    \cup { [Calm EXCEPT !.losses = [a \in ActionName |-> k]] : k \in {1, 2} }
    \cup { [Calm EXCEPT !.reads = [n \in ReadNames |-> 1],
                        !.changes = [a \in ActionName |-> 2],
                        !.losses = [a \in ActionName |-> 1]] }

(* A replan that succeeds needs one edit before the first commit.          *)
MCOneEdit == { [Calm EXCEPT !.changes = [a \in ActionName |-> 1]] }
=============================================================================
