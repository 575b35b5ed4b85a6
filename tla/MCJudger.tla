------------------------------ MODULE MCJudger ------------------------------
(***************************************************************************)
(* Judger for TLC.                                                         *)
(***************************************************************************)
EXTENDS Judger, TLC

\* The solutions are alike and so are the cores.
Symmetry == Permutations(Solutions) \cup Permutations(Cores)

Stopping == IF main \in {"run", "down"} THEN 0 ELSE 1

\* One disturbance at a time: a failed query or removal, the death of the
\* process, or a stop.  A judger that was started again is not stopped again.
Bounds == /\ count.failure + count.crash + Stopping <= 1
          /\ count.restart > 0 => main = "run"
=============================================================================
