---------------------------- MODULE JudgeService ----------------------------
(***************************************************************************)
(* What the judger promises the web site that shares its database: the     *)
(* life of one row of the solution table.  A row that waits is accepted    *)
(* once, is being judged by one task, and receives one verdict from it,    *)
(* unless that task is lost.                                               *)
(***************************************************************************)
CONSTANTS Solutions, Verdicts

VARIABLES result,  \* the column result of the row, "none" before it exists
          open     \* the rows a task is being judged for

vars == <<result, open>>

Waiting == {"PENDING", "REJUDGE"}

Init == /\ result = [s \in Solutions |-> "none"]
        /\ open = {}

Set(s, r) == result' = [result EXCEPT ![s] = r]

Submit(s) == result[s] = "none" /\ Set(s, "PENDING") /\ UNCHANGED open

\* A judged row may be judged again, and so may one whose task was lost.
Rejudge(s) == /\ result[s] \in Verdicts \/ (result[s] = "COMPILING" /\ s \notin open)
              /\ Set(s, "REJUDGE")
              /\ UNCHANGED open

Accept(s) == /\ result[s] \in Waiting
             /\ s \notin open
             /\ Set(s, "COMPILING")
             /\ open' = open \cup {s}

Publish(s) == /\ s \in open
              /\ result[s] = "COMPILING"
              /\ \E v \in Verdicts : Set(s, v)
              /\ open' = open \ {s}

\* Tasks vanish: one whose verdict could not be stored, all of them when the
\* process ends.
Lose == \E lost \in SUBSET open : open' = open \ lost /\ UNCHANGED result

Next == \/ \E s \in Solutions : Submit(s) \/ Rejudge(s) \/ Accept(s) \/ Publish(s)
        \/ Lose

Spec == Init /\ [][Next]_vars
=============================================================================
