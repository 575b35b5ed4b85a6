----------------------------- MODULE Judgement -----------------------------
(***************************************************************************)
(* What JudgeCore::judge promises the pipeline that calls it on a task:    *)
(* one verdict, settled before the task is handed on and never changed,    *)
(* and a clean-up that either fails or leaves neither of the two files     *)
(* behind that outlive a step of the judgement, the code and the exe file. *)
(***************************************************************************)
CONSTANT Verdicts

VARIABLES stage,    \* "judge", "finish", "clean", then "done" or "failed"
          verdict,  \* "none" while it judges
          left      \* which of the two files exist

vars == <<stage, verdict, left>>

Init == /\ stage = "judge"
        /\ verdict = "none"
        /\ left \in {{}, {"code"}}

\* Without the code file nothing is compiled; without an exe file nothing ran.
Decide ==
    /\ stage = "judge"
    /\ stage' = "finish"
    /\ \E v \in Verdicts, made \in SUBSET {"exe"} :
         /\ "code" \notin left => v = "SYSTEM" /\ made = {}
         /\ made = {} => v \in {"SYSTEM", "COMPLIE"}
         /\ verdict' = v
         /\ left' = left \cup made

Finish == stage = "finish" /\ stage' = "clean" /\ UNCHANGED <<verdict, left>>

\* A compiler that was given up writes the exe file after all.
Linger == /\ stage \in {"finish", "clean", "failed"}
          /\ verdict = "COMPLIE"
          /\ left' = left \cup {"exe"}
          /\ UNCHANGED <<stage, verdict>>

RemoveCode == /\ stage = "clean"
              /\ left' = left \ {"code"}
              /\ UNCHANGED <<stage, verdict>>

\* The exe file is the last one: from now on nobody writes.
RemoveExe == /\ stage = "clean"
             /\ "code" \notin left
             /\ left' = {}
             /\ stage' = "done"
             /\ UNCHANGED verdict

GiveUp == stage = "clean" /\ stage' = "failed" /\ UNCHANGED <<verdict, left>>

Next == Decide \/ Finish \/ Linger \/ RemoveCode \/ RemoveExe \/ GiveUp

Spec == Init /\ [][Next]_vars
=============================================================================
