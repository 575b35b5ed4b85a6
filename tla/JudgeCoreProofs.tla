-------------------------- MODULE JudgeCoreProofs ---------------------------
(***************************************************************************)
(* What a judgement reports and leaves behind, for any numbers of tests,   *)
(* any use of time and memory and any number of attempts to remove a file. *)
(* What the matcher can say (Matches) is left open.                        *)
(*                                                                         *)
(* The argument: the loop keeps one record per run, and i, ok, accepted,   *)
(* maxTime and maxMemory sum up the records (Loop, Counted, Largests); the *)
(* files before target in CleanOrder are gone for good, because a compiler *)
(* that still runs holds its output file (Held) and nothing behind that    *)
(* file is removed before it (Cleaned).  With the files a judgement has at *)
(* each step (Handling) it implements Judgement.                           *)
(***************************************************************************)
EXTENDS JudgeCore, FiniteSetTheorems, TLAPS

Record == [verdict : Verdicts \cup {"ok"}, time : Nat, memory : Nat]

(***************************************************************************)
(* The parts of the type invariant.                                        *)
(***************************************************************************)
StagesOK == /\ at \in {"compile", "run", "match", "remove", "publish", "clean", "done"}
            /\ returned \in {"nothing", "true", "false"}
            /\ published \in BOOLEAN /\ ok \in BOOLEAN /\ supported \in BOOLEAN
TaskOK   == task \in [result : {"PENDING"} \cup Verdicts, passed : Nat, time : Nat,
                      memory : Nat]
RunsOK   == runs \in Seq(Record)
FilesOK  == /\ files \in SUBSET WorkFiles
            /\ compiler \in {"none", "running", "ended"}
            /\ attempt \in 1 .. Attempts
            /\ target \in 1 .. 4
CountsOK == /\ tests \in TestCounts /\ tests \in Nat
            /\ i \in Nat /\ (tests > 0 => i < tests)
            /\ accepted \in 0 .. i + 1
            /\ maxTime \in Nat /\ maxMemory \in Nat

Types == StagesOK /\ TaskOK /\ RunsOK /\ FilesOK /\ CountsOK

\* Where the loop is: how many runs it has recorded, and of what.
Loop ==
    /\ at = "compile"
         => runs = <<>> /\ i = 0 /\ accepted = 0 /\ maxTime = 0 /\ maxMemory = 0
    /\ at \in {"run", "match", "remove"} => tests > 0
    /\ at = "run" => Len(runs) = i /\ accepted <= i
    /\ at \in {"match", "remove"} => Len(runs) = i + 1
    /\ at = "match" => ok /\ accepted <= i

LEMMA ConstantFacts ==
    /\ TestCounts \subseteq Nat /\ MaxUse \in Nat /\ Attempts \in Nat \ {0}
    /\ {"TIME", "MEMORY", "RUNTIME", "SYSTEM", "COMPLIE"} \subseteq Verdicts
    /\ Matches \subseteq Verdicts
    /\ RunEnds \subseteq Verdicts \cup {"ok"} /\ "ACCEPT" \notin RunEnds
    /\ Len(CleanOrder) = 4
    /\ CleanOrder[1] = "code" /\ CleanOrder[2] = "txt"
    /\ CleanOrder[3] = "out" /\ CleanOrder[4] = "exe"
BY TestCountsAssumption, MaxUseAssumption, AttemptsAssumption
   DEF Verdicts, RunEnds, CleanOrder

LEMMA TypesAreOK == Types => TypeOK
BY ConstantFacts
   DEF Types, StagesOK, TaskOK, RunsOK, Record, FilesOK, CountsOK, TypeOK

-----------------------------------------------------------------------------
(***************************************************************************)
(* The steps of judge, by what they do to the loop.                        *)
(***************************************************************************)
Gives(verdict) == at' = "publish" /\ task' = [task EXCEPT !.result = verdict]

\* Compiling ends the judgement with a verdict or starts the loop.
LEMMA CompileStep ==
    ASSUME NoCodeFile \/ NoCompiler \/ CompilerNotCreated \/ CompilerRejects
             \/ CompilerTimesOut \/ CompilerSucceeds
    PROVE  /\ at = "compile"
           /\ \/ Gives("SYSTEM") \/ Gives("COMPLIE")
              \/ at' = "run" /\ task' = task /\ tests # 0
           /\ UNCHANGED <<tests, supported, loopVars, attempt, target, published,
                          returned>>
           /\ files' \in {files, files \cup {"txt"}, files \cup {"txt", "exe"}}
           /\ \/ compiler' \in {compiler, "ended"}
              \/ compiler' = "running" /\ "txt" \in files'
BY DEF NoCodeFile, NoCompiler, CompilerNotCreated, CompilerRejects, CompilerTimesOut,
       CompilerSucceeds, Compiling, CompileFails, CompileUnchanged, Gives

\* The other steps, where they are and what they leave alone.
LEMMA StayingSteps ==
    /\ CompilerLingers \/ OutputRefused \/ FileRefused
         => UNCHANGED <<at, taskVars, loopVars, target, published, returned>>
    /\ Publish => /\ at = "publish" /\ at' = "clean"
                  /\ UNCHANGED <<taskVars, loopVars, fileVars, returned>>
    /\ FileRemoved \/ FileStuck
         => /\ at = "clean" /\ at' \in {"clean", "done"}
            /\ UNCHANGED <<taskVars, loopVars, published>>
BY DEF CompilerLingers, OutputRefused, FileRefused, Refused, Publish, FileRemoved,
       FileStuck

-----------------------------------------------------------------------------
LEMMA InitTypes == Init => Types /\ Loop
<1> SUFFICES ASSUME Init PROVE Types /\ Loop
  OBVIOUS
<1>1. StagesOK /\ TaskOK
  BY DEF Init, StagesOK, TaskOK
<1>2. RunsOK
  BY DEF Init, RunsOK
<1>3. FilesOK
  BY ConstantFacts DEF Init, FilesOK, WorkFiles
<1>4. CountsOK
  BY ConstantFacts DEF Init, CountsOK
<1>5. Loop
  BY ConstantFacts DEF Init, Loop
<1> QED
  BY <1>1, <1>2, <1>3, <1>4, <1>5 DEF Types

LEMMA LargerType ==
    ASSUME NEW a \in Nat, NEW b \in Nat
    PROVE  /\ Larger(a, b) \in Nat
           /\ Larger(a, b) >= a /\ Larger(a, b) >= b
           /\ Larger(a, b) = a \/ Larger(a, b) = b
BY DEF Larger

LEMMA StepStages == Types /\ Next => StagesOK'
<1> SUFFICES ASSUME Types, Next PROVE StagesOK'
  OBVIOUS
<1>0. StagesOK
  BY DEF Types
<1>1. CASE NoCodeFile \/ NoCompiler \/ CompilerNotCreated \/ CompilerRejects
             \/ CompilerTimesOut \/ CompilerSucceeds
  BY <1>0, <1>1, CompileStep DEF Gives, loopVars, StagesOK
<1>2. CASE CompilerLingers \/ OutputRefused \/ FileRefused
  BY <1>0, <1>2, StayingSteps DEF taskVars, loopVars, StagesOK
<1>3. CASE Run \/ Match
  BY <1>0, <1>3 DEF Run, Match, StagesOK
<1>4. CASE OutputRemoved \/ OutputStuck
  BY <1>0, <1>4 DEF OutputRemoved, OutputStuck, loopVars, StagesOK
<1>5. CASE Publish \/ FileRemoved \/ FileStuck
  BY <1>0, <1>5 DEF Publish, FileRemoved, FileStuck, taskVars, loopVars, StagesOK
<1> QED
  BY <1>1, <1>2, <1>3, <1>4, <1>5 DEF Next, Judge

LEMMA StepTask == Types /\ Next => TaskOK'
<1> SUFFICES ASSUME Types, Next PROVE TaskOK'
  OBVIOUS
<1>0. TaskOK /\ accepted \in Nat /\ maxTime \in Nat /\ maxMemory \in Nat
  BY DEF Types, CountsOK
<1>1. CASE NoCodeFile \/ NoCompiler \/ CompilerNotCreated \/ CompilerRejects
             \/ CompilerTimesOut \/ CompilerSucceeds
  BY <1>0, <1>1, CompileStep, ConstantFacts DEF Gives, TaskOK
<1>2. CASE \/ CompilerLingers \/ OutputRefused \/ FileRefused
           \/ Publish \/ FileRemoved \/ FileStuck
  BY <1>0, <1>2, StayingSteps DEF taskVars, TaskOK
<1>3. CASE Run
  <2>1. PICK end \in RunEnds, time \in 0 .. MaxUse, memory \in 0 .. MaxUse :
          /\ end = "SYSTEM" => time = task.time /\ memory = task.memory
          /\ ok' = (end = "ok")
          /\ task' = [task EXCEPT !.time = time, !.memory = memory,
                                  !.result = IF end = "ok" THEN @ ELSE end]
          /\ runs' = Append(runs, [verdict |-> end, time |-> time, memory |-> memory])
          /\ at' = IF end = "ok" THEN "match" ELSE "remove"
    BY ONLY <1>3, Zenon DEF Run
  <2>2. end = "ok" \/ end \in Verdicts
    BY ConstantFacts
  <2>3. time \in Nat /\ memory \in Nat
    BY ConstantFacts
  <2> QED
    BY <1>0, <2>1, <2>2, <2>3 DEF TaskOK
<1>4. CASE Match
  BY <1>0, <1>4, ConstantFacts DEF Match, TaskOK
<1>5. CASE OutputRemoved
  <2>1. maxTime' \in Nat /\ maxMemory' \in Nat
    BY <1>0, <1>5, LargerType DEF OutputRemoved, TaskOK
  <2> QED
    BY <1>0, <1>5, <2>1 DEF OutputRemoved, TaskOK
<1>6. CASE OutputStuck
  BY <1>0, <1>6, ConstantFacts DEF OutputStuck, TaskOK
<1> QED
  BY <1>1, <1>2, <1>3, <1>4, <1>5, <1>6 DEF Next, Judge

\* What Run and Match write into runs.
LEMMA RunsStep ==
    ASSUME Types, Loop
    PROVE  /\ Run => \E end \in RunEnds, time, memory \in Nat :
                       /\ ok' = (end = "ok")
                       /\ runs' = Append(runs, [verdict |-> end, time |-> time,
                                                memory |-> memory])
                       /\ task'.time = time /\ task'.memory = memory
                       /\ task'.result = IF end = "ok" THEN task.result ELSE end
                       /\ at' = IF end = "ok" THEN "match" ELSE "remove"
           /\ Match => \E v \in Matches :
                         /\ task' = [task EXCEPT !.result = v]
                         /\ accepted' = IF v = "ACCEPT" THEN accepted + 1 ELSE accepted
                         /\ runs' = [runs EXCEPT ![i + 1].verdict = v]
<1>1. ASSUME Run
      PROVE  \E end \in RunEnds, time, memory \in Nat :
               /\ ok' = (end = "ok")
               /\ runs' = Append(runs, [verdict |-> end, time |-> time, memory |-> memory])
               /\ task'.time = time /\ task'.memory = memory
               /\ task'.result = IF end = "ok" THEN task.result ELSE end
               /\ at' = IF end = "ok" THEN "match" ELSE "remove"
  <2>1. PICK end \in RunEnds, time \in 0 .. MaxUse, memory \in 0 .. MaxUse :
          /\ ok' = (end = "ok")
          /\ runs' = Append(runs, [verdict |-> end, time |-> time, memory |-> memory])
          /\ task' = [task EXCEPT !.time = time, !.memory = memory,
                                  !.result = IF end = "ok" THEN @ ELSE end]
          /\ at' = IF end = "ok" THEN "match" ELSE "remove"
    BY <1>1 DEF Run
  <2>2. time \in Nat /\ memory \in Nat
    BY ConstantFacts
  <2>3. /\ task'.time = time /\ task'.memory = memory
        /\ task'.result = IF end = "ok" THEN task.result ELSE end
    BY <2>1 DEF Types, TaskOK
  <2> QED
    BY <2>1, <2>2, <2>3
<1>2. ASSUME Match
      PROVE  \E v \in Matches : /\ task' = [task EXCEPT !.result = v]
                                /\ accepted' = IF v = "ACCEPT" THEN accepted + 1 ELSE accepted
                                /\ runs' = [runs EXCEPT ![i + 1].verdict = v]
  BY <1>2 DEF Match, Loop
<1> QED
  BY <1>1, <1>2

LEMMA StepRuns == Types /\ Loop /\ Next => RunsOK'
<1> SUFFICES ASSUME Types, Loop, Next PROVE RunsOK'
  OBVIOUS
<1>0. runs \in Seq(Record)
  BY DEF Types, RunsOK
<1>1. CASE Run
  <2>1. PICK end \in RunEnds, time \in Nat, memory \in Nat :
          runs' = Append(runs, [verdict |-> end, time |-> time, memory |-> memory])
    BY <1>1, RunsStep
  <2>2. [verdict |-> end, time |-> time, memory |-> memory] \in Record
    BY ConstantFacts DEF Record
  <2> QED
    BY <1>0, <2>1, <2>2 DEF RunsOK
<1>2. CASE Match
  <2>1. PICK v \in Matches : runs' = [runs EXCEPT ![i + 1].verdict = v]
    BY <1>2, RunsStep
  <2>2. i + 1 \in 1 .. Len(runs)
    BY <1>2 DEF Match, Loop, Types, CountsOK
  <2>3. [runs[i + 1] EXCEPT !.verdict = v] \in Record
    <3>1. runs[i + 1] \in Record
      BY <1>0, <2>2
    <3>2. v \in Verdicts \cup {"ok"}
      BY ConstantFacts
    <3> QED
      BY <3>1, <3>2 DEF Record
  <2>4. runs' = [runs EXCEPT ![i + 1] = [runs[i + 1] EXCEPT !.verdict = v]]
    BY <1>0, <2>1, <2>2
  <2> QED
    BY <1>0, <2>2, <2>3, <2>4 DEF RunsOK
<1>3. CASE ~Run /\ ~Match
  <2>1. runs' = runs
    BY <1>3, CompileStep, StayingSteps
       DEF Next, Judge, loopVars, OutputRemoved, OutputStuck
  <2> QED
    BY <1>0, <2>1 DEF RunsOK
<1> QED
  BY <1>1, <1>2, <1>3

\* The records that Run and Match leave behind: one more, or the last one changed.
LEMMA RunAppends ==
    ASSUME Types, Loop, Run
    PROVE  /\ at = "run" /\ Len(runs') = i + 1
           /\ \A r \in 1 .. i : runs'[r] = runs[r]
           /\ runs'[i + 1].time = task'.time /\ runs'[i + 1].memory = task'.memory
           /\ runs'[i + 1].verdict \in RunEnds
           /\ \/ at' = "match" /\ ok' /\ runs'[i + 1].verdict = "ok"
              \/ at' = "remove" /\ ~ok' /\ task'.result = runs'[i + 1].verdict
<1>0. at = "run" /\ Len(runs) = i /\ i \in Nat /\ runs \in Seq(Record)
  BY DEF Run, Loop, Types, CountsOK, RunsOK
<1>1. PICK end \in RunEnds, time \in Nat, memory \in Nat :
        /\ ok' = (end = "ok")
        /\ runs' = Append(runs, [verdict |-> end, time |-> time, memory |-> memory])
        /\ task'.time = time /\ task'.memory = memory
        /\ task'.result = IF end = "ok" THEN task.result ELSE end
        /\ at' = IF end = "ok" THEN "match" ELSE "remove"
  BY RunsStep
<1> DEFINE record == [verdict |-> end, time |-> time, memory |-> memory]
<1>2. record \in Record
  BY ConstantFacts DEF Record
<1>3. record.verdict = end /\ record.time = time /\ record.memory = memory
  OBVIOUS
<1> HIDE DEF record
<1>4. runs' = Append(runs, record)
  BY <1>1 DEF record
<1>5. /\ Len(runs') = i + 1 /\ runs'[i + 1] = record
      /\ \A r \in 1 .. i : runs'[r] = runs[r]
  BY <1>0, <1>2, <1>4
<1> QED
  BY <1>0, <1>1, <1>3, <1>5

LEMMA MatchChanges ==
    ASSUME Types, Loop, Match
    PROVE  /\ at = "match" /\ at' = "remove" /\ Len(runs') = i + 1 /\ Len(runs) = i + 1
           /\ \A r \in 1 .. i : runs'[r] = runs[r]
           /\ runs'[i + 1].time = runs[i + 1].time /\ runs'[i + 1].memory = runs[i + 1].memory
           /\ runs'[i + 1].verdict \in Matches
           /\ task' = [task EXCEPT !.result = runs'[i + 1].verdict]
           /\ accepted' = IF runs'[i + 1].verdict = "ACCEPT" THEN accepted + 1 ELSE accepted
<1>0. /\ at = "match" /\ at' = "remove" /\ Len(runs) = i + 1 /\ i \in Nat
      /\ runs \in Seq(Record)
  BY DEF Match, Loop, Types, CountsOK, RunsOK
<1>1. PICK v \in Matches :
        /\ task' = [task EXCEPT !.result = v]
        /\ accepted' = IF v = "ACCEPT" THEN accepted + 1 ELSE accepted
        /\ runs' = [runs EXCEPT ![i + 1].verdict = v]
  BY RunsStep
<1> DEFINE record == [runs[i + 1] EXCEPT !.verdict = v]
<1>2. i + 1 \in 1 .. Len(runs) /\ runs[i + 1] \in Record
  BY <1>0
<1>3. v \in Verdicts \cup {"ok"}
  BY ConstantFacts
<1>4. /\ record \in Record /\ record.verdict = v
      /\ record.time = runs[i + 1].time /\ record.memory = runs[i + 1].memory
  BY <1>2, <1>3 DEF Record
<1>5. runs' = [runs EXCEPT ![i + 1] = record]
  BY <1>0, <1>1
<1> HIDE DEF record
<1>6. /\ Len(runs') = Len(runs) /\ runs'[i + 1] = record
      /\ \A r \in 1 .. i : runs'[r] = runs[r]
  BY <1>0, <1>2, <1>4, <1>5
<1> QED
  BY <1>0, <1>1, <1>4, <1>6

LEMMA StepFiles == Types /\ Next => FilesOK'
<1> SUFFICES ASSUME Types, Next PROVE FilesOK'
  OBVIOUS
<1>0. /\ FilesOK /\ Attempts \in 1 .. Attempts
      /\ \A n \in 1 .. Attempts : n > 1 => n - 1 \in 1 .. Attempts
  BY ConstantFacts DEF Types
<1>1. CASE NoCodeFile \/ NoCompiler \/ CompilerNotCreated \/ CompilerRejects
             \/ CompilerTimesOut \/ CompilerSucceeds
  BY <1>0, <1>1, CompileStep DEF FilesOK, WorkFiles
<1>2. CASE CompilerLingers
  BY <1>0, <1>2 DEF CompilerLingers, FilesOK, WorkFiles
<1>3. CASE Run \/ Match \/ Publish
  BY <1>0, <1>3 DEF Run, Match, Publish, fileVars, FilesOK, WorkFiles
<1>4. CASE OutputRemoved \/ OutputStuck \/ OutputRefused
  BY <1>0, <1>4 DEF OutputRemoved, OutputStuck, OutputRefused, Removed, GivenUp, Refused,
                    FilesOK
<1>5. CASE FileRemoved
  <2>1. target' \in 1 .. 4
    BY <1>0, <1>5, ConstantFacts DEF FileRemoved, FilesOK
  <2> QED
    BY <1>0, <1>5, <2>1 DEF FileRemoved, Removed, FilesOK
<1>6. CASE FileStuck \/ FileRefused
  BY <1>0, <1>6 DEF FileStuck, FileRefused, GivenUp, Refused, FilesOK
<1> QED
  BY <1>1, <1>2, <1>3, <1>4, <1>5, <1>6 DEF Next, Judge

LEMMA StepCounts == Types /\ Loop /\ Next => CountsOK' /\ Loop'
<1> SUFFICES ASSUME Types, Loop, Next PROVE CountsOK' /\ Loop'
  OBVIOUS
<1>0. CountsOK /\ TaskOK /\ runs \in Seq(Record) /\ Len(runs) \in Nat
  BY DEF Types, RunsOK
<1>1. CASE NoCodeFile \/ NoCompiler \/ CompilerNotCreated \/ CompilerRejects
             \/ CompilerTimesOut \/ CompilerSucceeds
  BY <1>0, <1>1, CompileStep DEF Gives, loopVars, CountsOK, Loop
<1>2. CASE CompilerLingers \/ OutputRefused \/ FileRefused
  BY <1>0, <1>2, StayingSteps DEF taskVars, loopVars, CountsOK, Loop
<1>3. CASE Publish \/ FileRemoved \/ FileStuck
  BY <1>0, <1>3, StayingSteps DEF taskVars, loopVars, CountsOK, Loop
<1>4. CASE Run
  <2>1. /\ at = "run" /\ Len(runs') = i + 1
        /\ (at' = "match" /\ ok') \/ at' = "remove"
    BY <1>4, RunAppends
  <2>2. UNCHANGED <<tests, i, accepted, maxTime, maxMemory>>
    BY <1>4 DEF Run
  <2> QED
    BY <1>0, <2>1, <2>2 DEF CountsOK, Loop
<1>5. CASE Match
  <2>1. /\ at = "match" /\ at' = "remove" /\ accepted' \in {accepted, accepted + 1}
        /\ UNCHANGED <<tests, i, maxTime, maxMemory>>
    BY <1>5 DEF Match
  <2>2. Len(runs') = Len(runs)
    BY <1>5, MatchChanges
  <2> QED
    BY <1>0, <2>1, <2>2 DEF CountsOK, Loop
<1>6. CASE OutputRemoved
  <2>1. maxTime' \in Nat /\ maxMemory' \in Nat
    BY <1>0, <1>6, LargerType DEF OutputRemoved, TaskOK, CountsOK
  <2>2. /\ at = "remove" /\ UNCHANGED <<tests, accepted, runs>>
        /\ \/ at' = "run" /\ i + 1 < tests /\ i' = i + 1
           \/ at' = "publish" /\ i' = i
    BY <1>6 DEF OutputRemoved
  <2> QED
    BY <1>0, <2>1, <2>2 DEF CountsOK, Loop
<1>7. CASE OutputStuck
  BY <1>0, <1>7 DEF OutputStuck, loopVars, CountsOK, Loop
<1> QED
  BY <1>1, <1>2, <1>3, <1>4, <1>5, <1>6, <1>7 DEF Next, Judge

LEMMA StepTypes == Types /\ Loop /\ [Next]_vars => Types' /\ Loop'
<1> SUFFICES ASSUME Types, Loop, [Next]_vars PROVE Types' /\ Loop'
  OBVIOUS
<1>1. CASE Next
  BY <1>1, StepStages, StepTask, StepRuns, StepFiles, StepCounts DEF Types
<1>2. CASE UNCHANGED vars
  BY <1>2 DEF vars, taskVars, loopVars, fileVars, Types, StagesOK, TaskOK, RunsOK, FilesOK,
              CountsOK, Loop
<1> QED
  BY <1>1, <1>2

LEMMA AlwaysTypes == Spec => [](Types /\ Loop)
BY InitTypes, StepTypes, PTL DEF Spec

\* Every variable keeps its type: the test index stays below the number of
\* tests, no more tests are accepted than were run, no removal is tried more
\* often than Attempts.
THEOREM TypeCorrect == Spec => []TypeOK
BY AlwaysTypes, TypesAreOK, PTL

-----------------------------------------------------------------------------
\* A task is published once, and nothing but the clean-up follows.
PublishedLast == published => at \in {"clean", "done"}

LEMMA StepPublished == PublishedLast /\ [Next]_vars => PublishedLast'
<1> SUFFICES ASSUME PublishedLast, [Next]_vars PROVE PublishedLast'
  OBVIOUS
<1>1. CASE NoCodeFile \/ NoCompiler \/ CompilerNotCreated \/ CompilerRejects
             \/ CompilerTimesOut \/ CompilerSucceeds
  BY <1>1, CompileStep DEF PublishedLast
<1>2. CASE CompilerLingers \/ OutputRefused \/ FileRefused
  BY <1>2, StayingSteps DEF PublishedLast
<1>3. CASE Publish \/ FileRemoved \/ FileStuck
  BY <1>3, StayingSteps DEF PublishedLast
<1>4. CASE Run \/ Match \/ OutputRemoved \/ OutputStuck
  BY <1>4 DEF Run, Match, OutputRemoved, OutputStuck, PublishedLast
<1>5. CASE UNCHANGED vars
  BY <1>5 DEF vars, PublishedLast
<1> QED
  BY <1>1, <1>2, <1>3, <1>4, <1>5 DEF Next, Judge

LEMMA StepIsFinal == PublishedLast /\ [Next]_vars => (published => task' = task)
<1> SUFFICES ASSUME PublishedLast, [Next]_vars, published PROVE task' = task
  OBVIOUS
<1>1. at \in {"clean", "done"}
  BY DEF PublishedLast
<1>2. CASE \/ CompilerLingers \/ OutputRefused \/ Publish
           \/ FileRemoved \/ FileStuck \/ FileRefused
  BY <1>2, StayingSteps DEF taskVars
<1>3. CASE UNCHANGED vars
  BY <1>3 DEF vars, taskVars
<1> QED
  BY <1>1, <1>2, <1>3, CompileStep DEF Next, Judge, Run, Match, OutputRemoved, OutputStuck

\* Once onTaskFinish has handed the task to the writer thread, doCleanUp never
\* writes to it: the writer reads it without a lock while the core goes on.
THEOREM PublishedIsFinal == Spec => PublishedTaskIsFinal
<1>1. Init => PublishedLast
  BY DEF Init, PublishedLast
<1>2. PublishedLast /\ [Next]_vars => [published => task' = task]_vars
  BY StepIsFinal
<1> QED
  BY <1>1, <1>2, StepPublished, PTL DEF Spec, PublishedTaskIsFinal

-----------------------------------------------------------------------------
(***************************************************************************)
(* The clean-up.  A compiler that still runs holds its output file, which  *)
(* is therefore still there; when doCleanUp has passed that file, no       *)
(* compiler is left that could write the exe file again.                   *)
(***************************************************************************)
Cleaned ==
    /\ compiler = "running" => "txt" \in files
    /\ at \notin {"clean", "done"} => target = 1
    /\ at = "clean" => \A n \in 1 .. 4 : n < target => CleanOrder[n] \notin files
    /\ returned # "nothing" => at = "done"
    /\ returned = "true" => files = {} /\ compiler # "running"

LEMMA StepCleaned == Types /\ Cleaned /\ [Next]_vars => Cleaned'
<1> SUFFICES ASSUME Types, Cleaned, [Next]_vars PROVE Cleaned'
  OBVIOUS
<1>0. StagesOK /\ FilesOK
  BY DEF Types
<1>1. CASE NoCodeFile \/ NoCompiler \/ CompilerNotCreated \/ CompilerRejects
             \/ CompilerTimesOut \/ CompilerSucceeds
  <2>1. at = "compile" /\ at' \in {"publish", "run"} /\ target' = target
        /\ returned' = returned
    BY <1>1, CompileStep DEF Gives
  <2>2. compiler' = "running" => "txt" \in files'
    BY <1>0, <1>1, CompileStep DEF Cleaned
  <2> QED
    BY <1>0, <2>1, <2>2 DEF Cleaned
<1>2. CASE CompilerLingers
  <2>1. /\ compiler = "running" /\ files' \in {files, files \cup {"exe"}}
        /\ UNCHANGED <<at, target, returned>>
    BY <1>2 DEF CompilerLingers
  \* The compiler's output is there, so target has not passed it.
  <2>2. at = "clean" => target \in {1, 2}
    BY <1>0, <2>1, ConstantFacts DEF Cleaned, FilesOK
  <2>3. at = "clean" => \A n \in 1 .. 4 : n < target => CleanOrder[n] \notin files'
    BY <2>1, <2>2, ConstantFacts DEF Cleaned
  <2> QED
    BY <2>1, <2>3 DEF Cleaned
<1>3. CASE Run \/ Match \/ Publish
  <2>1. /\ at \notin {"clean", "done"} /\ at' # "done"
        /\ UNCHANGED <<target, compiler, returned>>
        /\ files' \in {files, files \cup {"out"}}
    BY <1>3 DEF Run, Match, Publish, fileVars
  <2>2. target = 1
    BY <2>1 DEF Cleaned
  <2> QED
    BY <2>1, <2>2 DEF Cleaned
<1>4. CASE OutputRemoved \/ OutputStuck
  <2>1. /\ at = "remove" /\ at' \in {"run", "publish"}
        /\ UNCHANGED <<target, compiler, returned>>
        /\ files' \in {files, files \ {"out"}}
    BY <1>4 DEF OutputRemoved, OutputStuck, Removed, GivenUp, loopVars
  <2> QED
    BY <2>1 DEF Cleaned
<1>5. CASE OutputRefused \/ FileRefused
  BY <1>5 DEF OutputRefused, FileRefused, Refused, Cleaned
<1>6. CASE FileRemoved
  <2>1. /\ at = "clean" /\ compiler' = compiler /\ target \in 1 .. 4
        /\ files' = files \ {CleanOrder[target]}
        /\ ~(CleanOrder[target] \in files /\ Held(CleanOrder[target]))
        /\ \/ target < 4 /\ target' = target + 1 /\ at' = at /\ returned' = returned
           \/ target = 4 /\ at' = "done" /\ returned' = "true" /\ target' = target
    BY <1>0, <1>6, ConstantFacts DEF FileRemoved, Removed, FilesOK
  <2>2. \A n \in 1 .. 4 : n <= target => CleanOrder[n] \notin files'
    BY <2>1 DEF Cleaned
  \* The compiler's own file cannot be removed while it runs.
  <2>3. compiler' = "running" => "txt" \in files'
    BY <2>1 DEF Cleaned, Held
  <2>4. CASE target < 4
    BY <2>1, <2>2, <2>3, <2>4 DEF Cleaned
  <2>5. CASE target = 4
    <3>1. {CleanOrder[n] : n \in 1 .. 4} = WorkFiles
      BY ConstantFacts DEF WorkFiles
    <3>2. files' = {}
      BY <1>0, <2>1, <2>2, <2>5, <3>1 DEF FilesOK
    <3> QED
      BY <2>1, <2>3, <2>5, <3>2 DEF Cleaned
  <2> QED
    BY <2>1, <2>4, <2>5
<1>7. CASE FileStuck
  BY <1>7 DEF FileStuck, GivenUp, Cleaned
<1>8. CASE UNCHANGED vars
  BY <1>8 DEF vars, fileVars, Cleaned
<1> QED
  BY <1>1, <1>2, <1>3, <1>4, <1>5, <1>6, <1>7, <1>8 DEF Next, Judge

\* A judgement that reports success leaves no work file behind, for any number
\* of attempts and tests: the order of doCleanUp makes the compiler's output the
\* guard of the exe file, which a compiler that was not waited for may still
\* write.
THEOREM CleanUpComplete == Spec => []CleanUpIsComplete
<1>1. Init => Cleaned
  BY ConstantFacts DEF Init, Cleaned
<1>2. Cleaned => CleanUpIsComplete
  BY DEF Cleaned, CleanUpIsComplete
<1> QED
  BY <1>1, <1>2, AlwaysTypes, StepCleaned, PTL DEF Spec

-----------------------------------------------------------------------------
(***************************************************************************)
(* The result.  The tests before the current one matched or mismatched,    *)
(* none failed; the task carries the verdict on the current one as soon as *)
(* it is decided.                                                          *)
(***************************************************************************)
Decided ==
    /\ at \in {"run", "match", "remove"} => \A r \in 1 .. i : runs[r].verdict \in Matches
    /\ at = "match" => runs[i + 1].verdict = "ok"
    /\ at = "remove" => /\ task.result = runs[i + 1].verdict
                        /\ ok => runs[i + 1].verdict \in Matches

\* Compiling reaches the loop or the end without a run.
LEMMA CompileHasNoRuns ==
    ASSUME Types, Loop,
           NoCodeFile \/ NoCompiler \/ CompilerNotCreated \/ CompilerRejects
             \/ CompilerTimesOut \/ CompilerSucceeds
    PROVE  /\ runs' = <<>> /\ i' = 0 /\ at' \in {"run", "publish"}
           /\ runs = <<>> /\ UNCHANGED <<accepted, maxTime, maxMemory>>
           /\ i = 0 /\ maxTime = 0 /\ maxMemory = 0
BY CompileStep DEF Gives, loopVars, Loop

\* A lingering compiler does not bring the program's output back.
LEMMA LingersFinished ==
    CompilerLingers => (Finished' => Finished) /\ at' = at /\ runs' = runs /\ task' = task
                         /\ UNCHANGED <<i, ok, accepted, maxTime, maxMemory, tests>>
BY DEF CompilerLingers, Finished, taskVars, loopVars

\* OutputRemoved goes on after a run without a failure, or publishes.
LEMMA OutputRemovedSteps ==
    ASSUME Types, Loop, OutputRemoved
    PROVE  /\ at = "remove" /\ runs' = runs /\ Len(runs) = i + 1 /\ runs # <<>>
           /\ UNCHANGED <<accepted, ok, tests>>
           /\ maxTime' = Larger(maxTime, task.time)
           /\ maxMemory' = Larger(maxMemory, task.memory)
           /\ \/ at' = "run" /\ ok /\ i' = i + 1
              \/ /\ at' = "publish" /\ i' = i /\ (i + 1 = tests \/ ~ok)
                 /\ task'.result = task.result /\ task'.passed = accepted
                 /\ task'.time = maxTime' /\ task'.memory = maxMemory'
<1>1. /\ at = "remove" /\ Len(runs) = i + 1 /\ i \in Nat /\ tests \in Nat /\ i < tests
      /\ ok \in BOOLEAN /\ runs \in Seq(Record)
  BY DEF OutputRemoved, Loop, Types, CountsOK, StagesOK, RunsOK
<1>2. runs # <<>>
  BY <1>1
<1>3. CASE ok /\ i + 1 < tests
  BY <1>1, <1>2, <1>3 DEF OutputRemoved
<1>4. CASE ~(ok /\ i + 1 < tests)
  <2>1. /\ task' = [task EXCEPT !.passed = accepted, !.time = maxTime',
                                !.memory = maxMemory']
        /\ at' = "publish" /\ i' = i
    BY <1>4 DEF OutputRemoved
  <2>2. /\ task'.result = task.result /\ task'.passed = accepted
        /\ task'.time = maxTime' /\ task'.memory = maxMemory'
    BY <2>1 DEF Types, TaskOK
  <2> QED
    BY <1>1, <1>2, <1>4, <2>1, <2>2 DEF OutputRemoved
<1> QED
  BY <1>3, <1>4

LEMMA StepDecided ==
    Types /\ Loop /\ Decided /\ ResultIsOfLastTest /\ [Next]_vars
      => Decided' /\ ResultIsOfLastTest'
<1> SUFFICES ASSUME Types, Loop, Decided, ResultIsOfLastTest, [Next]_vars
             PROVE  Decided' /\ ResultIsOfLastTest'
  OBVIOUS
<1>0. i \in Nat /\ ok \in BOOLEAN /\ TaskOK
  BY DEF Types, CountsOK, StagesOK
<1>1. CASE NoCodeFile \/ NoCompiler \/ CompilerNotCreated \/ CompilerRejects
             \/ CompilerTimesOut \/ CompilerSucceeds
  BY <1>1, CompileHasNoRuns DEF Decided, ResultIsOfLastTest, Finished
<1>2. CASE CompilerLingers
  BY <1>2, LingersFinished DEF Decided, ResultIsOfLastTest, Last
<1>3. CASE Run
  <2>1. Decided'
    <3>1. /\ at = "run" /\ at' \in {"match", "remove"} /\ i' = i
          /\ \A r \in 1 .. i : runs'[r] = runs[r]
          /\ at' = "match" => runs'[i + 1].verdict = "ok"
          /\ at' = "remove" => ~ok' /\ task'.result = runs'[i + 1].verdict
      BY <1>3, RunAppends DEF Run
    <3> QED
      BY <3>1 DEF Decided
  <2>2. ~Finished'
    BY <1>3 DEF Run, Finished
  <2> QED
    BY <2>1, <2>2 DEF ResultIsOfLastTest
<1>4. CASE Match
  <2>1. /\ at = "match" /\ at' = "remove" /\ i' = i
        /\ \A r \in 1 .. i : runs'[r] = runs[r]
        /\ runs'[i + 1].verdict \in Matches
        /\ task' = [task EXCEPT !.result = runs'[i + 1].verdict]
    BY <1>4, MatchChanges DEF Match
  <2>2. task'.result = runs'[i + 1].verdict
    BY <1>0, <2>1 DEF TaskOK
  <2> QED
    BY <2>1, <2>2 DEF Decided, ResultIsOfLastTest, Finished
<1>5. CASE OutputRemoved
  <2>1. CASE at' = "run"
    <3>1. at = "remove" /\ runs' = runs /\ ok /\ i' = i + 1
      BY <1>5, <2>1, OutputRemovedSteps
    <3>2. \A r \in 1 .. i' : r \in 1 .. i \/ r = i + 1
      BY <1>0, <3>1
    <3> QED
      BY <2>1, <3>1, <3>2 DEF Decided, ResultIsOfLastTest, Finished
  <2>2. CASE at' = "publish"
    <3>1. /\ at = "remove" /\ runs' = runs /\ Len(runs) = i + 1 /\ i' = i
          /\ task'.result = task.result /\ (i + 1 = tests \/ ~ok)
          /\ UNCHANGED <<ok, tests>>
      BY <1>5, <2>2, OutputRemovedSteps
    <3>2. Len(runs) - 1 = i
      BY <1>0, <3>1
    <3> QED
      BY <2>2, <3>1, <3>2 DEF Decided, ResultIsOfLastTest, Last
  <2> QED
    BY <1>5, <2>1, <2>2, OutputRemovedSteps
<1>6. CASE OutputStuck
  BY <1>6 DEF OutputStuck, GivenUp, Decided, ResultIsOfLastTest, Finished
<1>7. CASE OutputRefused \/ FileRefused
  BY <1>7 DEF OutputRefused, FileRefused, Refused, taskVars, loopVars, Decided,
              ResultIsOfLastTest, Finished, Last
<1>8. CASE Publish \/ FileRemoved \/ FileStuck
  BY <1>8, StayingSteps DEF Decided, ResultIsOfLastTest, Finished
<1>9. CASE UNCHANGED vars
  BY <1>9 DEF vars, taskVars, loopVars, fileVars, Decided, ResultIsOfLastTest, Finished, Last
<1> QED
  BY <1>1, <1>2, <1>3, <1>4, <1>5, <1>6, <1>7, <1>8, <1>9 DEF Next, Judge

\* The published result is the verdict on the last test that was run, and all
\* tests were run unless the program failed on that one; no earlier test
\* failed, and a mismatch on one of them leaves no trace in the result.
THEOREM LastTestDecides == Spec => []ResultIsOfLastTest
<1>1. Init => Decided /\ ResultIsOfLastTest
  BY DEF Init, Decided, ResultIsOfLastTest, Finished
<1> QED
  BY <1>1, AlwaysTypes, StepDecided, PTL DEF Spec

-----------------------------------------------------------------------------
(***************************************************************************)
(* The report.  Top(m, S): m is the maximum that a loop which starts at 0  *)
(* and takes the larger value has reached after the values in S.           *)
(***************************************************************************)
Top(m, S)   == IF S = {} THEN m = 0 ELSE m \in S /\ \A y \in S : y <= m
Times(n)    == {runs[r].time : r \in 1 .. n}
Memories(n) == {runs[r].memory : r \in 1 .. n}

LEMMA TopGrows ==
    ASSUME NEW S \in SUBSET Nat, NEW m \in Nat, Top(m, S), NEW x \in Nat
    PROVE  Top(Larger(m, x), S \cup {x})
<1>1. CASE S = {}
  BY <1>1 DEF Top, Larger
<1>2. CASE S # {}
  <2>1. m \in S /\ \A y \in S : y <= m
    BY <1>2 DEF Top
  <2>2. /\ Larger(m, x) \in S \cup {x} /\ Larger(m, x) \in Nat
        /\ m <= Larger(m, x) /\ x <= Larger(m, x)
    BY <2>1, LargerType
  <2>3. ASSUME NEW y \in S \cup {x} PROVE y <= Larger(m, x)
    <3>1. y \in Nat /\ (y <= m \/ y = x)
      BY <2>1
    <3> QED
      BY <2>2, <3>1
  <2> QED
    BY <2>2, <2>3 DEF Top
<1> QED
  BY <1>1, <1>2

LEMMA TopIsLargest ==
    ASSUME NEW S \in SUBSET Nat, S # {}, NEW m, Top(m, S)
    PROVE  m = Largest(S)
<1>1. m \in S /\ \A y \in S : y <= m
  BY DEF Top
<1>2. Largest(S) \in S /\ \A y \in S : y <= Largest(S)
  BY <1>1 DEF Largest
<1>3. m \in Nat /\ Largest(S) \in Nat /\ m <= Largest(S) /\ Largest(S) <= m
  BY <1>1, <1>2
<1> QED
  BY <1>3

\* The records' use is a set of numbers, one value larger with each run.
LEMMA UseSets ==
    ASSUME Types
    PROVE  /\ \A n \in 0 .. Len(runs) :
                Times(n) \in SUBSET Nat /\ Memories(n) \in SUBSET Nat
           /\ \A n \in 0 .. Len(runs) - 1 :
                /\ Times(n + 1) = Times(n) \cup {runs[n + 1].time}
                /\ Memories(n + 1) = Memories(n) \cup {runs[n + 1].memory}
           /\ Times(0) = {} /\ Memories(0) = {}
           /\ \A n \in 1 .. Len(runs) : Times(n) # {} /\ Memories(n) # {}
<1>0. runs \in Seq(Record) /\ Len(runs) \in Nat
  BY DEF Types, RunsOK
<1>1. ASSUME NEW r \in 1 .. Len(runs)
      PROVE  runs[r].time \in Nat /\ runs[r].memory \in Nat
  <2>1. runs[r] \in Record
    BY <1>0
  <2> QED
    BY <2>1 DEF Record
<1>2. ASSUME NEW n \in 0 .. Len(runs)
      PROVE  Times(n) \in SUBSET Nat /\ Memories(n) \in SUBSET Nat
  BY <1>0, <1>1 DEF Times, Memories
<1>3. ASSUME NEW n \in 0 .. Len(runs) - 1
      PROVE  /\ Times(n + 1) = Times(n) \cup {runs[n + 1].time}
             /\ Memories(n + 1) = Memories(n) \cup {runs[n + 1].memory}
  <2>1. 1 .. n + 1 = (1 .. n) \cup {n + 1}
    BY <1>0
  <2> QED
    BY <2>1 DEF Times, Memories
<1>4. Times(0) = {} /\ Memories(0) = {}
  BY DEF Times, Memories
<1>5. ASSUME NEW n \in 1 .. Len(runs) PROVE Times(n) # {} /\ Memories(n) # {}
  <2>1. 1 \in 1 .. n
    BY <1>0
  <2> QED
    BY <2>1 DEF Times, Memories
<1> QED
  BY <1>2, <1>3, <1>4, <1>5

(***************************************************************************)
(* accepted counts the matches, maxTime and maxMemory cover the runs whose *)
(* output was removed, the task carries the use of the run after them.     *)
(***************************************************************************)
Counted == Cardinality(Accepts) = accepted
Measured ==
    /\ at \in {"run", "match", "remove"}
         => Top(maxTime, Times(i)) /\ Top(maxMemory, Memories(i))
    /\ at \in {"match", "remove"}
         => task.time = runs[i + 1].time /\ task.memory = runs[i + 1].memory

LEMMA AcceptsFinite == Types => IsFiniteSet(Accepts)
<1> SUFFICES ASSUME Types PROVE IsFiniteSet(Accepts)
  OBVIOUS
<1>1. Len(runs) \in Nat
  BY DEF Types, RunsOK
<1>2. IsFiniteSet(1 .. Len(runs))
  BY <1>1, FS_Interval
<1> QED
  BY <1>2, FS_Subset DEF Accepts

LEMMA StepCounted ==
    Types /\ Loop /\ Decided /\ Counted /\ [Next]_vars => Counted'
<1> SUFFICES ASSUME Types, Loop, Decided, Counted, [Next]_vars PROVE Counted'
  OBVIOUS
<1>0. i \in Nat /\ accepted \in Nat
  BY DEF Types, CountsOK
<1>1. CASE Run
  <2>1. /\ Len(runs') = i + 1 /\ Len(runs) = i /\ accepted' = accepted
        /\ \A r \in 1 .. i : runs'[r] = runs[r]
        /\ runs'[i + 1].verdict # "ACCEPT"
    BY <1>1, RunAppends, ConstantFacts DEF Run, Loop
  <2>2. Accepts' = Accepts
    BY <1>0, <2>1 DEF Accepts
  <2> QED
    BY <2>1, <2>2 DEF Counted
<1>2. CASE Match
  <2>1. /\ Len(runs') = i + 1 /\ Len(runs) = i + 1
        /\ \A r \in 1 .. i : runs'[r] = runs[r]
        /\ runs[i + 1].verdict = "ok"
        /\ accepted' = IF runs'[i + 1].verdict = "ACCEPT" THEN accepted + 1 ELSE accepted
    BY <1>2, MatchChanges DEF Decided
  <2>2. i + 1 \notin Accepts
    BY <2>1 DEF Accepts
  <2>3. CASE runs'[i + 1].verdict = "ACCEPT"
    <3>1. Accepts' = Accepts \cup {i + 1}
      BY <1>0, <2>1, <2>3 DEF Accepts
    <3>2. Cardinality(Accepts \cup {i + 1}) = Cardinality(Accepts) + 1
      BY <2>2, AcceptsFinite, FS_AddElement
    <3> QED
      BY <2>1, <2>3, <3>1, <3>2 DEF Counted
  <2>4. CASE runs'[i + 1].verdict # "ACCEPT"
    <3>1. Accepts' = Accepts
      BY <1>0, <2>1, <2>4 DEF Accepts
    <3> QED
      BY <2>1, <2>4, <3>1 DEF Counted
  <2> QED
    BY <2>3, <2>4
<1>3. CASE ~Run /\ ~Match
  <2>1. runs' = runs /\ accepted' = accepted
    BY <1>3, CompileStep, StayingSteps
       DEF Next, Judge, loopVars, OutputRemoved, OutputStuck, vars
  <2> QED
    BY <2>1 DEF Counted, Accepts
<1> QED
  BY <1>1, <1>2, <1>3

LEMMA StepMeasured ==
    Types /\ Loop /\ Decided /\ Counted /\ Measured /\ ReportSumsUpTheRuns /\ [Next]_vars
      => Measured' /\ ReportSumsUpTheRuns'
<1> SUFFICES ASSUME Types, Loop, Decided, Counted, Measured, ReportSumsUpTheRuns,
                    [Next]_vars
             PROVE  Measured' /\ ReportSumsUpTheRuns'
  OBVIOUS
<1>0. i \in Nat /\ maxTime \in Nat /\ maxMemory \in Nat /\ TaskOK
  BY DEF Types, CountsOK
<1>1. CASE NoCodeFile \/ NoCompiler \/ CompilerNotCreated \/ CompilerRejects
             \/ CompilerTimesOut \/ CompilerSucceeds
  <2>1. /\ i' = 0 /\ maxTime' = 0 /\ maxMemory' = 0 /\ runs' = <<>>
        /\ at' \in {"run", "publish"}
    BY <1>1, CompileHasNoRuns
  <2>2. Times(i)' = {} /\ Memories(i)' = {}
    BY <2>1 DEF Times, Memories
  <2> QED
    BY <2>1, <2>2 DEF Measured, Top, ReportSumsUpTheRuns, Finished
<1>2. CASE CompilerLingers
  BY <1>2, LingersFinished DEF Measured, Times, Memories, ReportSumsUpTheRuns, Accepts
<1>3. CASE Run \/ Match
  <2>1. /\ at \in {"run", "match"} /\ at' \in {"match", "remove"}
        /\ UNCHANGED <<i, maxTime, maxMemory>>
        /\ \A r \in 1 .. i : runs'[r] = runs[r]
    BY <1>3, RunAppends, MatchChanges DEF Run, Match
  <2>2. Times(i)' = Times(i) /\ Memories(i)' = Memories(i)
    BY <2>1 DEF Times, Memories
  <2>3. task'.time = runs'[i + 1].time /\ task'.memory = runs'[i + 1].memory
    <3>1. CASE Run
      BY <3>1, RunAppends
    <3>2. CASE Match
      <4>1. /\ task' = [task EXCEPT !.result = runs'[i + 1].verdict]
            /\ runs'[i + 1].time = runs[i + 1].time
            /\ runs'[i + 1].memory = runs[i + 1].memory /\ at = "match"
        BY <3>2, MatchChanges
      <4>2. task'.time = task.time /\ task'.memory = task.memory
        BY <1>0, <4>1 DEF TaskOK
      <4> QED
        BY <4>1, <4>2 DEF Measured
    <3> QED
      BY <1>3, <3>1, <3>2
  <2> QED
    BY <2>1, <2>2, <2>3 DEF Measured, ReportSumsUpTheRuns, Finished
<1>4. CASE OutputRemoved
  <2>1. /\ at = "remove" /\ runs' = runs /\ Len(runs) = i + 1
        /\ maxTime' = Larger(maxTime, task.time)
        /\ maxMemory' = Larger(maxMemory, task.memory)
    BY <1>4, OutputRemovedSteps
  <2>2. /\ task.time = runs[i + 1].time /\ task.memory = runs[i + 1].memory
        /\ task.time \in Nat /\ task.memory \in Nat
        /\ Top(maxTime, Times(i)) /\ Top(maxMemory, Memories(i))
    BY <1>0, <2>1 DEF Measured, TaskOK
  <2>3. i \in 0 .. Len(runs) /\ i \in 0 .. Len(runs) - 1 /\ i + 1 \in 0 .. Len(runs)
        /\ i + 1 \in 1 .. Len(runs)
    BY <1>0, <2>1
  <2>4. Times(i) \in SUBSET Nat /\ Memories(i) \in SUBSET Nat
    BY <2>3, UseSets
  <2>5. Top(maxTime', Times(i + 1)) /\ Top(maxMemory', Memories(i + 1))
    <3>1. /\ Top(maxTime', Times(i) \cup {task.time})
          /\ Top(maxMemory', Memories(i) \cup {task.memory})
      BY <1>0, <2>1, <2>2, <2>4, TopGrows
    <3>2. /\ Times(i + 1) = Times(i) \cup {task.time}
          /\ Memories(i + 1) = Memories(i) \cup {task.memory}
      BY <2>2, <2>3, UseSets
    <3> QED
      BY <3>1, <3>2
  <2>6. CASE at' = "run"
    <3>1. i' = i + 1
      BY <1>4, <2>6, OutputRemovedSteps
    <3>2. Times(i)' = Times(i + 1) /\ Memories(i)' = Memories(i + 1)
      BY <2>1, <3>1 DEF Times, Memories
    <3> QED
      BY <2>5, <2>6, <3>2 DEF Measured, ReportSumsUpTheRuns, Finished
  <2>7. CASE at' = "publish"
    <3>1. /\ task'.passed = accepted /\ task'.time = maxTime' /\ task'.memory = maxMemory'
      BY <1>4, <2>7, OutputRemovedSteps
    <3>2. maxTime' = Largest(Times(i + 1)) /\ maxMemory' = Largest(Memories(i + 1))
      BY <2>3, <2>5, UseSets, TopIsLargest
    <3>3. /\ {runs'[r].time : r \in 1 .. Len(runs')} = Times(i + 1)
          /\ {runs'[r].memory : r \in 1 .. Len(runs')} = Memories(i + 1)
          /\ Accepts' = Accepts
      BY <2>1 DEF Times, Memories, Accepts
    <3> QED
      BY <2>7, <3>1, <3>2, <3>3 DEF Measured, ReportSumsUpTheRuns, Counted
  <2> QED
    BY <1>4, <2>6, <2>7, OutputRemovedSteps
<1>5. CASE OutputStuck
  BY <1>5 DEF OutputStuck, GivenUp, Measured, ReportSumsUpTheRuns, Finished
<1>6. CASE OutputRefused \/ FileRefused
  BY <1>6 DEF OutputRefused, FileRefused, Refused, taskVars, loopVars, Measured, Times,
              Memories, ReportSumsUpTheRuns, Finished, Accepts
<1>7. CASE Publish \/ FileRemoved \/ FileStuck
  BY <1>7, StayingSteps DEF Measured, ReportSumsUpTheRuns, Finished
<1>8. CASE UNCHANGED vars
  BY <1>8 DEF vars, taskVars, loopVars, fileVars, Measured, Times, Memories,
              ReportSumsUpTheRuns, Finished, Accepts
<1> QED
  BY <1>1, <1>2, <1>3, <1>4, <1>5, <1>6, <1>7, <1>8 DEF Next, Judge

\* The published pass rate counts the runs that were accepted, and the published
\* time and memory are the largest of any run, the failed last run included.
THEOREM ReportSumsUp == Spec => []ReportSumsUpTheRuns
<1>1. Init => Decided /\ ResultIsOfLastTest
  BY DEF Init, Decided, ResultIsOfLastTest, Finished
<1>2. Init => Counted /\ Measured /\ ReportSumsUpTheRuns
  <2> SUFFICES ASSUME Init PROVE Counted /\ Measured /\ ReportSumsUpTheRuns
    OBVIOUS
  <2>1. Accepts = {} /\ accepted = 0
    BY DEF Init, Accepts
  <2>2. Counted
    BY <2>1, FS_EmptySet DEF Counted
  <2> QED
    BY <2>2 DEF Init, Measured, ReportSumsUpTheRuns, Finished
<1> QED
  BY <1>1, <1>2, AlwaysTypes, StepDecided, StepCounted, StepMeasured, PTL DEF Spec

-----------------------------------------------------------------------------
(***************************************************************************)
(* The refinement.  Which files a judgement has when, which verdict it can *)
(* have, and that only a compiler that was given up still runs.            *)
(***************************************************************************)
Handling ==
    /\ at = "compile" => files \subseteq {"code"} /\ compiler = "none"
    /\ at \in {"run", "match", "remove"}
         => {"code", "exe"} \subseteq files /\ compiler = "ended"
    /\ at \in {"publish", "clean", "done"} => task.result \in Verdicts
    /\ compiler = "running" => task.result = "COMPLIE"
    /\ at = "done" => returned \in {"true", "false"}

\* Compiling by its outcome: no exe file without a run, except for a problem
\* without tests; a compiler that was given up leaves COMPLIE.
LEMMA CompileOutcome ==
    ASSUME Types, Handling,
           NoCodeFile \/ NoCompiler \/ CompilerNotCreated \/ CompilerRejects
             \/ CompilerTimesOut \/ CompilerSucceeds
    PROVE  /\ at = "compile"
           /\ \/ /\ at' = "run" /\ "code" \in files /\ files' = files \cup {"txt", "exe"}
                 /\ compiler' = "ended" /\ task' = task
              \/ /\ at' = "publish" /\ task'.result \in {"SYSTEM", "COMPLIE"}
                 /\ files' \in {files, files \cup {"txt"}, files \cup {"txt", "exe"}}
                 /\ compiler' = "running" => task'.result = "COMPLIE"
                 /\ "code" \notin files => task'.result = "SYSTEM" /\ files' = files
                 /\ returned' = returned
<1>0. TaskOK /\ at = "compile" /\ compiler = "none"
  BY CompileStep DEF Types, Handling
<1>1. ASSUME NEW v, CompileFails(v) PROVE at' = "publish" /\ task'.result = v
  BY <1>0, <1>1 DEF CompileFails, TaskOK
<1>2. CASE NoCodeFile \/ NoCompiler \/ CompilerNotCreated \/ CompilerRejects
  BY <1>0, <1>1, <1>2 DEF NoCodeFile, NoCompiler, CompilerNotCreated, CompilerRejects,
                          Compiling, CompileUnchanged
<1>3. CASE CompilerTimesOut
  BY <1>0, <1>1, <1>3 DEF CompilerTimesOut, Compiling, CompileUnchanged
<1>4. CASE CompilerSucceeds
  BY <1>0, <1>1, <1>4 DEF CompilerSucceeds, Compiling, CompileUnchanged
<1> QED
  BY <1>2, <1>3, <1>4

\* A run whose output is about to be removed has given the task its verdict.
LEMMA RemoveHasVerdict ==
    ASSUME Types, Loop, Decided, at = "remove"
    PROVE  task.result \in Verdicts
<1>1. task.result \in {"PENDING"} \cup Verdicts
  BY DEF Types, TaskOK
<1>2. i + 1 \in 1 .. Len(runs) /\ runs \in Seq(Record)
  BY DEF Types, Loop, RunsOK, CountsOK
<1>3. runs[i + 1] \in Record
  BY <1>2
<1>4. task.result = runs[i + 1].verdict
  BY DEF Decided
<1> QED
  BY <1>1, <1>3, <1>4 DEF Record

\* The two ends of the loop.
LEMMA LoopSteps ==
    ASSUME Types, Loop, Decided, OutputRemoved \/ OutputStuck
    PROVE  /\ at = "remove" /\ files' \in {files, files \ {"out"}} /\ compiler' = compiler
           /\ returned' = returned
           /\ at' = "run" \/ (at' = "publish" /\ task'.result \in Verdicts)
<1>0. TaskOK
  BY DEF Types
<1>1. CASE OutputRemoved
  <2>1. /\ at = "remove" /\ files' = files \ {"out"} /\ UNCHANGED <<compiler, returned>>
    BY <1>1 DEF OutputRemoved, Removed
  <2> QED
    BY <1>1, <2>1, OutputRemovedSteps, RemoveHasVerdict
<1>2. CASE OutputStuck
  <2>1. /\ at = "remove" /\ at' = "publish" /\ task' = [task EXCEPT !.result = "SYSTEM"]
        /\ UNCHANGED <<files, compiler, returned>>
    BY <1>2 DEF OutputStuck, GivenUp
  <2> QED
    BY <1>0, <2>1, ConstantFacts DEF TaskOK
<1> QED
  BY <1>1, <1>2

LEMMA StepHandling ==
    Types /\ Loop /\ Decided /\ Handling /\ [Next]_vars => Handling'
<1> SUFFICES ASSUME Types, Loop, Decided, Handling, [Next]_vars PROVE Handling'
  OBVIOUS
<1>1. CASE NoCodeFile \/ NoCompiler \/ CompilerNotCreated \/ CompilerRejects
             \/ CompilerTimesOut \/ CompilerSucceeds
  BY <1>1, CompileOutcome, ConstantFacts DEF Handling
<1>2. CASE CompilerLingers
  <2>1. /\ compiler = "running" /\ files' \in {files, files \cup {"exe"}}
        /\ UNCHANGED <<at, task, returned>>
    BY <1>2 DEF CompilerLingers, taskVars
  <2> QED
    BY <2>1 DEF Handling
<1>3. CASE Run \/ Match
  <2>1. /\ at \in {"run", "match"} /\ at' \in {"match", "remove"}
        /\ files' \in {files, files \cup {"out"}} /\ compiler' = compiler
    BY <1>3 DEF Run, Match, fileVars
  <2> QED
    BY <2>1 DEF Handling
<1>4. CASE OutputRemoved \/ OutputStuck
  BY <1>4, LoopSteps DEF Handling
<1>5. CASE OutputRefused \/ FileRefused
  BY <1>5 DEF OutputRefused, FileRefused, Refused, taskVars, Handling
<1>6. CASE Publish
  BY <1>6 DEF Publish, taskVars, fileVars, Handling
<1>7. CASE FileRemoved \/ FileStuck
  <2>1. /\ at = "clean" /\ at' \in {"clean", "done"} /\ UNCHANGED <<task, compiler>>
        /\ at' = "done" => returned' \in {"true", "false"}
    BY <1>7 DEF FileRemoved, FileStuck, taskVars
  <2> QED
    BY <2>1 DEF Handling
<1>8. CASE UNCHANGED vars
  BY <1>8 DEF vars, taskVars, fileVars, Handling
<1> QED
  BY <1>1, <1>2, <1>3, <1>4, <1>5, <1>6, <1>7, <1>8 DEF Next, Judge

LEMMA InitRefined == Init => Call!Init
BY DEF Init, Call!Init, Stage, Verdict, Left, Judging

LEMMA StepRefined ==
    Types /\ Loop /\ Decided /\ Cleaned /\ Handling /\ [Next]_vars
      => [Call!Next]_(Call!vars)
<1> SUFFICES ASSUME Types, Loop, Decided, Cleaned, Handling, [Next]_vars
             PROVE  Call!Next \/ UNCHANGED <<Stage, Verdict, Left>>
  BY DEF Call!vars
<1>0. FilesOK /\ TaskOK
  BY DEF Types
\* Compiling is invisible, or decides.
<1>1. CASE NoCodeFile \/ NoCompiler \/ CompilerNotCreated \/ CompilerRejects
             \/ CompilerTimesOut \/ CompilerSucceeds
  <2>1. CASE at' = "run"
    <3>1. at = "compile" /\ files' = files \cup {"txt", "exe"}
      BY <1>1, <2>1, CompileOutcome
    <3> QED
      BY <2>1, <3>1 DEF Stage, Verdict, Left, Judging
  <2>2. CASE at' = "publish"
    <3>1. /\ at = "compile" /\ files \subseteq {"code"}
          /\ task'.result \in {"SYSTEM", "COMPLIE"}
          /\ files' \in {files, files \cup {"txt"}, files \cup {"txt", "exe"}}
          /\ "code" \notin files => task'.result = "SYSTEM" /\ files' = files
      BY <1>1, <2>2, CompileOutcome DEF Handling
    <3>2. Stage = "judge" /\ Left = files /\ Stage' = "finish" /\ Verdict' = task'.result
      BY <2>2, <3>1 DEF Stage, Verdict, Left, Judging
    <3>3. Left' = files' \cap {"code", "exe"}
      BY <2>2 DEF Left, Judging
    <3>4. /\ \/ Left' = Left \cup {}
             \/ Left' = Left \cup {"exe"} /\ "code" \in Left
          /\ "code" \notin Left => Verdict' = "SYSTEM"
          /\ Verdict' \in Verdicts /\ Verdict' \in {"SYSTEM", "COMPLIE"}
      BY <3>1, <3>2, <3>3, ConstantFacts
    <3> QED
      BY <3>2, <3>4 DEF Call!Next, Call!Decide
  <2> QED
    BY <1>1, <2>1, <2>2, CompileOutcome
<1>2. CASE CompilerLingers
  <2>1. /\ compiler = "running" /\ files' \in {files, files \cup {"exe"}}
        /\ UNCHANGED <<at, task, returned>>
    BY <1>2 DEF CompilerLingers, taskVars
  <2>2. /\ at \in {"publish", "clean", "done"} /\ returned # "true"
        /\ task.result = "COMPLIE"
    BY <1>0, <2>1 DEF Handling, Cleaned, Types, StagesOK
  <2>3. /\ Stage \in {"finish", "clean", "failed"} /\ Verdict = "COMPLIE"
        /\ UNCHANGED <<Stage, Verdict>>
        /\ Left = files \cap {"code", "exe"} /\ Left' = files' \cap {"code", "exe"}
    BY <2>1, <2>2 DEF Stage, Verdict, Left, Judging
  <2>4. Left' = Left \/ Left' = Left \cup {"exe"}
    BY <2>1, <2>3
  <2> QED
    BY <2>3, <2>4 DEF Call!Next, Call!Linger
\* A test is invisible, the end of the loop decides.
<1>3. CASE Run \/ Match
  <2>1. /\ at \in {"run", "match"} /\ at' \in {"match", "remove"}
        /\ files' \in {files, files \cup {"out"}}
    BY <1>3 DEF Run, Match, fileVars
  <2> QED
    BY <2>1 DEF Stage, Verdict, Left, Judging
<1>4. CASE OutputRemoved \/ OutputStuck
  <2>1. /\ at = "remove" /\ {"code", "exe"} \subseteq files
        /\ files' \in {files, files \ {"out"}}
        /\ at' = "run" \/ (at' = "publish" /\ task'.result \in Verdicts)
    BY <1>4, LoopSteps DEF Handling
  <2>2. CASE at' = "run"
    BY <2>1, <2>2 DEF Stage, Verdict, Left, Judging
  <2>3. CASE at' = "publish"
    <3>1. /\ Stage = "judge" /\ Stage' = "finish" /\ Verdict' \in Verdicts
          /\ Left = {"code"} /\ Left' = Left \cup {"exe"}
      BY <2>1, <2>3 DEF Stage, Verdict, Left, Judging
    <3> QED
      BY <3>1 DEF Call!Next, Call!Decide
  <2> QED
    BY <2>1, <2>2, <2>3
<1>5. CASE OutputRefused \/ FileRefused
  BY <1>5 DEF OutputRefused, FileRefused, Refused, taskVars, Stage, Verdict, Left, Judging
<1>6. CASE Publish
  <2>1. at = "publish" /\ at' = "clean" /\ UNCHANGED <<task, files>>
    BY <1>6 DEF Publish, taskVars, fileVars
  <2>2. Stage = "finish" /\ Stage' = "clean" /\ UNCHANGED <<Verdict, Left>>
    BY <2>1 DEF Stage, Verdict, Left, Judging
  <2> QED
    BY <2>2 DEF Call!Next, Call!Finish
\* Of the four removals those of the code and the exe file are visible.
<1>7. CASE FileRemoved
  <2>1. /\ at = "clean" /\ target \in 1 .. 4 /\ files' = files \ {CleanOrder[target]}
        /\ UNCHANGED task
        /\ \/ target < 4 /\ at' = "clean"
           \/ target = 4 /\ at' = "done" /\ returned' = "true"
    BY <1>0, <1>7, ConstantFacts DEF FileRemoved, Removed, FilesOK, taskVars
  <2>2. /\ Stage = "clean" /\ Verdict' = Verdict
        /\ Left = files \cap {"code", "exe"} /\ Left' = files' \cap {"code", "exe"}
    BY <2>1 DEF Stage, Verdict, Left, Judging
  <2>3. CASE target = 1
    <3>1. Stage' = Stage /\ Left' = Left \ {"code"}
      BY <2>1, <2>2, <2>3, ConstantFacts DEF Stage, Judging
    <3> QED
      BY <2>2, <3>1 DEF Call!Next, Call!RemoveCode
  <2>4. CASE target \in {2, 3}
    BY <2>1, <2>2, <2>4, ConstantFacts DEF Stage, Judging
  <2>5. CASE target = 4
    <3>1. "code" \notin files
      BY <2>1, <2>5, ConstantFacts DEF Cleaned
    <3>2. Stage' = "done" /\ "code" \notin Left /\ Left' = {}
      BY <2>1, <2>2, <2>5, <3>1, ConstantFacts DEF Stage, Judging
    <3> QED
      BY <2>2, <3>2 DEF Call!Next, Call!RemoveExe
  <2> QED
    BY <2>1, <2>3, <2>4, <2>5
<1>8. CASE FileStuck
  <2>1. /\ at = "clean" /\ at' = "done" /\ returned' = "false" /\ UNCHANGED <<task, files>>
    BY <1>8 DEF FileStuck, GivenUp, taskVars
  <2>2. Stage = "clean" /\ Stage' = "failed" /\ UNCHANGED <<Verdict, Left>>
    BY <2>1 DEF Stage, Verdict, Left, Judging
  <2> QED
    BY <2>2 DEF Call!Next, Call!GiveUp
<1>9. CASE UNCHANGED vars
  BY <1>9 DEF vars, taskVars, fileVars, Stage, Verdict, Left, Judging
<1> QED
  BY <1>1, <1>2, <1>3, <1>4, <1>5, <1>6, <1>7, <1>8, <1>9 DEF Next, Judge

\* JudgeCore::judge with its loop, early returns, retries and a compiler that
\* outlives its time limit implements Judgement: the task that is handed to the
\* writer has one verdict, never a pending one, and success means that the code
\* and the exe file are gone for good.
THEOREM JudgementImplemented == Spec => ImplementsJudgement
<1>1. Init => Decided /\ ResultIsOfLastTest
  BY DEF Init, Decided, ResultIsOfLastTest, Finished
<1>2. Init => Cleaned /\ Handling
  BY ConstantFacts DEF Init, Cleaned, Handling
<1> QED
  BY <1>1, <1>2, AlwaysTypes, StepDecided, StepCleaned, StepHandling, InitRefined,
     StepRefined, PTL DEF Spec, ImplementsJudgement, Call!Spec
=============================================================================
