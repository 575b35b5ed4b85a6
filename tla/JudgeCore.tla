----------------------------- MODULE JudgeCore -----------------------------
(***************************************************************************)
(* JudgeCore::judge on one task: compile, run and match one test after the *)
(* other, publish the task through the callback, remove the work files.    *)
(* The compiler process is waited for at most ten seconds and never        *)
(* killed, so it may outlive the judgement and hold the work files.        *)
(* Running the program is one step here, with any outcome, and so is the   *)
(* comparison of its output, whose outcomes are those of Matcher.          *)
(***************************************************************************)
EXTENDS Naturals, Sequences, FiniteSets, Matcher

CONSTANTS TestCounts,  \* the numbers of test files a problem may have
          MaxUse,      \* bound on the time and the memory a run uses
          Attempts     \* attempts of safeRemoveFile (10 in the code)

ASSUME TestCountsAssumption == TestCounts \subseteq Nat
ASSUME MaxUseAssumption     == MaxUse \in Nat
ASSUME AttemptsAssumption   == Attempts \in Nat \ {0}

VARIABLES at,        \* the next step of judge
          task,      \* what the task carries: result, pass rate, use
          tests,     \* task->getTestDataCount()
          supported, \* whether its language is gcc or g++
          i,         \* the current test, from 0
          ok,        \* what m_runner->exc returned
          accepted,  \* the tests matched so far
          maxTime, maxMemory,
          attempt,   \* attempts left to remove the current file
          target,    \* index in CleanOrder of the file doCleanUp is at
          files,     \* the work files of the task that exist
          compiler,  \* the compiler process: "none", "running", "ended"
          published, \* history: whether the callback has been called
          returned,  \* what judge returned, "nothing" before it did
          runs       \* history: one record per run

taskVars == <<task, tests, supported>>
loopVars == <<i, ok, accepted, maxTime, maxMemory, runs>>
fileVars == <<attempt, target, files, compiler>>
vars     == <<at, taskVars, loopVars, fileVars, published, returned>>

RunEnds  == {"ok", "TIME", "MEMORY", "RUNTIME", "SYSTEM"}
Verdicts == (RunEnds \ {"ok"}) \cup Matches \cup {"COMPLIE"}
WorkFiles == {"code", "txt", "out", "exe"}

\* Variant of CleanOrder: the exe file goes before the compiler's output.
ExeFirst == <<"code", "exe", "txt", "out">>

\* doCleanUp: code file, compiler output, program output, exe file.
CleanOrder == <<"code", "txt", "out", "exe">>

Init == /\ at = "compile"
        /\ task = [result |-> "PENDING", passed |-> 0, time |-> 0, memory |-> 0]
        /\ tests \in TestCounts
        /\ supported \in BOOLEAN
        /\ i = 0
        /\ ok = FALSE
        /\ accepted = 0
        /\ maxTime = 0
        /\ maxMemory = 0
        /\ attempt = Attempts
        /\ target = 1
        /\ files \in {{}, {"code"}}
        /\ compiler = "none"
        /\ published = FALSE
        /\ returned = "nothing"
        /\ runs = <<>>

-----------------------------------------------------------------------------
(***************************************************************************)
(* CppCompiler::exc, and doJudge up to its loop                            *)
(***************************************************************************)
CompileUnchanged ==
    UNCHANGED <<tests, supported, loopVars, attempt, target, published, returned>>

\* Variant of CompileFails: the executor fails and sets no result.
CompileFailsSilently(verdict) ==
    /\ at' = "publish"
    /\ UNCHANGED task

CompileFails(verdict) ==
    /\ at' = "publish"
    /\ task' = [task EXCEPT !.result = verdict]

NoCodeFile ==
    /\ at = "compile"
    /\ "code" \notin files
    /\ CompileFails("SYSTEM")
    /\ UNCHANGED <<files, compiler>>
    /\ CompileUnchanged

NoCompiler ==
    /\ at = "compile"
    /\ "code" \in files
    /\ ~supported
    /\ CompileFails("COMPLIE")
    /\ UNCHANGED <<files, compiler>>
    /\ CompileUnchanged

\* From here on the compiler's output file exists.
Compiling ==
    /\ at = "compile"
    /\ "code" \in files
    /\ supported
    /\ CompileUnchanged

CompilerNotCreated ==
    /\ Compiling
    /\ files' = files \cup {"txt"}
    /\ CompileFails("SYSTEM")
    /\ UNCHANGED compiler

CompilerRejects ==
    /\ Compiling
    /\ files' = files \cup {"txt"}
    /\ compiler' = "ended"
    /\ CompileFails("COMPLIE")

\* waitExit gives up and returns the exit code STILL_ACTIVE, which is not 0.
CompilerTimesOut ==
    /\ Compiling
    /\ files' = files \cup {"txt"}
    /\ compiler' = "running"
    /\ CompileFails("COMPLIE")

\* No test data is a system error.
CompilerSucceeds ==
    /\ Compiling
    /\ files' = files \cup {"txt", "exe"}
    /\ compiler' = "ended"
    /\ IF tests = 0 THEN CompileFails("SYSTEM")
                    ELSE at' = "run" /\ UNCHANGED task

\* The compiler that was not waited for any longer goes on, and ends.
CompilerLingers ==
    /\ compiler = "running"
    /\ files' \in {files, files \cup {"exe"}}
    /\ compiler' \in {"running", "ended"}
    /\ UNCHANGED <<at, taskVars, loopVars, attempt, target, published, returned>>

-----------------------------------------------------------------------------
(***************************************************************************)
(* The loop of doJudge over the tests                                      *)
(***************************************************************************)

\* m_runner->exc: without a process the use of the previous run stays.
Run ==
    /\ at = "run"
    /\ \E end \in RunEnds, time, memory \in 0 .. MaxUse :
         /\ end = "SYSTEM" => time = task.time /\ memory = task.memory
         /\ ok' = (end = "ok")
         /\ task' = [task EXCEPT !.time = time, !.memory = memory,
                                 !.result = IF end = "ok" THEN @ ELSE end]
         /\ runs' = Append(runs, [verdict |-> end, time |-> time, memory |-> memory])
         /\ at' = IF end = "ok" THEN "match" ELSE "remove"
    /\ files' = files \cup {"out"}
    /\ UNCHANGED <<tests, supported, i, accepted, maxTime, maxMemory, attempt, target,
                   compiler, published, returned>>

\* Variant of Match: a match leaves the result of the earlier tests alone.
MatchKeepsResult ==
    /\ at = "match"
    /\ \E v \in Matches :
         /\ task' = [task EXCEPT !.result = IF v = "ACCEPT" /\ i > 0 THEN @ ELSE v]
         /\ accepted' = IF v = "ACCEPT" THEN accepted + 1 ELSE accepted
         /\ runs' = [runs EXCEPT ![Len(runs)].verdict = v]
    /\ at' = "remove"
    /\ UNCHANGED <<tests, supported, i, ok, maxTime, maxMemory, fileVars, published,
                   returned>>

\* Variant of Match: every comparison is counted as accepted.
MatchCountsAll ==
    /\ at = "match"
    /\ \E v \in Matches :
         /\ task' = [task EXCEPT !.result = v]
         /\ runs' = [runs EXCEPT ![Len(runs)].verdict = v]
    /\ accepted' = accepted + 1
    /\ at' = "remove"
    /\ UNCHANGED <<tests, supported, i, ok, maxTime, maxMemory, fileVars, published,
                   returned>>

\* m_mather->exc: its verdict replaces that of the test before.
Match ==
    /\ at = "match"
    /\ \E v \in Matches :
         /\ task' = [task EXCEPT !.result = v]
         /\ accepted' = IF v = "ACCEPT" THEN accepted + 1 ELSE accepted
         /\ runs' = [runs EXCEPT ![Len(runs)].verdict = v]
    /\ at' = "remove"
    /\ UNCHANGED <<tests, supported, i, ok, maxTime, maxMemory, fileVars, published,
                   returned>>

Larger(a, b) == IF a < b THEN b ELSE a

-----------------------------------------------------------------------------
(***************************************************************************)
(* safeRemoveFile: DeleteFile until it succeeds, the file is not there, or *)
(* the attempts are used up.  It fails on a file somebody holds, as the    *)
(* compiler holds its output, and may fail on any other.                   *)
(***************************************************************************)
Held(f) == compiler = "running" /\ f = "txt"

Removed(f) ==
    /\ ~(f \in files /\ Held(f))
    /\ files' = files \ {f}
    /\ attempt' = Attempts

\* Variant of Refused: the attempts are not counted.
RefusedForever(f) ==
    /\ f \in files
    /\ attempt > 1
    /\ UNCHANGED <<at, taskVars, loopVars, attempt, target, files, compiler, published,
                   returned>>

\* Variant of Refused: one attempt too many.
RefusedOnceMore(f) ==
    /\ f \in files
    /\ attempt > 0
    /\ attempt' = attempt - 1
    /\ UNCHANGED <<at, taskVars, loopVars, target, files, compiler, published, returned>>

Refused(f) ==
    /\ f \in files
    /\ attempt > 1
    /\ attempt' = attempt - 1
    /\ UNCHANGED <<at, taskVars, loopVars, target, files, compiler, published, returned>>

GivenUp(f) ==
    /\ f \in files
    /\ attempt = 1
    /\ attempt' = Attempts
    /\ UNCHANGED files

\* The output of the program is gone: take the maxima, go on with the next
\* test unless the program failed on this one, and sum up at the end.
OutputRemoved ==
    /\ at = "remove"
    /\ Removed("out")
    /\ maxTime' = Larger(maxTime, task.time)
    /\ maxMemory' = Larger(maxMemory, task.memory)
    /\ IF ok /\ i + 1 < tests
         THEN /\ at' = "run"
              /\ i' = i + 1
              /\ UNCHANGED task
         ELSE /\ at' = "publish"
              /\ task' = [task EXCEPT !.passed = accepted, !.time = maxTime',
                                      !.memory = maxMemory']
              /\ UNCHANGED i
    /\ UNCHANGED <<tests, supported, ok, accepted, runs, target, compiler, published,
                   returned>>

OutputStuck ==
    /\ at = "remove"
    /\ GivenUp("out")
    /\ at' = "publish"
    /\ task' = [task EXCEPT !.result = "SYSTEM"]
    /\ UNCHANGED <<tests, supported, loopVars, target, compiler, published, returned>>

OutputRefused == at = "remove" /\ Refused("out")

-----------------------------------------------------------------------------
(***************************************************************************)
(* onTaskFinish hands the task to the writer thread; doCleanUp follows.    *)
(***************************************************************************)
Publish ==
    /\ at = "publish"
    /\ published' = TRUE
    /\ at' = "clean"
    /\ UNCHANGED <<taskVars, loopVars, fileVars, returned>>

FileRemoved ==
    /\ at = "clean"
    /\ Removed(CleanOrder[target])
    /\ IF target < Len(CleanOrder)
         THEN target' = target + 1 /\ UNCHANGED <<at, returned>>
         ELSE at' = "done" /\ returned' = "true" /\ UNCHANGED target
    /\ UNCHANGED <<taskVars, loopVars, compiler, published>>

\* Variant of FileStuck: the task is marked as a system error.
StuckIsSystemError ==
    /\ at = "clean"
    /\ GivenUp(CleanOrder[target])
    /\ at' = "done"
    /\ returned' = "false"
    /\ task' = [task EXCEPT !.result = "SYSTEM"]
    /\ UNCHANGED <<tests, supported, loopVars, target, compiler, published>>

FileStuck ==
    /\ at = "clean"
    /\ GivenUp(CleanOrder[target])
    /\ at' = "done"
    /\ returned' = "false"
    /\ UNCHANGED <<taskVars, loopVars, target, compiler, published>>

FileRefused == at = "clean" /\ Refused(CleanOrder[target])

-----------------------------------------------------------------------------
Judge == \/ NoCodeFile
         \/ NoCompiler
         \/ CompilerNotCreated
         \/ CompilerRejects
         \/ CompilerTimesOut
         \/ CompilerSucceeds
         \/ Run
         \/ Match
         \/ OutputRemoved
         \/ OutputStuck
         \/ OutputRefused
         \/ Publish
         \/ FileRemoved
         \/ FileStuck
         \/ FileRefused

Next == Judge \/ CompilerLingers

Spec == Init /\ [][Next]_vars

\* The core thread runs on; the compiler owes nothing.
FairSpec == Spec /\ WF_vars(Judge)

-----------------------------------------------------------------------------
TypeOK ==
    /\ at \in {"compile", "run", "match", "remove", "publish", "clean", "done"}
    /\ task \in [result : {"PENDING"} \cup Verdicts, passed : Nat, time : Nat,
                 memory : Nat]
    /\ tests \in TestCounts
    /\ supported \in BOOLEAN
    /\ i \in Nat
    /\ tests > 0 => i < tests
    /\ ok \in BOOLEAN
    /\ accepted \in 0 .. i + 1
    /\ maxTime \in Nat /\ maxMemory \in Nat
    /\ attempt \in 1 .. Attempts
    /\ target \in 1 .. Len(CleanOrder)
    /\ files \in SUBSET WorkFiles
    /\ compiler \in {"none", "running", "ended"}
    /\ published \in BOOLEAN
    /\ returned \in {"nothing", "true", "false"}
    /\ runs \in Seq([verdict : Verdicts \cup {"ok"}, time : Nat, memory : Nat])

\* doJudge went through its loop, was not stopped by an output file that could
\* not be removed, and the task is about to be published.
Finished == at = "publish" /\ runs # <<>> /\ "out" \notin files

Last == runs[Len(runs)]

\* The published result is the verdict on the last test that was run, and
\* the tests before it ran without an error: whatever the matcher said of
\* them is only in the pass rate (the loop of JudgeCore::doJudge).
ResultIsOfLastTest ==
    Finished => /\ task.result = Last.verdict
                /\ Len(runs) = tests \/ ~ok
                /\ \A r \in 1 .. Len(runs) - 1 : runs[r].verdict \in Matches

Largest(S) == CHOOSE x \in S : \A y \in S : y <= x
Accepts    == {r \in 1 .. Len(runs) : runs[r].verdict = "ACCEPT"}

\* The published pass rate counts the tests that matched, the published time
\* and memory are the largest of any run, a failed last run included.
ReportSumsUpTheRuns ==
    Finished =>
      /\ task.passed = Cardinality(Accepts)
      /\ task.time = Largest({runs[r].time : r \in 1 .. Len(runs)})
      /\ task.memory = Largest({runs[r].memory : r \in 1 .. Len(runs)})

\* The task belongs to the writer thread once it is published: the core,
\* still cleaning up, never writes to it (TaskPtr shares it without a lock).
PublishedTaskIsFinal == [][published => task' = task]_vars

\* A judgement that reports success leaves no work file behind, not even one
\* that a lingering compiler writes after it was removed: its output file,
\* which it holds to its end, is removed before the exe file is.
CleanUpIsComplete == returned = "true" => files = {} /\ compiler # "running"

\* The call as the pipeline sees it: the exe file counts from the verdict on.
Judging == at \in {"compile", "run", "match", "remove"}
Stage   == CASE Judging        -> "judge"
             [] at = "publish" -> "finish"
             [] at = "clean"   -> "clean"
             [] at = "done"    -> IF returned = "true" THEN "done" ELSE "failed"
Verdict == IF Judging THEN "none" ELSE task.result
Left    == files \cap (IF Judging THEN {"code"} ELSE {"code", "exe"})

Call == INSTANCE Judgement WITH stage <- Stage, verdict <- Verdict, left <- Left

\* The loop, its early returns, the retries and the lingering compiler come to
\* one verdict per task, never to a task that is still pending, and to a
\* clean-up with two outcomes (JudgeCore::judge).
ImplementsJudgement == Call!Spec

\* A judgement ends, whatever the files and the compiler do.
JudgeEnds == <>(at = "done")

\* Whenever an output is about to be matched, what the comparison will decide
\* depends on the two texts alone and on nothing it meets on its way: wrong are
\* those that differ in more than white space, accepted those that are the same
\* up to their line ends, whichever of the two has the carriage returns and
\* however many; all others have the presentation wrong (the two pointers of
\* Matcher::compare).
MatchIsReference == at = "match" => Misjudged = {}

\* ACCEPT is given to programs whose output matches the test data
\* (Judger/readme.txt:19-21), so to those that pass every test.
AcceptMeansAllTestsPass ==
    at = "publish" /\ task.result = "ACCEPT" => task.passed = tests
=============================================================================
