------------------------------- MODULE Judger -------------------------------
(***************************************************************************)
(* The judging pipeline: the reader thread of DBManager turns waiting rows *)
(* of the database into tasks, JudgeCell queues them for its core threads, *)
(* each JudgeCore judges one task at a time and cleans up after it, the    *)
(* writer thread of DBManager stores the verdicts, and main stops them all *)
(* on "exit".  The two TaskMgr queues are atomic here (TaskMgr.tla shows   *)
(* that they are); what a judgement does is in JudgeCore.tla.              *)
(*                                                                         *)
(* The web site that submits and re-queues solutions and the MySQL server  *)
(* are the environment: any query may fail.                                *)
(***************************************************************************)
EXTENDS Naturals, Sequences, FiniteSets

CONSTANTS Solutions,       \* the rows of table solution
          Cores,           \* the core threads (config.cores of them)
          Null,            \* the NULL TaskPtr
          Results,         \* the verdicts a complete judgement can reach
          Limit,           \* "limit 20" of the SELECT
          RejudgeAnytime,  \* whether the site re-queues rows still in judgement
          MaxRejudges,     \* bound on re-queued rows
          MaxFailures,     \* bound on failed queries and file removals
          MaxCrashes,      \* bound on process deaths
          MaxRestarts      \* bound on starts after a stop or a death

ASSUME CoresAssumption   == IsFiniteSet(Cores)
ASSUME ResultsAssumption == {"ACCEPT", "COMPLIE"} \subseteq Results
ASSUME ResultNames ==
    Results \cap {"none", "PENDING", "REJUDGE", "COMPILING", "SYSTEM"} = {}
ASSUME BoundsAssumption  ==
    /\ Limit \in Nat \ {0}
    /\ RejudgeAnytime \in BOOLEAN
    /\ {MaxRejudges, MaxFailures, MaxCrashes, MaxRestarts} \subseteq Nat

Verdicts == Results \cup {"SYSTEM"}
Waiting  == {"PENDING", "REJUDGE"}
Status   == {"none", "COMPILING"} \cup Waiting \cup Verdicts

Task == [sol : Solutions, loaded : BOOLEAN, verdict : {"PENDING"} \cup Verdicts]

ASSUME NullAssumption == Null \notin Task

VARIABLES
    result,       \* solution.result, by row
    compileinfo,  \* the rows that have a compileinfo entry
    counted,      \* the accepted rows that users.solved and problem.accepted
                  \* were last computed from (one user, one problem)
    files,        \* code and exe files in the work directory
    main,         \* main's place in its shutdown, "run" before it
    pills,        \* how many NULL tasks JudgeCell::stop has added
    running,      \* DBManager::m_running
    tasks,        \* JudgeCell::m_tasks
    finish,       \* DBManager::m_finishTask
    reader,       \* the read thread: its step, result set and task
    core,         \* the core threads: their step and task
    writer,       \* the write thread: its step and task
    lost,         \* history: rows whose task ended without a stored verdict
    overlap,      \* history: rows whose files two tasks used at once
    asked,        \* history: rows re-queued or submitted and not yet read
    count         \* history: how many rejudges, failures, crashes, restarts

table    == <<result, compileinfo, counted>>
queues   == <<tasks, finish>>
threads  == <<reader, core, writer>>
mainVars == <<main, pills, running>>
history  == <<lost, overlap, asked, count>>
vars     == <<table, files, mainVars, queues, threads, history>>

NewTask(s) == [sol |-> s, loaded |-> FALSE, verdict |-> "PENDING"]

File(s) == {<<s, "code">>, <<s, "exe">>}

Start == /\ pills = 0
         /\ running = TRUE
         /\ tasks = <<>>
         /\ finish = <<>>
         /\ reader = [at |-> "check", rows |-> {}, task |-> Null]
         /\ core = [c \in Cores |-> [at |-> "get", task |-> Null]]
         /\ writer = [at |-> "check", task |-> Null]

Init == /\ result = [s \in Solutions |-> "none"]
        /\ compileinfo = {}
        /\ counted = [user |-> {}, problem |-> {}]
        /\ files = {}
        /\ main = "run"
        /\ Start
        /\ lost = {}
        /\ overlap = {}
        /\ asked = {}
        /\ count = [rejudge |-> 0, failure |-> 0, crash |-> 0, restart |-> 0]

-----------------------------------------------------------------------------
(***************************************************************************)
(* The tasks under way.  A task is in flight from the moment its row is    *)
(* marked COMPILING until the writer has tried to store its verdict; its   *)
(* core works on its files a little longer, until they are removed.        *)
(***************************************************************************)
Holds(t, s) == t # Null /\ t.sol = s
Queued(q, s) == \E i \in 1 .. Len(q) : Holds(q[i], s)

InFlight(s) ==
    /\ main # "down"
    /\ \/ reader.at = "give" /\ Holds(reader.task, s)
       \/ Queued(tasks, s)
       \/ \E c \in Cores : core[c].at \in {"compile", "run", "finish"}
                           /\ Holds(core[c].task, s)
       \/ Queued(finish, s)
       \/ writer.at = "solution" /\ Holds(writer.task, s)

CleaningUp(s) == \E c \in Cores : core[c].at = "clean" /\ Holds(core[c].task, s)

\* Every query and every removal can fail, MaxFailures times in all.
MayEnd(ok) == ok \/ count.failure < MaxFailures
Tally(ok)  == count' = IF ok THEN count ELSE [count EXCEPT !.failure = @ + 1]

-----------------------------------------------------------------------------
(***************************************************************************)
(* The web site: it inserts rows and marks rows for another judgement.  A  *)
(* row found in COMPILING while the judger is down was abandoned by it.    *)
(***************************************************************************)
Submit(s) ==
    /\ result[s] = "none"
    /\ result' = [result EXCEPT ![s] = "PENDING"]
    /\ asked' = asked \cup {s}
    /\ UNCHANGED <<compileinfo, counted, files, mainVars, queues, threads,
                   lost, overlap, count>>

Rejudge(s) ==
    /\ count.rejudge < MaxRejudges
    /\ \/ result[s] \in Verdicts
       \/ result[s] = "COMPILING" /\ (RejudgeAnytime \/ main = "down")
    /\ result' = [result EXCEPT ![s] = "REJUDGE"]
    /\ asked' = asked \cup {s}
    /\ count' = [count EXCEPT !.rejudge = @ + 1]
    /\ UNCHANGED <<compileinfo, counted, files, mainVars, queues, threads,
                   lost, overlap>>

-----------------------------------------------------------------------------
(***************************************************************************)
(* DBManager::doRead                                                       *)
(***************************************************************************)
ReaderUnchanged == UNCHANGED <<compileinfo, counted, mainVars, finish, core, writer>>

\* while (isRunning())
ReaderCheck ==
    /\ reader.at = "check"
    /\ reader' = [reader EXCEPT !.at = IF running THEN "query" ELSE "exited"]
    /\ UNCHANGED <<result, files, tasks, history>>
    /\ ReaderUnchanged

\* Variant of ReaderQuery: rows in judgement are selected too.
QueryUnfinished ==
    /\ reader.at = "query"
    /\ reader' = [reader EXCEPT !.at = "fetch",
                    !.rows = {s \in Solutions : result[s] \in Waiting \cup {"COMPILING"}}]
    /\ UNCHANGED <<result, files, tasks, history>>
    /\ ReaderUnchanged

\* The SELECT, without ORDER BY, after a second's sleep.  A failed query ends
\* the thread for good; a missing result set is only tried again.
ReaderQuery ==
    /\ reader.at = "query"
    /\ \E ok \in BOOLEAN :
         /\ MayEnd(ok)
         /\ Tally(ok)
         /\ IF ok
              THEN LET waiting == {s \in Solutions : result[s] \in Waiting} IN
                   \E rows \in SUBSET waiting :
                     /\ \/ Cardinality(rows) = Limit
                        \/ Cardinality(rows) < Limit /\ rows = waiting
                     /\ reader' = [reader EXCEPT !.at = "fetch", !.rows = rows]
              ELSE \E at \in {"exited", "check"} :
                     reader' = [reader EXCEPT !.at = at]
    /\ UNCHANGED <<result, files, tasks, lost, overlap, asked>>
    /\ ReaderUnchanged

\* while (row = res->fetchRow()): a task for the next row of the result set,
\* and tryLoadCode: the code file is written, or some step of it failed and
\* nobody is told.
ReaderLoad ==
    /\ reader.at = "fetch"
    /\ \E s \in reader.rows, ok \in BOOLEAN :
         /\ MayEnd(ok)
         /\ Tally(ok)
         /\ files' = IF ok THEN files \cup {<<s, "code">>} ELSE files
         /\ reader' = [at |-> "mark", rows |-> reader.rows \ {s},
                       task |-> [NewTask(s) EXCEPT !.loaded = ok]]
         /\ overlap' = IF InFlight(s) \/ CleaningUp(s) THEN overlap \cup {s}
                                                       ELSE overlap \ {s}
    /\ UNCHANGED <<result, tasks, lost, asked>>
    /\ ReaderUnchanged

\* Variant of ReaderNoMoreRows: break where the code continues.
BreakOnNoMoreRows ==
    /\ reader.at = "fetch"
    /\ reader.rows = {}
    /\ reader' = [reader EXCEPT !.at = "exited"]
    /\ UNCHANGED <<result, files, tasks, history>>
    /\ ReaderUnchanged

ReaderNoMoreRows ==
    /\ reader.at = "fetch"
    /\ reader.rows = {}
    /\ reader' = [reader EXCEPT !.at = "check"]
    /\ UNCHANGED <<result, files, tasks, history>>
    /\ ReaderUnchanged

\* Variant of ReaderMark: a task without code is dropped after the update.
MarkAndSkip ==
    /\ reader.at = "mark"
    /\ result' = [result EXCEPT ![reader.task.sol] = "COMPILING"]
    /\ asked' = asked \ {reader.task.sol}
    /\ lost' = lost \ {reader.task.sol}
    /\ reader' = [reader EXCEPT !.at = IF reader.task.loaded THEN "give" ELSE "fetch"]
    /\ UNCHANGED <<files, tasks, overlap, count>>
    /\ ReaderUnchanged

\* UPDATE result = COMPILING; when it fails the rest of the result set is
\* dropped with this task.
ReaderMark ==
    /\ reader.at = "mark"
    /\ LET s == reader.task.sol IN
       \E ok \in BOOLEAN :
         /\ MayEnd(ok)
         /\ Tally(ok)
         /\ IF ok
              THEN /\ result' = [result EXCEPT ![s] = "COMPILING"]
                   /\ asked' = asked \ {s}
                   /\ lost' = lost \ {s}
                   /\ reader' = [reader EXCEPT !.at = "give"]
              ELSE /\ reader' = [reader EXCEPT !.at = "check", !.rows = {}, !.task = Null]
                   /\ UNCHANGED <<result, asked, lost>>
    /\ UNCHANGED <<files, tasks, overlap>>
    /\ ReaderUnchanged

\* onRecivTask: main hands the task to the cell.
ReaderGive ==
    /\ reader.at = "give"
    /\ tasks' = Append(tasks, reader.task)
    /\ reader' = [reader EXCEPT !.at = "fetch", !.task = Null]
    /\ UNCHANGED <<result, files, history>>
    /\ ReaderUnchanged

Reader == ReaderCheck \/ ReaderQuery \/ ReaderLoad \/ ReaderNoMoreRows
            \/ ReaderMark \/ ReaderGive

-----------------------------------------------------------------------------
(***************************************************************************)
(* CoreThreadObj::work and JudgeCore::judge                                *)
(***************************************************************************)
CoreUnchanged == UNCHANGED <<table, mainVars, reader, writer, lost, overlap, asked>>

\* getTask: blocks on an empty queue; a NULL task ends the thread.
CoreGet(c) ==
    /\ core[c].at = "get"
    /\ tasks # <<>>
    /\ core' = [core EXCEPT ![c] =
                  [at |-> IF Head(tasks) = Null THEN "exited" ELSE "compile",
                   task |-> Head(tasks)]]
    /\ tasks' = Tail(tasks)
    /\ UNCHANGED <<files, finish, count>>
    /\ CoreUnchanged

\* The judgement is over: the task has its verdict.
EndsWith(c, verdict) ==
    core' = [core EXCEPT ![c] = [at |-> "finish",
                                 task |-> [@.task EXCEPT !.verdict = verdict]]]

\* The compiler: without a code file it reports a system error.
CoreCompile(c) ==
    /\ core[c].at = "compile"
    /\ LET s == core[c].task.sol IN
       IF <<s, "code">> \notin files
         THEN /\ EndsWith(c, "SYSTEM")
              /\ UNCHANGED files
         ELSE \/ /\ EndsWith(c, "COMPLIE")
                 /\ UNCHANGED files
              \/ /\ core' = [core EXCEPT ![c].at = "run"]
                 /\ files' = files \cup {<<s, "exe">>}
    /\ UNCHANGED <<queues, count>>
    /\ CoreUnchanged

\* The test runs: without the exe file, a system error.
CoreRun(c) ==
    /\ core[c].at = "run"
    /\ \E v \in Verdicts \ {"COMPLIE"} :
         /\ <<core[c].task.sol, "exe">> \notin files => v = "SYSTEM"
         /\ EndsWith(c, v)
    /\ UNCHANGED <<files, queues, count>>
    /\ CoreUnchanged

\* Variant of CoreFinish: the callback fires twice.
FinishTwice(c) ==
    /\ core[c].at = "finish"
    /\ finish' = finish \o <<core[c].task, core[c].task>>
    /\ core' = [core EXCEPT ![c].at = "clean"]
    /\ UNCHANGED <<files, tasks, count>>
    /\ CoreUnchanged

\* onTaskFinish comes before the clean-up.
CoreFinish(c) ==
    /\ core[c].at = "finish"
    /\ finish' = Append(finish, core[c].task)
    /\ core' = [core EXCEPT ![c].at = "clean"]
    /\ UNCHANGED <<files, tasks, count>>
    /\ CoreUnchanged

\* Variant of CoreCleanUp: the work directory is emptied.
EmptyWorkDir(c) ==
    /\ core[c].at = "clean"
    /\ files' = {}
    /\ core' = [core EXCEPT ![c] = [at |-> "get", task |-> Null]]
    /\ UNCHANGED <<queues, count>>
    /\ CoreUnchanged

\* doCleanUp removes the files in order and gives up at the first it cannot
\* remove; that is fatal, and the core thread ends.
CoreCleanUp(c) ==
    /\ core[c].at = "clean"
    /\ LET s == core[c].task.sol IN
       \E removed \in {{}, {<<s, "code">>}, File(s)} :
         LET ok == removed = File(s) IN
         /\ MayEnd(ok)
         /\ Tally(ok)
         /\ files' = files \ removed
         /\ core' = [core EXCEPT ![c] = [at |-> IF ok THEN "get" ELSE "exited",
                                         task |-> Null]]
    /\ UNCHANGED queues
    /\ CoreUnchanged

Core(c) == CoreGet(c) \/ CoreCompile(c) \/ CoreRun(c) \/ CoreFinish(c)
             \/ CoreCleanUp(c)

-----------------------------------------------------------------------------
(***************************************************************************)
(* DBManager::doWrite: four updates in a row, none of them in a            *)
(* transaction, whose failures are only logged.                            *)
(***************************************************************************)
WriterUnchanged == UNCHANGED <<files, mainVars, tasks, reader, core, overlap, asked>>

\* while (isRunning())
WriterCheck ==
    /\ writer.at = "check"
    /\ writer' = [writer EXCEPT !.at = IF running THEN "get" ELSE "exited"]
    /\ UNCHANGED <<table, finish, lost, count>>
    /\ WriterUnchanged

WriterGet ==
    /\ writer.at = "get"
    /\ finish # <<>>
    /\ writer' = [at |-> IF Head(finish) = Null THEN "exited" ELSE "solution",
                  task |-> Head(finish)]
    /\ finish' = Tail(finish)
    /\ UNCHANGED <<table, lost, count>>
    /\ WriterUnchanged

UpdateSolution ==
    /\ writer.at = "solution"
    /\ LET s == writer.task.sol IN
       \E ok \in BOOLEAN :
         /\ MayEnd(ok)
         /\ Tally(ok)
         /\ result' = IF ok THEN [result EXCEPT ![s] = writer.task.verdict] ELSE result
         /\ lost' = IF ok THEN lost ELSE lost \cup {s}
    /\ writer' = [writer EXCEPT !.at = "user"]
    /\ UNCHANGED <<compileinfo, counted, finish>>
    /\ WriterUnchanged

Accepted == {s \in Solutions : result[s] = "ACCEPT"}

\* Variant of Recount: only an ACCEPT is thought to change the count.
RecountOnAccept(column, next) ==
    /\ counted' = IF writer.task.verdict = "ACCEPT"
                    THEN [counted EXCEPT ![column] = Accepted] ELSE counted
    /\ writer' = [writer EXCEPT !.at = next]
    /\ UNCHANGED <<result, compileinfo, finish, lost, count>>
    /\ WriterUnchanged

\* users.solved and problem.accepted are counted anew from the table.
Recount(column, next) ==
    /\ \E ok \in BOOLEAN :
         /\ MayEnd(ok)
         /\ Tally(ok)
         /\ counted' = IF ok THEN [counted EXCEPT ![column] = Accepted] ELSE counted
    /\ writer' = [writer EXCEPT !.at = next]
    /\ UNCHANGED <<result, compileinfo, finish, lost>>
    /\ WriterUnchanged

UpdateUser    == writer.at = "user" /\ Recount("user", "problem")
UpdateProblem == writer.at = "problem" /\ Recount("problem", "delete")

\* updateInfo: the old message goes first, a new one comes for COMPLIE only.
DeleteInfo ==
    /\ writer.at = "delete"
    /\ LET s == writer.task.sol IN
       \E ok \in BOOLEAN :
         /\ MayEnd(ok)
         /\ Tally(ok)
         /\ compileinfo' = IF ok THEN compileinfo \ {s} ELSE compileinfo
         /\ writer' = IF writer.task.verdict = "COMPLIE"
                        THEN [writer EXCEPT !.at = "insert"]
                        ELSE [at |-> "check", task |-> Null]
    /\ UNCHANGED <<result, counted, finish, lost>>
    /\ WriterUnchanged

InsertInfo ==
    /\ writer.at = "insert"
    /\ \E ok \in BOOLEAN :
         /\ MayEnd(ok)
         /\ Tally(ok)
         /\ compileinfo' = IF ok THEN compileinfo \cup {writer.task.sol} ELSE compileinfo
    /\ writer' = [at |-> "check", task |-> Null]
    /\ UNCHANGED <<result, counted, finish, lost>>
    /\ WriterUnchanged

Writer == WriterCheck \/ WriterGet \/ UpdateSolution \/ UpdateUser \/ UpdateProblem
            \/ DeleteInfo \/ InsertInfo

-----------------------------------------------------------------------------
(***************************************************************************)
(* main: on "exit" JudgeCell::stop, then DBManager::stop                   *)
(***************************************************************************)
MainUnchanged == UNCHANGED <<table, files, threads, overlap, asked, count>>

Exit ==
    /\ main = "run"
    /\ main' = "pills"
    /\ UNCHANGED <<pills, running, queues, lost>>
    /\ MainUnchanged

\* Variant of AddPill: one NULL task for all the cores.
AddOnePill ==
    /\ main = "pills"
    /\ IF pills < 1
         THEN tasks' = <<Null>> \o tasks /\ pills' = pills + 1 /\ UNCHANGED main
         ELSE main' = "joinCores" /\ UNCHANGED <<tasks, pills>>
    /\ UNCHANGED <<running, finish, lost>>
    /\ MainUnchanged

\* Variant of AddPill: i <= m_cores.size().
AddPillTooMany ==
    /\ main = "pills"
    /\ IF pills <= Cardinality(Cores)
         THEN tasks' = <<Null>> \o tasks /\ pills' = pills + 1 /\ UNCHANGED main
         ELSE main' = "joinCores" /\ UNCHANGED <<tasks, pills>>
    /\ UNCHANGED <<running, finish, lost>>
    /\ MainUnchanged

\* One NULL task at the front of the queue for every core, dead or alive.
AddPill ==
    /\ main = "pills"
    /\ IF pills < Cardinality(Cores)
         THEN tasks' = <<Null>> \o tasks /\ pills' = pills + 1 /\ UNCHANGED main
         ELSE main' = "joinCores" /\ UNCHANGED <<tasks, pills>>
    /\ UNCHANGED <<running, finish, lost>>
    /\ MainUnchanged

\* m_cores.clear() waits for every core thread.
JoinCores ==
    /\ main = "joinCores"
    /\ \A c \in Cores : core[c].at = "exited"
    /\ main' = "stopDB"
    /\ UNCHANGED <<pills, running, queues, lost>>
    /\ MainUnchanged

StopRunning ==
    /\ main = "stopDB"
    /\ running' = FALSE
    /\ main' = "pillDB"
    /\ UNCHANGED <<pills, queues, lost>>
    /\ MainUnchanged

AddPillDB ==
    /\ main = "pillDB"
    /\ finish' = <<Null>> \o finish
    /\ main' = "joinReader"
    /\ UNCHANGED <<pills, running, tasks, lost>>
    /\ MainUnchanged

JoinReader ==
    /\ main = "joinReader"
    /\ reader.at = "exited"
    /\ main' = "joinWriter"
    /\ UNCHANGED <<pills, running, queues, lost>>
    /\ MainUnchanged

\* The process ends with whatever the two queues still hold.
JoinWriter ==
    /\ main = "joinWriter"
    /\ writer.at = "exited"
    /\ main' = "down"
    /\ lost' = lost \cup {s \in Solutions : InFlight(s)}
    /\ UNCHANGED <<pills, running, queues>>
    /\ MainUnchanged

Stop == AddPill \/ JoinCores \/ StopRunning \/ AddPillDB \/ JoinReader \/ JoinWriter

\* The process dies: the database and the work directory remain.
Crash ==
    /\ main # "down"
    /\ count.crash < MaxCrashes
    /\ main' = "down"
    /\ lost' = lost \cup {s \in Solutions : InFlight(s)}
    /\ tasks' = <<>>
    /\ finish' = <<>>
    /\ reader' = [at |-> "exited", rows |-> {}, task |-> Null]
    /\ core' = [c \in Cores |-> [at |-> "exited", task |-> Null]]
    /\ writer' = [at |-> "exited", task |-> Null]
    /\ count' = [count EXCEPT !.crash = @ + 1]
    /\ UNCHANGED <<table, files, pills, running, overlap, asked>>

Restart ==
    /\ main = "down"
    /\ count.restart < MaxRestarts
    /\ main' = "run"
    /\ pills' = 0
    /\ running' = TRUE
    /\ tasks' = <<>>
    /\ finish' = <<>>
    /\ reader' = [at |-> "check", rows |-> {}, task |-> Null]
    /\ core' = [c \in Cores |-> [at |-> "get", task |-> Null]]
    /\ writer' = [at |-> "check", task |-> Null]
    /\ count' = [count EXCEPT !.restart = @ + 1]
    /\ UNCHANGED <<table, files, lost, overlap, asked>>

-----------------------------------------------------------------------------
Environment == \/ \E s \in Solutions : Submit(s) \/ Rejudge(s)
               \/ Exit
               \/ Crash
               \/ Restart

Next == Environment \/ Reader \/ (\E c \in Cores : Core(c)) \/ Writer \/ Stop

Spec == Init /\ [][Next]_vars

(***************************************************************************)
(* Threads run, and a stop that has begun goes on.  Nobody has to submit,  *)
(* to type "exit" or to start the judger again.                            *)
(***************************************************************************)
Fairness == /\ WF_vars(Reader)
            /\ \A c \in Cores : WF_vars(Core(c))
            /\ WF_vars(Writer)
            /\ WF_vars(Stop)

FairSpec == Spec /\ Fairness

-----------------------------------------------------------------------------
TypeOK ==
    /\ result \in [Solutions -> Status]
    /\ compileinfo \in SUBSET Solutions
    /\ counted \in [{"user", "problem"} -> SUBSET Solutions]
    /\ files \in SUBSET (Solutions \X {"code", "exe"})
    /\ main \in {"run", "pills", "joinCores", "stopDB", "pillDB", "joinReader",
                 "joinWriter", "down"}
    /\ pills \in 0 .. Cardinality(Cores)
    /\ running \in BOOLEAN
    /\ tasks \in Seq(Task \cup {Null})
    /\ finish \in Seq(Task \cup {Null})
    /\ reader \in [at : {"check", "query", "fetch", "mark", "give", "exited"},
                   rows : SUBSET Solutions, task : Task \cup {Null}]
    /\ core \in [Cores -> [at : {"get", "compile", "run", "finish", "clean", "exited"},
                           task : Task \cup {Null}]]
    /\ writer \in [at : {"check", "get", "solution", "user", "problem", "delete",
                         "insert", "exited"},
                   task : Task \cup {Null}]
    /\ lost \in SUBSET Solutions
    /\ overlap \in SUBSET Solutions
    /\ asked \in SUBSET Solutions
    /\ count \in [{"rejudge", "failure", "crash", "restart"} -> Nat]

\* A row shown as COMPILING is in somebody's hands: a task for it is on its
\* way to the writer, or its task was lost to a failed update, an exit or a
\* crash (DBManager::doRead marks the row before the task is queued).
CompilingIsCovered ==
    \A s \in Solutions : result[s] = "COMPILING" => InFlight(s) \/ s \in lost

\* A wish to have a row judged survives until a task is made for it: nobody
\* overwrites PENDING or REJUDGE but the reader that accepted it.
RequestNotForgotten ==
    \A s \in asked : result[s] \in Waiting

\* Who has a task whose code was loaded and is still to be compiled.
Loaded(t) == t # Null /\ t.loaded
Uncompiled ==
    {s \in Solutions :
       \/ reader.at \in {"mark", "give"} /\ Loaded(reader.task) /\ reader.task.sol = s
       \/ \E i \in 1 .. Len(tasks) : Loaded(tasks[i]) /\ tasks[i].sol = s
       \/ \E c \in Cores : core[c].at = "compile" /\ Loaded(core[c].task)
                           /\ core[c].task.sol = s}

\* The code file the reader wrote is there when the compiler needs it, unless
\* the previous judgement of the row had not cleaned up when it was written
\* (work files are named by the solution, and onTaskFinish precedes doCleanUp).
CodeIsThere ==
    \A s \in Uncompiled : s \notin overlap => <<s, "code">> \in files

\* Between two verdicts the derived tables agree with the verdicts: what
\* users.solved and problem.accepted counted and the compileinfo entries,
\* provided no query failed and the process did not die between two updates.
DerivedDataAgrees ==
    (writer.at \in {"check", "get", "exited"} /\ count.failure = 0 /\ count.crash = 0)
      => \A s \in Solutions :
           result[s] \in Verdicts =>
             /\ \A column \in {"user", "problem"} :
                  s \in counted[column] <=> result[s] = "ACCEPT"
             /\ s \in compileinfo <=> result[s] = "COMPLIE"

\* No verdict is thrown away by an orderly stop (Judger/readme.txt:18: having
\* received a result, DBManager writes it back to the database).
ReceivedResultsAreWritten ==
    main = "down" => \A i \in 1 .. Len(finish) : finish[i] = Null

Service == INSTANCE JudgeService
             WITH open <- {s \in Solutions : InFlight(s)}

\* Each judgement is accepted once and publishes at most one verdict, into a
\* row that still shows COMPILING.
ImplementsService == Service!Spec

\* Without failures, a waiting row is judged as long as the judger runs.
EveryRequestIsJudged ==
    \A s \in Solutions :
      result[s] \in Waiting ~>
        (result[s] \in Verdicts \/ count.failure > 0 \/ main # "run")

\* "exit" ends the process whatever the threads were doing, cores that died
\* and a reader that gave up included.
StopTerminates == (main = "pills") ~> (main = "down")
=============================================================================
