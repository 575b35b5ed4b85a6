---------------------------- MODULE JudgerProofs ----------------------------
(***************************************************************************)
(* What the pipeline keeps for any solutions and cores and any bounds: its *)
(* types, that a row in judgement is in somebody's hands, and that the     *)
(* derived tables agree with the verdicts.                                 *)
(*                                                                         *)
(* The argument: a thread has a task exactly at the steps that work on one *)
(* (Types), main ends a thread before it goes on (Joined), and while the   *)
(* writer stores a verdict the tables it has not come to yet may differ    *)
(* only for the row it is at (InStep).                                     *)
(***************************************************************************)
EXTENDS Judger, FiniteSetTheorems, TLAPS

(***************************************************************************)
(* The parts of the type invariant: what the variables hold, and which     *)
(* steps of a thread go with a task.                                       *)
(***************************************************************************)

\* A task that has its verdict.
Judged == {t \in Task : t.verdict \in Verdicts}

ReaderStates ==
    [at : {"check", "query", "exited"}, rows : {{}}, task : {Null}]
      \cup [at : {"fetch"}, rows : SUBSET Solutions, task : {Null}]
      \cup [at : {"mark", "give"}, rows : SUBSET Solutions, task : Task]

CoreStates == [at : {"get", "exited"}, task : {Null}]
                \cup [at : {"compile", "run"}, task : Task]
                \cup [at : {"finish", "clean"}, task : Judged]

WriterStates == [at : {"check", "get", "exited"}, task : {Null}]
                  \cup [at : {"solution", "user", "problem", "delete"}, task : Judged]
                  \cup [at : {"insert"}, task : {t \in Judged : t.verdict = "COMPLIE"}]

TableOK   == /\ result \in [Solutions -> Status]
             /\ compileinfo \in SUBSET Solutions
             /\ counted \in [{"user", "problem"} -> SUBSET Solutions]
FilesOK   == files \in SUBSET (Solutions \X {"code", "exe"})
MainOK    == /\ main \in {"run", "pills", "joinCores", "stopDB", "pillDB", "joinReader",
                          "joinWriter", "down"}
             /\ pills \in 0 .. Cardinality(Cores)
             /\ running \in BOOLEAN
TasksOK   == tasks \in Seq(Task \cup {Null})
FinishOK  == finish \in Seq(Judged \cup {Null})
ReaderOK  == reader \in ReaderStates
CoreOK    == core \in [Cores -> CoreStates]
WriterOK  == writer \in WriterStates
HistoryOK == /\ lost \in SUBSET Solutions
             /\ overlap \in SUBSET Solutions
             /\ asked \in SUBSET Solutions
             /\ count \in [{"rejudge", "failure", "crash", "restart"} -> Nat]

Types == /\ TableOK /\ FilesOK /\ MainOK /\ TasksOK /\ FinishOK
         /\ ReaderOK /\ CoreOK /\ WriterOK /\ HistoryOK

LEMMA ConstantFacts ==
    /\ IsFiniteSet(Cores) /\ Cardinality(Cores) \in Nat
    /\ {"ACCEPT", "COMPLIE", "SYSTEM"} \subseteq Verdicts
    /\ Verdicts \cap ({"none", "COMPILING"} \cup Waiting) = {}
    /\ Status = {"none", "COMPILING"} \cup Waiting \cup Verdicts
    /\ Null \notin Task /\ Judged \subseteq Task
BY CoresAssumption, ResultsAssumption, ResultNames, NullAssumption, FS_CardinalityType
   DEF Verdicts, Waiting, Status, Judged

\* What the steps of the threads say of their tasks.
LEMMA StageFacts ==
    ASSUME Types
    PROVE  /\ reader.at \in {"check", "query", "fetch", "mark", "give", "exited"}
           /\ reader.rows \in SUBSET Solutions
           /\ reader.at \in {"mark", "give"} => reader.task \in Task
           /\ reader.at \notin {"mark", "give"} => reader.task = Null
           /\ reader.at \notin {"fetch", "mark", "give"} => reader.rows = {}
           /\ \A c \in Cores :
                /\ core[c].at \in {"get", "compile", "run", "finish", "clean", "exited"}
                /\ core[c].at \in {"compile", "run"} => core[c].task \in Task
                /\ core[c].at \in {"finish", "clean"} => core[c].task \in Judged
                /\ core[c].at \in {"get", "exited"} => core[c].task = Null
           /\ writer.at \in {"check", "get", "solution", "user", "problem", "delete",
                             "insert", "exited"}
           /\ writer.at \in {"solution", "user", "problem", "delete", "insert"}
                => writer.task \in Judged
           /\ writer.at = "insert" => writer.task.verdict = "COMPLIE"
           /\ writer.at \in {"check", "get", "exited"} => writer.task = Null
<1>1. reader \in ReaderStates /\ writer \in WriterStates
      /\ \A c \in Cores : core[c] \in CoreStates
  BY DEF Types, ReaderOK, WriterOK, CoreOK
<1>2. \A r \in ReaderStates :
        /\ r.at \in {"check", "query", "fetch", "mark", "give", "exited"}
        /\ r.rows \in SUBSET Solutions
        /\ r.at \in {"mark", "give"} => r.task \in Task
        /\ r.at \notin {"mark", "give"} => r.task = Null
        /\ r.at \notin {"fetch", "mark", "give"} => r.rows = {}
  BY DEF ReaderStates
<1>3. \A r \in CoreStates :
        /\ r.at \in {"get", "compile", "run", "finish", "clean", "exited"}
        /\ r.at \in {"compile", "run"} => r.task \in Task
        /\ r.at \in {"finish", "clean"} => r.task \in Judged
        /\ r.at \in {"get", "exited"} => r.task = Null
  BY DEF CoreStates
<1>4. \A r \in WriterStates :
        /\ r.at \in {"check", "get", "solution", "user", "problem", "delete",
                     "insert", "exited"}
        /\ r.at \in {"solution", "user", "problem", "delete", "insert"}
             => r.task \in Judged
        /\ r.at = "insert" => r.task.verdict = "COMPLIE"
        /\ r.at \in {"check", "get", "exited"} => r.task = Null
  BY DEF WriterStates
<1> QED
  BY <1>1, <1>2, <1>3, <1>4

LEMMA TypesAreOK == Types => TypeOK
<1> SUFFICES ASSUME Types PROVE TypeOK
  OBVIOUS
<1>1. finish \in Seq(Task \cup {Null})
  BY ConstantFacts DEF Types, FinishOK
<1>2. reader \in [at : {"check", "query", "fetch", "mark", "give", "exited"},
                  rows : SUBSET Solutions, task : Task \cup {Null}]
  BY DEF Types, ReaderOK, ReaderStates
<1>3. core \in [Cores -> [at : {"get", "compile", "run", "finish", "clean", "exited"},
                          task : Task \cup {Null}]]
  <2>1. CoreStates \subseteq
          [at : {"get", "compile", "run", "finish", "clean", "exited"},
           task : Task \cup {Null}]
    BY ConstantFacts DEF CoreStates
  <2> QED
    BY <2>1 DEF Types, CoreOK
<1>4. writer \in [at : {"check", "get", "solution", "user", "problem", "delete",
                        "insert", "exited"},
                  task : Task \cup {Null}]
  BY ConstantFacts DEF Types, WriterOK, WriterStates
<1> QED
  BY <1>1, <1>2, <1>3, <1>4
     DEF Types, TypeOK, TableOK, FilesOK, MainOK, TasksOK, HistoryOK

-----------------------------------------------------------------------------
(***************************************************************************)
(* Who changes which variable.                                             *)
(***************************************************************************)
LEMMA WhoChanges ==
    ASSUME Next
    PROVE  /\ Reader \/ Crash \/ Restart \/ reader' = reader
           /\ (\E c \in Cores : Core(c)) \/ Crash \/ Restart \/ core' = core
           /\ Writer \/ Crash \/ Restart \/ writer' = writer
           /\ Stop \/ Exit \/ Crash \/ Restart \/ UNCHANGED <<main, pills, running>>
           /\ \/ ReaderGive \/ AddPill \/ Crash \/ Restart
              \/ \E c \in Cores : CoreGet(c)
              \/ tasks' = tasks
           /\ \/ WriterGet \/ AddPillDB \/ Crash \/ Restart
              \/ \E c \in Cores : CoreFinish(c)
              \/ finish' = finish
           /\ \/ ReaderLoad
              \/ \E c \in Cores : CoreCompile(c) \/ CoreCleanUp(c)
              \/ files' = files
           /\ \/ UpdateSolution \/ ReaderMark
              \/ \E s \in Solutions : Submit(s) \/ Rejudge(s)
              \/ result' = result
           /\ UpdateUser \/ UpdateProblem \/ counted' = counted
           /\ DeleteInfo \/ InsertInfo \/ compileinfo' = compileinfo
<1>1. ASSUME NEW s \in Solutions, Submit(s) \/ Rejudge(s)
      PROVE  UNCHANGED <<compileinfo, counted, files, mainVars, queues, threads>>
  BY <1>1 DEF Submit, Rejudge
<1>2. Exit => UNCHANGED <<table, files, queues, threads>>
  BY DEF Exit, MainUnchanged
<1>3. Crash => UNCHANGED <<table, files>>
  BY DEF Crash
<1>4. Restart => UNCHANGED <<table, files>>
  BY DEF Restart
<1>5. Reader => /\ UNCHANGED <<compileinfo, counted, mainVars, finish, core, writer>>
                /\ ReaderGive \/ tasks' = tasks
                /\ ReaderLoad \/ files' = files
                /\ ReaderMark \/ result' = result
  BY DEF Reader, ReaderCheck, ReaderQuery, ReaderLoad, ReaderNoMoreRows, ReaderMark,
         ReaderGive, ReaderUnchanged
<1>6. Writer => /\ UNCHANGED <<files, mainVars, tasks, reader, core>>
                /\ WriterGet \/ finish' = finish
                /\ UpdateSolution \/ result' = result
                /\ UpdateUser \/ UpdateProblem \/ counted' = counted
                /\ DeleteInfo \/ InsertInfo \/ compileinfo' = compileinfo
  BY DEF Writer, WriterCheck, WriterGet, UpdateSolution, UpdateUser, UpdateProblem, Recount,
         DeleteInfo, InsertInfo, WriterUnchanged, table
<1>7. Stop => /\ UNCHANGED <<table, files, threads>>
              /\ AddPill \/ tasks' = tasks
              /\ AddPillDB \/ finish' = finish
  BY DEF Stop, AddPill, JoinCores, StopRunning, AddPillDB, JoinReader, JoinWriter,
         MainUnchanged, queues
<1>8. ASSUME NEW c \in Cores, Core(c)
      PROVE  /\ UNCHANGED <<table, mainVars, reader, writer>>
             /\ CoreGet(c) \/ tasks' = tasks
             /\ CoreFinish(c) \/ finish' = finish
             /\ CoreCompile(c) \/ CoreCleanUp(c) \/ files' = files
  BY <1>8 DEF Core, CoreGet, CoreCompile, CoreRun, CoreFinish, CoreCleanUp, CoreUnchanged,
              queues
<1> QED
  BY <1>1, <1>2, <1>3, <1>4, <1>5, <1>6, <1>7, <1>8
     DEF Next, Environment, table, mainVars, queues, threads

LEMMA WhoRecords ==
    ASSUME Next
    PROVE  /\ ReaderMark \/ UpdateSolution \/ JoinWriter \/ Crash \/ lost' = lost
           /\ ReaderLoad \/ overlap' = overlap
           /\ ReaderMark \/ (\E s \in Solutions : Submit(s) \/ Rejudge(s)) \/ asked' = asked
<1>1. CASE Reader
  BY <1>1 DEF Reader, ReaderCheck, ReaderQuery, ReaderLoad, ReaderNoMoreRows, ReaderMark,
              ReaderGive, history
<1>2. CASE Writer
  BY <1>2 DEF Writer, WriterCheck, WriterGet, UpdateSolution, UpdateUser, UpdateProblem,
              DeleteInfo, InsertInfo, Recount, WriterUnchanged
<1>3. CASE Stop \/ Exit
  BY <1>3 DEF Stop, AddPill, JoinCores, StopRunning, AddPillDB, JoinReader, JoinWriter, Exit,
              MainUnchanged
<1>4. ASSUME NEW c \in Cores, Core(c) PROVE UNCHANGED <<lost, overlap, asked>>
  BY <1>4 DEF Core, CoreGet, CoreCompile, CoreRun, CoreFinish, CoreCleanUp, CoreUnchanged
<1>5. ASSUME NEW s \in Solutions, Submit(s) \/ Rejudge(s) PROVE UNCHANGED <<lost, overlap>>
  BY <1>5 DEF Submit, Rejudge
<1>6. CASE Crash \/ Restart
  BY <1>6 DEF Crash, Restart
<1> QED
  BY <1>1, <1>2, <1>3, <1>4, <1>5, <1>6 DEF Next, Environment

-----------------------------------------------------------------------------
(***************************************************************************)
(* The types                                                               *)
(***************************************************************************)
LEMMA InitTypes == Init => Types
<1> SUFFICES ASSUME Init PROVE Types
  OBVIOUS
<1>1. TableOK /\ FilesOK /\ HistoryOK
  BY ConstantFacts DEF Init, TableOK, FilesOK, HistoryOK
<1>2. MainOK /\ TasksOK /\ FinishOK /\ ReaderOK /\ CoreOK /\ WriterOK
  BY ConstantFacts
     DEF Init, Start, MainOK, TasksOK, FinishOK, ReaderOK, ReaderStates, CoreOK, CoreStates,
         WriterOK, WriterStates
<1> QED
  BY <1>1, <1>2 DEF Types

LEMMA StepTable == Types /\ Next => TableOK'
<1> SUFFICES ASSUME Types, Next PROVE TableOK'
  OBVIOUS
<1>1. result' \in [Solutions -> Status]
  <2>1. CASE UpdateSolution
    <3>1. writer.task \in Judged
      BY <2>1, StageFacts DEF UpdateSolution
    <3>2. writer.task.verdict \in Status
      BY <3>1, ConstantFacts DEF Judged
    <3> QED
      BY <2>1, <3>2 DEF UpdateSolution, Types, TableOK
  <2>2. CASE ReaderMark
    BY <2>2, ConstantFacts DEF ReaderMark, Types, TableOK
  <2>3. ASSUME NEW s \in Solutions, Submit(s) \/ Rejudge(s)
        PROVE  result' \in [Solutions -> Status]
    BY <2>3, ConstantFacts DEF Submit, Rejudge, Types, TableOK, Waiting
  <2> QED
    BY <2>1, <2>2, <2>3, WhoChanges DEF Types, TableOK
<1>2. compileinfo' \in SUBSET Solutions
  <2>1. CASE DeleteInfo
    BY <2>1 DEF DeleteInfo, Types, TableOK
  <2>2. CASE InsertInfo
    <3>1. writer.task \in Task
      BY <2>2, StageFacts, ConstantFacts DEF InsertInfo
    <3> QED
      BY <2>2, <3>1 DEF InsertInfo, Types, TableOK, Task
  <2> QED
    BY <2>1, <2>2, WhoChanges DEF Types, TableOK
<1>3. counted' \in [{"user", "problem"} -> SUBSET Solutions]
  <2>1. Accepted \in SUBSET Solutions
    BY DEF Accepted
  <2>2. CASE UpdateUser
    BY <2>1, <2>2 DEF UpdateUser, Recount, Types, TableOK
  <2>3. CASE UpdateProblem
    BY <2>1, <2>3 DEF UpdateProblem, Recount, Types, TableOK
  <2> QED
    BY <2>2, <2>3, WhoChanges DEF Types, TableOK
<1> QED
  BY <1>1, <1>2, <1>3 DEF TableOK

LEMMA StepFiles == Types /\ Next => FilesOK'
<1> SUFFICES ASSUME Types, Next PROVE FilesOK'
  OBVIOUS
<1>1. CASE ReaderLoad
  <2>1. PICK s \in reader.rows : files' \in {files, files \cup {<<s, "code">>}}
    BY <1>1 DEF ReaderLoad
  <2>2. s \in Solutions
    BY <2>1, StageFacts
  <2> QED
    BY <2>1, <2>2 DEF Types, FilesOK
<1>2. ASSUME NEW c \in Cores, CoreCompile(c)
      PROVE  FilesOK'
  <2>1. core[c].task.sol \in Solutions
    BY <1>2, StageFacts DEF CoreCompile, Task
  <2> QED
    BY <1>2, <2>1 DEF CoreCompile, Types, FilesOK
<1>3. ASSUME NEW c \in Cores, CoreCleanUp(c)
      PROVE  FilesOK'
  BY <1>3 DEF CoreCleanUp, Types, FilesOK
<1> QED
  BY <1>1, <1>2, <1>3, WhoChanges DEF Types, FilesOK

LEMMA StepMain == Types /\ Next => MainOK'
<1> SUFFICES ASSUME Types, Next PROVE MainOK'
  OBVIOUS
<1>1. CASE AddPill
  BY <1>1, ConstantFacts DEF AddPill, Types, MainOK
<1>2. CASE JoinCores \/ StopRunning \/ AddPillDB \/ JoinReader \/ JoinWriter
  BY <1>2 DEF JoinCores, StopRunning, AddPillDB, JoinReader, JoinWriter, Types, MainOK
<1>3. CASE Exit \/ Crash
  BY <1>3 DEF Exit, Crash, Types, MainOK
<1>4. CASE Restart
  <2>1. 0 \in 0 .. Cardinality(Cores)
    BY ConstantFacts
  <2> QED
    BY <1>4, <2>1 DEF Restart, Types, MainOK
<1> QED
  BY <1>1, <1>2, <1>3, <1>4, WhoChanges DEF Stop, Types, MainOK

\* The queues: what is put in, what is taken out, a NULL task in front.
LEMMA QueueTypes ==
    ASSUME NEW S, NEW q \in Seq(S \cup {Null})
    PROVE  /\ <<>> \in Seq(S \cup {Null})
           /\ \A t \in S : Append(q, t) \in Seq(S \cup {Null})
           /\ <<Null>> \o q \in Seq(S \cup {Null})
           /\ q # <<>> => /\ Head(q) \in S \cup {Null}
                          /\ Tail(q) \in Seq(S \cup {Null})
OBVIOUS

LEMMA StepTasks == Types /\ Next => TasksOK'
<1> SUFFICES ASSUME Types, Next PROVE TasksOK'
  OBVIOUS
<1>0. tasks \in Seq(Task \cup {Null})
  BY DEF Types, TasksOK
<1>1. CASE ReaderGive
  <2>1. reader.task \in Task
    BY <1>1, StageFacts DEF ReaderGive
  <2> QED
    BY <1>0, <1>1, <2>1, QueueTypes DEF ReaderGive, TasksOK
<1>2. CASE AddPill
  BY <1>0, <1>2, QueueTypes DEF AddPill, TasksOK
<1>3. CASE Crash \/ Restart
  BY <1>0, <1>3, QueueTypes DEF Crash, Restart, TasksOK
<1>4. ASSUME NEW c \in Cores, CoreGet(c)
      PROVE  TasksOK'
  BY <1>0, <1>4, QueueTypes DEF CoreGet, TasksOK
<1> QED
  BY <1>0, <1>1, <1>2, <1>3, <1>4, WhoChanges DEF TasksOK

LEMMA StepFinish == Types /\ Next => FinishOK'
<1> SUFFICES ASSUME Types, Next PROVE FinishOK'
  OBVIOUS
<1>0. finish \in Seq(Judged \cup {Null})
  BY DEF Types, FinishOK
<1>1. CASE WriterGet
  BY <1>0, <1>1, QueueTypes DEF WriterGet, FinishOK
<1>2. CASE AddPillDB
  BY <1>0, <1>2, QueueTypes DEF AddPillDB, FinishOK
<1>3. CASE Crash \/ Restart
  BY <1>0, <1>3, QueueTypes DEF Crash, Restart, FinishOK
<1>4. ASSUME NEW c \in Cores, CoreFinish(c)
      PROVE  FinishOK'
  <2>1. core[c].task \in Judged
    BY <1>4, StageFacts DEF CoreFinish
  <2> QED
    BY <1>0, <1>4, <2>1, QueueTypes DEF CoreFinish, FinishOK
<1> QED
  BY <1>0, <1>1, <1>2, <1>3, <1>4, WhoChanges DEF FinishOK

\* A reader at a step without a task is at one of these states.
LEMMA ReaderAt ==
    /\ \A at \in {"check", "query", "exited"} :
         [at |-> at, rows |-> {}, task |-> Null] \in ReaderStates
    /\ \A rows \in SUBSET Solutions :
         /\ [at |-> "fetch", rows |-> rows, task |-> Null] \in ReaderStates
         /\ \A t \in Task : /\ [at |-> "mark", rows |-> rows, task |-> t] \in ReaderStates
                           /\ [at |-> "give", rows |-> rows, task |-> t] \in ReaderStates
BY DEF ReaderStates

LEMMA NewTaskType ==
    ASSUME NEW s \in Solutions, NEW loaded \in BOOLEAN
    PROVE  [NewTask(s) EXCEPT !.loaded = loaded] \in Task
BY DEF NewTask, Task

LEMMA StepReader == Types /\ Next => ReaderOK'
<1> SUFFICES ASSUME Types, Next PROVE ReaderOK'
  OBVIOUS
<1>0. reader = [at |-> reader.at, rows |-> reader.rows, task |-> reader.task]
  BY DEF Types, ReaderOK, ReaderStates
<1>1. CASE ReaderCheck
  <2>1. reader.rows = {} /\ reader.task = Null
    BY <1>1, StageFacts DEF ReaderCheck
  <2>2. reader' = [at |-> reader'.at, rows |-> {}, task |-> Null]
        /\ reader'.at \in {"query", "exited"}
    BY <1>0, <1>1, <2>1 DEF ReaderCheck
  <2> QED
    BY <2>2, ReaderAt DEF ReaderOK
<1>2. CASE ReaderQuery
  <2>1. reader.rows = {} /\ reader.task = Null
    BY <1>2, StageFacts DEF ReaderQuery
  <2>2. PICK ok \in BOOLEAN :
          IF ok THEN \E rows \in SUBSET Solutions :
                       reader' = [reader EXCEPT !.at = "fetch", !.rows = rows]
                ELSE \E at \in {"exited", "check"} : reader' = [reader EXCEPT !.at = at]
    BY <1>2 DEF ReaderQuery
  <2>3. CASE ok
    <3>1. PICK rows \in SUBSET Solutions :
            reader' = [reader EXCEPT !.at = "fetch", !.rows = rows]
      BY <2>2, <2>3
    <3>2. reader' = [at |-> "fetch", rows |-> rows, task |-> Null]
      BY <1>0, <2>1, <3>1
    <3> QED
      BY <3>2, ReaderAt DEF ReaderOK
  <2>4. CASE ~ok
    <3>1. PICK at \in {"exited", "check"} : reader' = [reader EXCEPT !.at = at]
      BY <2>2, <2>4
    <3>2. reader' = [at |-> at, rows |-> {}, task |-> Null]
      BY <1>0, <2>1, <3>1
    <3> QED
      BY <3>2, ReaderAt DEF ReaderOK
  <2> QED
    BY <2>3, <2>4
<1>3. CASE ReaderLoad
  <2>1. PICK s \in reader.rows, ok \in BOOLEAN :
          reader' = [at |-> "mark", rows |-> reader.rows \ {s},
                     task |-> [NewTask(s) EXCEPT !.loaded = ok]]
    BY <1>3 DEF ReaderLoad
  <2>2. reader.rows \in SUBSET Solutions
    BY StageFacts
  <2>3. s \in Solutions /\ reader.rows \ {s} \in SUBSET Solutions
    BY <2>1, <2>2
  <2>4. [NewTask(s) EXCEPT !.loaded = ok] \in Task
    BY <2>3, NewTaskType
  <2> QED
    BY <2>1, <2>3, <2>4, ReaderAt DEF ReaderOK
<1>4. CASE ReaderNoMoreRows
  <2>1. reader.task = Null
    BY <1>4, StageFacts DEF ReaderNoMoreRows
  <2>2. reader' = [at |-> "check", rows |-> {}, task |-> Null]
    BY <1>0, <1>4, <2>1 DEF ReaderNoMoreRows
  <2> QED
    BY <2>2, ReaderAt DEF ReaderOK
<1>5. CASE ReaderMark
  <2>1. reader.task \in Task /\ reader.rows \in SUBSET Solutions
    BY <1>5, StageFacts DEF ReaderMark
  <2>2. \/ reader' = [at |-> "give", rows |-> reader.rows, task |-> reader.task]
        \/ reader' = [at |-> "check", rows |-> {}, task |-> Null]
    BY <1>0, <1>5 DEF ReaderMark
  <2> QED
    BY <2>1, <2>2, ReaderAt DEF ReaderOK
<1>6. CASE ReaderGive
  <2>1. reader.rows \in SUBSET Solutions
    BY StageFacts
  <2>2. reader' = [at |-> "fetch", rows |-> reader.rows, task |-> Null]
    BY <1>0, <1>6 DEF ReaderGive
  <2> QED
    BY <2>1, <2>2, ReaderAt DEF ReaderOK
<1>7. CASE Crash \/ Restart
  BY <1>7, ReaderAt DEF Crash, Restart, ReaderOK
<1> QED
  BY <1>1, <1>2, <1>3, <1>4, <1>5, <1>6, <1>7, WhoChanges DEF Reader, Types, ReaderOK

LEMMA CoreAt ==
    /\ \A at \in {"get", "exited"} : [at |-> at, task |-> Null] \in CoreStates
    /\ \A at \in {"compile", "run"}, t \in Task : [at |-> at, task |-> t] \in CoreStates
    /\ \A at \in {"finish", "clean"}, t \in Judged : [at |-> at, task |-> t] \in CoreStates
BY DEF CoreStates

LEMMA CoreStep ==
    ASSUME CoreOK, NEW c \in Cores, NEW at
    PROVE  [core EXCEPT ![c].at = at]
             = [core EXCEPT ![c] = [at |-> at, task |-> core[c].task]]
<1>1. core \in [Cores -> CoreStates] /\ core[c] \in CoreStates
  BY DEF CoreOK
<1>2. core[c] = [at |-> core[c].at, task |-> core[c].task]
  BY <1>1 DEF CoreStates
<1>3. [core[c] EXCEPT !.at = at] = [at |-> at, task |-> core[c].task]
  BY <1>2
<1>4. [core EXCEPT ![c].at = at] = [core EXCEPT ![c] = [core[c] EXCEPT !.at = at]]
  BY <1>1
<1> QED
  BY <1>3, <1>4

LEMMA EndIsJudged ==
    ASSUME CoreOK, NEW c \in Cores, core[c].task \in Task, NEW v \in Verdicts, EndsWith(c, v)
    PROVE  \E t \in Judged : /\ t.sol = core[c].task.sol
                             /\ core' = [core EXCEPT ![c] = [at |-> "finish", task |-> t]]
<1>1. /\ [core[c].task EXCEPT !.verdict = v] \in Judged
      /\ [core[c].task EXCEPT !.verdict = v].sol = core[c].task.sol
  BY DEF Task, Judged
<1>2. core' = [core EXCEPT ![c] = [at |-> "finish",
                                   task |-> [core[c].task EXCEPT !.verdict = v]]]
  BY DEF EndsWith, CoreOK
<1> QED
  BY <1>1, <1>2

\* What one core does to itself, as a new state.
LEMMA StepOfCore ==
    ASSUME Types, NEW c \in Cores, Core(c)
    PROVE  \E r \in CoreStates : core' = [core EXCEPT ![c] = r]
<1>0. CoreOK
  BY DEF Types
<1>1. CASE CoreGet(c)
  <2>1. Head(tasks) \in Task \cup {Null}
    BY <1>1, QueueTypes DEF CoreGet, Types, TasksOK
  <2> QED
    BY <1>1, <2>1, CoreAt DEF CoreGet
<1>2. CASE CoreCompile(c)
  <2>1. core[c].task \in Task
    BY <1>2, StageFacts DEF CoreCompile
  <2>2. \/ EndsWith(c, "SYSTEM")
        \/ EndsWith(c, "COMPLIE")
        \/ core' = [core EXCEPT ![c] = [at |-> "run", task |-> core[c].task]]
    BY <1>0, <1>2, CoreStep DEF CoreCompile
  <2> QED
    BY <1>0, <2>1, <2>2, EndIsJudged, CoreAt, ConstantFacts
<1>3. CASE CoreRun(c)
  <2>1. core[c].task \in Task
    BY <1>3, StageFacts DEF CoreRun
  <2>2. PICK v \in Verdicts : EndsWith(c, v)
    BY <1>3 DEF CoreRun
  <2> QED
    BY <1>0, <2>1, <2>2, EndIsJudged, CoreAt
<1>4. CASE CoreFinish(c)
  <2>1. core[c].task \in Judged
    BY <1>4, StageFacts DEF CoreFinish
  <2>2. core' = [core EXCEPT ![c] = [at |-> "clean", task |-> core[c].task]]
    BY <1>0, <1>4, CoreStep DEF CoreFinish
  <2> QED
    BY <2>1, <2>2, CoreAt
<1>5. CASE CoreCleanUp(c)
  BY <1>5, CoreAt DEF CoreCleanUp
<1> QED
  BY <1>1, <1>2, <1>3, <1>4, <1>5 DEF Core

LEMMA StepCore == Types /\ Next => CoreOK'
<1> SUFFICES ASSUME Types, Next PROVE CoreOK'
  OBVIOUS
<1>1. ASSUME NEW c \in Cores, Core(c)
      PROVE  CoreOK'
  BY <1>1, StepOfCore DEF Types, CoreOK
<1>2. CASE Crash \/ Restart
  BY <1>2, CoreAt DEF Crash, Restart, CoreOK
<1> QED
  BY <1>1, <1>2, WhoChanges DEF Types, CoreOK

LEMMA WriterAt ==
    /\ \A at \in {"check", "get", "exited"} : [at |-> at, task |-> Null] \in WriterStates
    /\ \A at \in {"solution", "user", "problem", "delete"}, t \in Judged :
         [at |-> at, task |-> t] \in WriterStates
    /\ \A t \in Judged : t.verdict = "COMPLIE"
                           => [at |-> "insert", task |-> t] \in WriterStates
BY DEF WriterStates

LEMMA StepWriter == Types /\ Next => WriterOK'
<1> SUFFICES ASSUME Types, Next PROVE WriterOK'
  OBVIOUS
<1>0. writer = [at |-> writer.at, task |-> writer.task]
  BY DEF Types, WriterOK, WriterStates
<1>1. CASE WriterCheck
  <2>1. writer.task = Null
    BY <1>1, StageFacts DEF WriterCheck
  <2> QED
    BY <1>0, <1>1, <2>1, WriterAt DEF WriterCheck, WriterOK
<1>2. CASE WriterGet
  <2>1. Head(finish) \in Judged \cup {Null}
    BY <1>2, QueueTypes DEF WriterGet, Types, FinishOK
  <2> QED
    BY <1>2, <2>1, WriterAt DEF WriterGet, WriterOK
<1>3. CASE UpdateSolution \/ UpdateUser \/ UpdateProblem
  <2>1. writer.task \in Judged
    BY <1>3, StageFacts DEF UpdateSolution, UpdateUser, UpdateProblem
  <2>2. \E at \in {"user", "problem", "delete"} : writer' = [writer EXCEPT !.at = at]
    BY <1>3 DEF UpdateSolution, UpdateUser, UpdateProblem, Recount
  <2>3. \E at \in {"user", "problem", "delete"} : writer' = [at |-> at, task |-> writer.task]
    BY <1>0, <2>2
  <2> QED
    BY <2>1, <2>3, WriterAt DEF WriterOK
<1>4. CASE DeleteInfo
  <2>1. writer.task \in Judged
    BY <1>4, StageFacts DEF DeleteInfo
  <2>2. \/ /\ writer.task.verdict = "COMPLIE"
           /\ writer' = [at |-> "insert", task |-> writer.task]
        \/ writer' = [at |-> "check", task |-> Null]
    BY <1>0, <1>4 DEF DeleteInfo
  <2> QED
    BY <2>1, <2>2, WriterAt DEF WriterOK
<1>5. CASE InsertInfo \/ Crash \/ Restart
  BY <1>5, WriterAt DEF InsertInfo, Crash, Restart, WriterOK
<1> QED
  BY <1>1, <1>2, <1>3, <1>4, <1>5, WhoChanges DEF Writer, Types, WriterOK

LEMMA StepHistory == Types /\ Next => HistoryOK'
<1> SUFFICES ASSUME Types, Next PROVE HistoryOK'
  OBVIOUS
<1>0. HistoryOK
  BY DEF Types
<1>1. ASSUME NEW ok, Tally(ok)
      PROVE  count' \in [{"rejudge", "failure", "crash", "restart"} -> Nat]
  BY <1>0, <1>1 DEF Tally, HistoryOK
<1>2. ASSUME NEW s \in Solutions, Submit(s) \/ Rejudge(s) PROVE HistoryOK'
  BY <1>0, <1>2 DEF Submit, Rejudge, HistoryOK
<1>3. CASE ReaderLoad
  <2>1. PICK s \in reader.rows, ok \in BOOLEAN :
          Tally(ok) /\ overlap' \in {overlap \cup {s}, overlap \ {s}}
    BY <1>3 DEF ReaderLoad
  <2>2. s \in Solutions
    BY <2>1, StageFacts
  <2> QED
    BY <1>0, <1>1, <1>3, <2>1, <2>2 DEF ReaderLoad, HistoryOK
<1>4. CASE ReaderMark
  BY <1>0, <1>1, <1>4 DEF ReaderMark, HistoryOK
<1>5. CASE ReaderCheck \/ ReaderQuery \/ ReaderNoMoreRows \/ ReaderGive
  BY <1>0, <1>1, <1>5
     DEF ReaderCheck, ReaderQuery, ReaderNoMoreRows, ReaderGive, HistoryOK, history
<1>6. ASSUME NEW c \in Cores, Core(c) PROVE HistoryOK'
  BY <1>0, <1>1, <1>6
     DEF Core, CoreGet, CoreCompile, CoreRun, CoreFinish, CoreCleanUp, CoreUnchanged,
         HistoryOK
<1>7. CASE UpdateSolution
  <2>1. writer.task.sol \in Solutions
    BY <1>7, StageFacts, ConstantFacts DEF UpdateSolution, Task
  <2> QED
    BY <1>0, <1>1, <1>7, <2>1 DEF UpdateSolution, WriterUnchanged, HistoryOK
<1>8. CASE Writer /\ ~UpdateSolution
  BY <1>0, <1>1, <1>8
     DEF Writer, WriterCheck, WriterGet, UpdateUser, UpdateProblem, Recount, DeleteInfo,
         InsertInfo, WriterUnchanged, HistoryOK
<1>9. CASE Stop \/ Exit
  <2>1. {s \in Solutions : InFlight(s)} \in SUBSET Solutions
    OBVIOUS
  <2> QED
    BY <1>0, <1>9, <2>1
       DEF Stop, AddPill, JoinCores, StopRunning, AddPillDB, JoinReader, JoinWriter, Exit,
           MainUnchanged, HistoryOK
<1>10. CASE Crash \/ Restart
  <2>1. {s \in Solutions : InFlight(s)} \in SUBSET Solutions
    OBVIOUS
  <2> QED
    BY <1>0, <1>10, <2>1 DEF Crash, Restart, HistoryOK
<1> QED
  BY <1>2, <1>3, <1>4, <1>5, <1>6, <1>7, <1>8, <1>9, <1>10
     DEF Next, Environment, Reader

LEMMA StepTypes == Types /\ [Next]_vars => Types'
<1> SUFFICES ASSUME Types, [Next]_vars PROVE Types'
  OBVIOUS
<1>1. CASE Next
  BY <1>1, StepTable, StepFiles, StepMain, StepTasks, StepFinish, StepReader, StepCore,
     StepWriter, StepHistory DEF Types
<1>2. CASE UNCHANGED vars
  BY <1>2
     DEF vars, table, mainVars, queues, threads, history, Types, TableOK, FilesOK, MainOK,
         TasksOK, FinishOK, ReaderOK, CoreOK, WriterOK, HistoryOK
<1> QED
  BY <1>1, <1>2

LEMMA AlwaysTypes == Spec => []Types
BY InitTypes, StepTypes, PTL DEF Spec

\* Every variable keeps its type, whatever the threads, the web site, the
\* failures and the shutdown of main interleave to.
THEOREM TypeCorrect == Spec => []TypeOK
BY AlwaysTypes, TypesAreOK, PTL

-----------------------------------------------------------------------------
(***************************************************************************)
(* main joins the cores, then the reader, then the writer: a thread it has *)
(* joined has ended.                                                       *)
(***************************************************************************)
Joined ==
    /\ main \in {"stopDB", "pillDB", "joinReader", "joinWriter", "down"}
         => \A c \in Cores : core[c].at = "exited"
    /\ main \in {"joinWriter", "down"} => reader.at = "exited"
    /\ main = "down" => writer.at = "exited"

LEMMA InitJoined == Init => Joined
BY DEF Init, Joined

LEMMA StepJoined == Types /\ Joined /\ [Next]_vars => Joined'
<1> SUFFICES ASSUME Types, Joined, [Next]_vars PROVE Joined'
  OBVIOUS
<1>1. ASSUME NEW s \in Solutions, Submit(s) \/ Rejudge(s) PROVE Joined'
  BY <1>1 DEF Submit, Rejudge, Joined, mainVars, threads
<1>2. CASE Reader
  <2>1. UNCHANGED <<main, core, writer>> /\ reader.at # "exited"
    BY <1>2 DEF Reader, ReaderCheck, ReaderQuery, ReaderLoad, ReaderNoMoreRows, ReaderMark,
                ReaderGive, ReaderUnchanged, mainVars
  <2> QED
    BY <2>1 DEF Joined
<1>3. ASSUME NEW c \in Cores, Core(c) PROVE Joined'
  <2>1. UNCHANGED <<main, reader, writer>> /\ core[c].at # "exited"
    BY <1>3 DEF Core, CoreGet, CoreCompile, CoreRun, CoreFinish, CoreCleanUp, CoreUnchanged,
                mainVars
  <2> QED
    BY <2>1 DEF Joined
<1>4. CASE Writer
  <2>1. UNCHANGED <<main, reader, core>> /\ writer.at # "exited"
    BY <1>4 DEF Writer, WriterCheck, WriterGet, UpdateSolution, UpdateUser, UpdateProblem,
                DeleteInfo, InsertInfo, Recount, WriterUnchanged, mainVars
  <2> QED
    BY <2>1 DEF Joined
<1>5. CASE Stop
  BY <1>5 DEF Stop, AddPill, JoinCores, StopRunning, AddPillDB, JoinReader, JoinWriter,
              MainUnchanged, threads, Joined
<1>6. CASE Exit \/ Crash \/ Restart
  BY <1>6 DEF Exit, Crash, Restart, MainUnchanged, threads, Joined
<1>7. CASE UNCHANGED vars
  BY <1>7 DEF vars, mainVars, threads, Joined
<1> QED
  BY <1>1, <1>2, <1>3, <1>4, <1>5, <1>6, <1>7 DEF Next, Environment

LEMMA AlwaysJoined == Spec => [](Types /\ Joined)
BY InitTypes, StepTypes, InitJoined, StepJoined, PTL DEF Spec

-----------------------------------------------------------------------------
(***************************************************************************)
(* The places of a task in flight, and how a step moves it from one to     *)
(* the next.                                                               *)
(***************************************************************************)
AtReader(s)   == reader.at = "give" /\ Holds(reader.task, s)
CoreHas(c, s) == core[c].at \in {"compile", "run", "finish"} /\ Holds(core[c].task, s)
AtWriter(s)   == writer.at = "solution" /\ Holds(writer.task, s)

LEMMA Places ==
    ASSUME NEW s
    PROVE  InFlight(s) <=> /\ main # "down"
                           /\ \/ AtReader(s) \/ Queued(tasks, s)
                              \/ \E c \in Cores : CoreHas(c, s)
                              \/ Queued(finish, s) \/ AtWriter(s)
BY DEF InFlight, AtReader, CoreHas, AtWriter

LEMMA QueuedEmpty == ASSUME NEW s PROVE ~Queued(<<>>, s)
BY DEF Queued

LEMMA QueuedAppend ==
    ASSUME NEW S, NEW q \in Seq(S \cup {Null}), NEW t \in S, NEW s
    PROVE  Queued(Append(q, t), s) <=> Queued(q, s) \/ Holds(t, s)
<1>1. Len(Append(q, t)) = Len(q) + 1 /\ Len(q) \in Nat
  OBVIOUS
<1>2. \A n \in 1 .. Len(q) + 1 : Append(q, t)[n] = IF n = Len(q) + 1 THEN t ELSE q[n]
  OBVIOUS
<1>3. 1 .. Len(q) + 1 = 1 .. Len(q) \cup {Len(q) + 1} /\ Len(q) + 1 \notin 1 .. Len(q)
  BY <1>1
<1> QED
  BY <1>1, <1>2, <1>3 DEF Queued

LEMMA QueuedTail ==
    ASSUME NEW S, NEW q \in Seq(S \cup {Null}), q # <<>>, NEW s
    PROVE  Queued(q, s) <=> Holds(Head(q), s) \/ Queued(Tail(q), s)
<1>1. /\ Len(q) \in Nat \ {0} /\ Len(Tail(q)) = Len(q) - 1 /\ Head(q) = q[1]
      /\ \A n \in 1 .. Len(q) - 1 : Tail(q)[n] = q[n + 1]
  OBVIOUS
<1>2. ASSUME Queued(q, s) PROVE Holds(Head(q), s) \/ Queued(Tail(q), s)
  <2>1. PICK n \in 1 .. Len(q) : Holds(q[n], s)
    BY <1>2 DEF Queued
  <2>2. CASE n # 1
    <3>1. n - 1 \in 1 .. Len(q) - 1 /\ (n - 1) + 1 = n
      BY <1>1, <2>2
    <3>2. Tail(q)[n - 1] = q[n]
      BY <1>1, <3>1
    <3> QED
      BY <1>1, <2>1, <3>1, <3>2 DEF Queued
  <2> QED
    BY <1>1, <2>1, <2>2
<1>3. ASSUME Queued(Tail(q), s) PROVE Queued(q, s)
  <2>1. PICK n \in 1 .. Len(q) - 1 : Holds(q[n + 1], s)
    BY <1>1, <1>3 DEF Queued
  <2>2. n + 1 \in 1 .. Len(q)
    BY <1>1
  <2> QED
    BY <2>1, <2>2 DEF Queued
<1>4. ASSUME Holds(Head(q), s) PROVE Queued(q, s)
  BY <1>1, <1>4 DEF Queued
<1> QED
  BY <1>2, <1>3, <1>4

LEMMA QueuedPill ==
    ASSUME NEW S, NEW q \in Seq(S \cup {Null}), NEW s
    PROVE  Queued(<<Null>> \o q, s) <=> Queued(q, s)
<1> DEFINE p == <<Null>> \o q
<1>1. /\ Len(q) \in Nat /\ Len(p) = Len(q) + 1 /\ p[1] = Null
      /\ \A n \in 1 .. Len(q) : p[n + 1] = q[n]
  OBVIOUS
<1> HIDE DEF p
<1>2. ASSUME Queued(p, s) PROVE Queued(q, s)
  <2>1. PICK n \in 1 .. Len(p) : Holds(p[n], s)
    BY <1>2 DEF Queued
  <2>2. n # 1
    BY <1>1, <2>1 DEF Holds
  <2>3. n - 1 \in 1 .. Len(q) /\ (n - 1) + 1 = n
    BY <1>1, <2>2
  <2>4. p[n] = q[n - 1]
    BY <1>1, <2>3
  <2> QED
    BY <2>1, <2>3, <2>4 DEF Queued
<1>3. ASSUME Queued(q, s) PROVE Queued(p, s)
  <2>1. PICK n \in 1 .. Len(q) : Holds(q[n], s)
    BY <1>3 DEF Queued
  <2>2. n + 1 \in 1 .. Len(p) /\ p[n + 1] = q[n]
    BY <1>1
  <2> QED
    BY <2>1, <2>2 DEF Queued
<1>4. Queued(p, s) <=> Queued(q, s)
  BY <1>2, <1>3
<1> QED
  BY <1>4 DEF p

\* A row is at most once in a queue.
Once(q, s) == \A m, n \in 1 .. Len(q) : Holds(q[m], s) /\ Holds(q[n], s) => m = n

LEMMA OnceAppend ==
    ASSUME NEW S, NEW q \in Seq(S \cup {Null}), NEW t \in S, NEW s,
           Once(q, s), ~(Queued(q, s) /\ Holds(t, s))
    PROVE  Once(Append(q, t), s)
<1>1. Len(Append(q, t)) = Len(q) + 1 /\ Len(q) \in Nat
  OBVIOUS
<1>2. \A n \in 1 .. Len(q) + 1 : Append(q, t)[n] = IF n = Len(q) + 1 THEN t ELSE q[n]
  OBVIOUS
<1>3. \A n \in 1 .. Len(q) + 1 : n = Len(q) + 1 \/ n \in 1 .. Len(q)
  BY <1>1
<1>4. ASSUME NEW m \in 1 .. Len(q) + 1, NEW n \in 1 .. Len(q) + 1,
             Holds(Append(q, t)[m], s), Holds(Append(q, t)[n], s)
      PROVE  m = n
  <2>1. CASE m = Len(q) + 1 /\ n = Len(q) + 1
    BY <2>1
  <2>2. CASE m \in 1 .. Len(q) /\ n \in 1 .. Len(q)
    <3>1. m # Len(q) + 1 /\ n # Len(q) + 1
      BY <1>1, <2>2
    <3> QED
      BY <1>2, <1>4, <2>2, <3>1 DEF Once
  <2>3. ASSUME NEW k \in 1 .. Len(q), Holds(Append(q, t)[k], s),
               Holds(Append(q, t)[Len(q) + 1], s)
        PROVE  FALSE
    <3>1. k # Len(q) + 1 /\ k \in 1 .. Len(q) + 1 /\ Len(q) + 1 \in 1 .. Len(q) + 1
      BY <1>1
    <3>2. Append(q, t)[k] = q[k] /\ Append(q, t)[Len(q) + 1] = t
      BY <1>2, <3>1
    <3> QED
      BY <2>3, <3>2 DEF Queued
  <2> QED
    BY <1>3, <1>4, <2>1, <2>2, <2>3
<1> QED
  BY <1>1, <1>4 DEF Once

LEMMA OnceTail ==
    ASSUME NEW S, NEW q \in Seq(S \cup {Null}), q # <<>>, NEW s, Once(q, s)
    PROVE  Once(Tail(q), s) /\ ~(Holds(Head(q), s) /\ Queued(Tail(q), s))
<1>1. /\ Len(q) \in Nat \ {0} /\ Len(Tail(q)) = Len(q) - 1 /\ Head(q) = q[1]
      /\ \A n \in 1 .. Len(q) - 1 : Tail(q)[n] = q[n + 1]
  OBVIOUS
<1>2. \A n \in 1 .. Len(q) - 1 : n + 1 \in 1 .. Len(q) /\ n + 1 # 1
  BY <1>1
<1>3. 1 \in 1 .. Len(q)
  BY <1>1
<1>4. Once(Tail(q), s)
  BY <1>1, <1>2 DEF Once
<1>5. ~(Holds(Head(q), s) /\ Queued(Tail(q), s))
  BY <1>1, <1>2, <1>3 DEF Once, Queued
<1> QED
  BY <1>4, <1>5

LEMMA OncePill ==
    ASSUME NEW S, NEW q \in Seq(S \cup {Null}), NEW s, Once(q, s)
    PROVE  Once(<<Null>> \o q, s)
<1> DEFINE p == <<Null>> \o q
<1>1. /\ Len(q) \in Nat /\ Len(p) = Len(q) + 1 /\ p[1] = Null
      /\ \A n \in 1 .. Len(q) : p[n + 1] = q[n]
  OBVIOUS
<1> HIDE DEF p
<1>2. ASSUME NEW n \in 1 .. Len(p), Holds(p[n], s)
      PROVE  n - 1 \in 1 .. Len(q) /\ p[n] = q[n - 1]
  <2>1. n # 1
    BY <1>1, <1>2 DEF Holds
  <2>2. n - 1 \in 1 .. Len(q) /\ (n - 1) + 1 = n
    BY <1>1, <2>1
  <2> QED
    BY <1>1, <2>2
<1>3. ASSUME NEW m \in 1 .. Len(p), NEW n \in 1 .. Len(p), Holds(p[m], s), Holds(p[n], s)
      PROVE  m = n
  <2>1. m - 1 = n - 1
    BY <1>2, <1>3 DEF Once
  <2> QED
    BY <1>1, <2>1
<1> QED
  BY <1>3 DEF Once, p

LEMMA OnceEmpty == ASSUME NEW s PROVE Once(<<>>, s)
BY DEF Once

-----------------------------------------------------------------------------
(***************************************************************************)
(* The moves of the threads                                                *)
(***************************************************************************)
LEMMA ReaderMoves ==
    ASSUME Types, Reader, NEW s
    PROVE  /\ UNCHANGED <<main, finish, core, writer>>
           /\ \/ /\ ReaderGive
                 /\ ~AtReader(s)'
                 /\ Queued(tasks', s) <=> Queued(tasks, s) \/ AtReader(s)
              \/ /\ ReaderMark
                 /\ tasks' = tasks
                 /\ ~AtReader(s)
                 /\ AtReader(s)' <=> reader'.at = "give" /\ Holds(reader.task, s)
              \/ /\ ~ReaderMark
                 /\ tasks' = tasks
                 /\ ~AtReader(s)
                 /\ ~AtReader(s)'
<1>0. reader = [at |-> reader.at, rows |-> reader.rows, task |-> reader.task]
  BY DEF Types, ReaderOK, ReaderStates
<1>1. UNCHANGED <<main, finish, core, writer>>
  BY DEF Reader, ReaderCheck, ReaderQuery, ReaderLoad, ReaderNoMoreRows, ReaderMark,
         ReaderGive, ReaderUnchanged, mainVars
<1>2. CASE ReaderGive
  <2>1. reader.task \in Task /\ tasks \in Seq(Task \cup {Null})
    BY <1>2, StageFacts DEF ReaderGive, Types, TasksOK
  <2>2. Queued(tasks', s) <=> Queued(tasks, s) \/ Holds(reader.task, s)
    BY <1>2, <2>1, QueuedAppend DEF ReaderGive
  <2>3. reader.at = "give" /\ reader'.at = "fetch"
    BY <1>0, <1>2 DEF ReaderGive
  <2> QED
    BY <1>1, <1>2, <2>2, <2>3 DEF AtReader
<1>3. CASE ReaderMark
  <2>1. reader.at = "mark" /\ tasks' = tasks
        /\ (reader'.at = "give" => reader'.task = reader.task)
    BY <1>0, <1>3 DEF ReaderMark
  <2> QED
    BY <1>1, <1>3, <2>1 DEF AtReader
<1>4. CASE ReaderCheck \/ ReaderQuery \/ ReaderLoad \/ ReaderNoMoreRows
  <2>1. reader.at \notin {"mark", "give"} /\ tasks' = tasks
    BY <1>4 DEF ReaderCheck, ReaderQuery, ReaderLoad, ReaderNoMoreRows
  <2>2. reader'.at # "give"
    <3>1. CASE ReaderQuery
      BY <1>0, <3>1 DEF ReaderQuery
    <3>2. CASE ReaderCheck \/ ReaderLoad \/ ReaderNoMoreRows
      BY <1>0, <3>2 DEF ReaderCheck, ReaderLoad, ReaderNoMoreRows
    <3> QED
      BY <1>4, <3>1, <3>2
  <2> QED
    BY <1>1, <2>1, <2>2 DEF AtReader, ReaderMark
<1> QED
  BY <1>2, <1>3, <1>4 DEF Reader

LEMMA CoreMoves ==
    ASSUME Types, NEW c \in Cores, Core(c), NEW s
    PROVE  /\ UNCHANGED <<main, reader, writer>>
           /\ \A d \in Cores \ {c} : core'[d] = core[d]
           /\ \/ /\ finish' = finish
                 /\ ~CoreHas(c, s)
                 /\ Queued(tasks, s) <=> CoreHas(c, s)' \/ Queued(tasks', s)
                 /\ CoreGet(c)
                 /\ CoreHas(c, s)' <=> Holds(Head(tasks), s)
              \/ /\ UNCHANGED <<tasks, finish>>
                 /\ CoreHas(c, s)' <=> CoreHas(c, s)
              \/ /\ tasks' = tasks
                 /\ CoreFinish(c)
                 /\ ~CoreHas(c, s)'
                 /\ Queued(finish', s) <=> Queued(finish, s) \/ CoreHas(c, s)
<1>0. /\ core \in [Cores -> CoreStates]
      /\ core[c] = [at |-> core[c].at, task |-> core[c].task]
  BY DEF Types, CoreOK, CoreStates
<1>1. UNCHANGED <<main, reader, writer>>
  BY DEF Core, CoreGet, CoreCompile, CoreRun, CoreFinish, CoreCleanUp, CoreUnchanged, mainVars
<1>2. \A d \in Cores \ {c} : core'[d] = core[d]
  BY <1>0, StepOfCore
<1>3. CASE CoreGet(c)
  <2>1. tasks \in Seq(Task \cup {Null}) /\ tasks # <<>> /\ tasks' = Tail(tasks)
        /\ Head(tasks) \in Task \cup {Null}
    BY <1>3, QueueTypes DEF CoreGet, Types, TasksOK
  <2>2. Queued(tasks, s) <=> Holds(Head(tasks), s) \/ Queued(tasks', s)
    BY <2>1, QueuedTail
  <2>3. /\ core[c].at = "get" /\ core'[c].task = Head(tasks)
        /\ core'[c].at = IF Head(tasks) = Null THEN "exited" ELSE "compile"
    BY <1>0, <1>3 DEF CoreGet
  <2>4. CoreHas(c, s)' <=> Holds(Head(tasks), s)
    BY <2>3 DEF CoreHas, Holds
  <2> QED
    BY <1>1, <1>2, <1>3, <2>2, <2>3, <2>4 DEF CoreHas, CoreGet
<1>4. CASE CoreCompile(c) \/ CoreRun(c)
  <2>1. CoreOK /\ core[c].task \in Task /\ core[c].at \in {"compile", "run"}
    BY <1>4, StageFacts DEF CoreCompile, CoreRun, Types
  <2>2. \/ core' = [core EXCEPT ![c] = [at |-> "run", task |-> core[c].task]]
        \/ \E v \in Verdicts : EndsWith(c, v)
    BY <1>4, <2>1, CoreStep, ConstantFacts DEF CoreCompile, CoreRun
  <2>3. \E t \in Task, at \in {"run", "finish"} :
          /\ t.sol = core[c].task.sol
          /\ core' = [core EXCEPT ![c] = [at |-> at, task |-> t]]
    BY <2>1, <2>2, EndIsJudged, ConstantFacts
  <2>4. /\ core'[c].at \in {"run", "finish"} /\ core'[c].task \in Task
        /\ core'[c].task.sol = core[c].task.sol
    BY <1>0, <2>3
  <2>5. CoreHas(c, s)' <=> CoreHas(c, s)
    BY <2>1, <2>4, ConstantFacts DEF CoreHas, Holds
  <2>6. UNCHANGED <<tasks, finish>>
    BY <1>4 DEF CoreCompile, CoreRun, queues
  <2> QED
    BY <1>1, <1>2, <2>5, <2>6
<1>5. CASE CoreFinish(c)
  <2>1. core[c].task \in Judged /\ finish \in Seq(Judged \cup {Null})
    BY <1>5, StageFacts DEF CoreFinish, Types, FinishOK
  <2>2. Queued(finish', s) <=> Queued(finish, s) \/ Holds(core[c].task, s)
    BY <1>5, <2>1, QueuedAppend DEF CoreFinish
  <2>3. core[c].at = "finish" /\ core'[c].at = "clean"
    BY <1>0, <1>5 DEF CoreFinish
  <2> QED
    BY <1>1, <1>2, <1>5, <2>2, <2>3 DEF CoreHas, CoreFinish
<1>6. CASE CoreCleanUp(c)
  <2>1. core[c].at = "clean" /\ core'[c].at \in {"get", "exited"}
    BY <1>0, <1>6 DEF CoreCleanUp
  <2> QED
    BY <1>1, <1>2, <1>6, <2>1 DEF CoreHas, CoreCleanUp, queues
<1> QED
  BY <1>3, <1>4, <1>5, <1>6 DEF Core

LEMMA WriterMoves ==
    ASSUME Types, Writer, NEW s
    PROVE  /\ UNCHANGED <<main, tasks, reader, core>>
           /\ \/ /\ ~UpdateSolution
                 /\ ~AtWriter(s)
                 /\ Queued(finish, s) <=> AtWriter(s)' \/ Queued(finish', s)
                 /\ WriterGet
                 /\ AtWriter(s)' <=> Holds(Head(finish), s)
              \/ /\ UpdateSolution
                 /\ finish' = finish
                 /\ ~AtWriter(s)'
                 /\ AtWriter(s) <=> writer.task.sol = s
              \/ /\ ~UpdateSolution
                 /\ finish' = finish
                 /\ ~AtWriter(s)
                 /\ ~AtWriter(s)'
<1>0. writer = [at |-> writer.at, task |-> writer.task]
  BY DEF Types, WriterOK, WriterStates
<1>1. UNCHANGED <<main, tasks, reader, core>>
  BY DEF Writer, WriterCheck, WriterGet, UpdateSolution, UpdateUser, UpdateProblem, DeleteInfo,
         InsertInfo, Recount, WriterUnchanged, mainVars
<1>2. CASE WriterGet
  <2>1. finish \in Seq(Judged \cup {Null}) /\ finish # <<>> /\ finish' = Tail(finish)
    BY <1>2 DEF WriterGet, Types, FinishOK
  <2>2. Queued(finish, s) <=> Holds(Head(finish), s) \/ Queued(finish', s)
    BY <2>1, QueuedTail
  <2>3. /\ writer.at = "get" /\ writer'.task = Head(finish)
        /\ writer'.at = IF Head(finish) = Null THEN "exited" ELSE "solution"
    BY <1>2 DEF WriterGet
  <2>4. AtWriter(s)' <=> Holds(Head(finish), s)
    BY <2>3 DEF AtWriter, Holds
  <2> QED
    BY <1>1, <1>2, <2>2, <2>3, <2>4 DEF AtWriter, UpdateSolution
<1>3. CASE UpdateSolution
  <2>1. writer.at = "solution" /\ writer'.at = "user" /\ finish' = finish
    BY <1>0, <1>3 DEF UpdateSolution
  <2>2. writer.task # Null
    BY <2>1, StageFacts, ConstantFacts
  <2> QED
    BY <1>1, <1>3, <2>1, <2>2 DEF AtWriter, Holds
<1>4. CASE Writer /\ ~WriterGet /\ ~UpdateSolution
  <2>1. writer.at # "solution" /\ writer'.at # "solution" /\ finish' = finish
    BY <1>0, <1>4 DEF Writer, WriterCheck, UpdateUser, UpdateProblem, Recount, DeleteInfo,
                      InsertInfo
  <2> QED
    BY <1>1, <1>4, <2>1 DEF AtWriter
<1> QED
  BY <1>2, <1>3, <1>4

LEMMA StopMoves ==
    ASSUME Types, Stop \/ Exit, NEW s
    PROVE  /\ UNCHANGED <<reader, core, writer>>
           /\ Queued(tasks', s) <=> Queued(tasks, s)
           /\ Queued(finish', s) <=> Queued(finish, s)
           /\ main # "down" /\ (main' = "down" <=> JoinWriter)
<1>0. tasks \in Seq(Task \cup {Null}) /\ finish \in Seq(Judged \cup {Null})
  BY DEF Types, TasksOK, FinishOK
<1>1. UNCHANGED <<reader, core, writer>>
  BY DEF Stop, AddPill, JoinCores, StopRunning, AddPillDB, JoinReader, JoinWriter, Exit,
         MainUnchanged, threads
<1>2. tasks' \in {tasks, <<Null>> \o tasks} /\ finish' \in {finish, <<Null>> \o finish}
  BY DEF Stop, AddPill, JoinCores, StopRunning, AddPillDB, JoinReader, JoinWriter, Exit, queues
<1>3. main # "down" /\ (main' = "down" <=> JoinWriter)
  BY DEF Stop, AddPill, JoinCores, StopRunning, AddPillDB, JoinReader, JoinWriter, Exit
<1>4. Queued(<<Null>> \o tasks, s) <=> Queued(tasks, s)
  BY ONLY <1>0, QueuedPill
<1>5. Queued(<<Null>> \o finish, s) <=> Queued(finish, s)
  BY ONLY <1>0, QueuedPill
<1>6. Queued(tasks', s) <=> Queued(tasks, s)
  BY ONLY <1>2, <1>4
<1>7. Queued(finish', s) <=> Queued(finish, s)
  BY ONLY <1>2, <1>5
<1> QED
  BY ONLY <1>1, <1>3, <1>6, <1>7

\* Which steps begin and end the flight of a task.
LEMMA FlightOf ==
    ASSUME Types, Joined, Next, NEW s
    PROVE  /\ ReaderMark => (InFlight(s)' <=> \/ InFlight(s)
                                              \/ reader'.at = "give" /\ Holds(reader.task, s))
           /\ UpdateSolution => /\ InFlight(s)' => InFlight(s)
                                /\ InFlight(s) => InFlight(s)' \/ writer.task.sol = s
           /\ Crash \/ JoinWriter => ~InFlight(s)'
           /\ \/ ReaderMark \/ UpdateSolution \/ Crash \/ JoinWriter
              \/ InFlight(s)' <=> InFlight(s)
<1>0. /\ InFlight(s) <=> /\ main # "down"
                         /\ \/ AtReader(s) \/ Queued(tasks, s)
                            \/ \E c \in Cores : CoreHas(c, s)
                            \/ Queued(finish, s) \/ AtWriter(s)
      /\ InFlight(s)' <=> /\ main' # "down"
                          /\ \/ AtReader(s)' \/ Queued(tasks', s)
                             \/ \E c \in Cores : CoreHas(c, s)'
                             \/ Queued(finish', s) \/ AtWriter(s)'
  BY DEF InFlight, AtReader, CoreHas, AtWriter, Queued, Holds
<1>1. ASSUME NEW r \in Solutions, Submit(r) \/ Rejudge(r)
      PROVE  InFlight(s)' <=> InFlight(s)
  BY <1>1 DEF Submit, Rejudge, mainVars, queues, threads, InFlight, Queued, Holds
<1>2. ASSUME Reader
      PROVE  /\ ReaderMark => (InFlight(s)' <=> \/ InFlight(s)
                                                \/ reader'.at = "give" /\ Holds(reader.task, s))
             /\ ReaderMark \/ (InFlight(s)' <=> InFlight(s))
  <2>1. /\ main' = main /\ finish' = finish
        /\ \A c \in Cores : CoreHas(c, s)' <=> CoreHas(c, s)
        /\ AtWriter(s)' <=> AtWriter(s)
    BY <1>2, ReaderMoves DEF CoreHas, AtWriter
  <2>2. ReaderMark => reader.at = "mark" /\ main # "down"
    BY DEF ReaderMark, Joined
  <2>3. ~ReaderGive \/ ~ReaderMark
    BY DEF ReaderGive, ReaderMark
  <2> QED
    BY <1>0, <1>2, <2>1, <2>2, <2>3, ReaderMoves
<1>3. ASSUME NEW c \in Cores, Core(c)
      PROVE  InFlight(s)' <=> InFlight(s)
  <2>1. /\ main' = main
        /\ AtReader(s)' <=> AtReader(s)
        /\ AtWriter(s)' <=> AtWriter(s)
        /\ \A d \in Cores \ {c} : CoreHas(d, s)' <=> CoreHas(d, s)
    BY <1>3, CoreMoves DEF CoreHas, AtReader, AtWriter
  <2> QED
    BY <1>0, <1>3, <2>1, CoreMoves
<1>4. ASSUME Writer
      PROVE  /\ UpdateSolution => /\ InFlight(s)' => InFlight(s)
                                  /\ InFlight(s) => InFlight(s)' \/ writer.task.sol = s
             /\ UpdateSolution \/ (InFlight(s)' <=> InFlight(s))
  <2>1. /\ main' = main /\ tasks' = tasks
        /\ \A c \in Cores : CoreHas(c, s)' <=> CoreHas(c, s)
        /\ AtReader(s)' <=> AtReader(s)
    BY <1>4, WriterMoves DEF CoreHas, AtReader
  <2> QED
    BY <1>0, <1>4, <2>1, WriterMoves
<1>5. ASSUME Stop \/ Exit
      PROVE  IF JoinWriter THEN ~InFlight(s)' ELSE InFlight(s)' <=> InFlight(s)
  <2>1. /\ \A c \in Cores : CoreHas(c, s)' <=> CoreHas(c, s)
        /\ AtReader(s)' <=> AtReader(s)
        /\ AtWriter(s)' <=> AtWriter(s)
        /\ Queued(tasks', s) <=> Queued(tasks, s)
        /\ Queued(finish', s) <=> Queued(finish, s)
        /\ main # "down" /\ (main' = "down" <=> JoinWriter)
    BY <1>5, StopMoves DEF CoreHas, AtReader, AtWriter
  <2> QED
    BY <1>0, <2>1
<1>6. Crash => ~InFlight(s)'
  BY <1>0 DEF Crash
<1>7. CASE Restart
  <2>1. /\ main = "down" /\ tasks' = <<>> /\ finish' = <<>>
        /\ ~AtReader(s)' /\ ~AtWriter(s)' /\ \A c \in Cores : ~CoreHas(c, s)'
    BY <1>7 DEF Restart, AtReader, AtWriter, CoreHas
  <2>2. InFlight(s)' <=> InFlight(s)
    BY <1>0, <2>1, QueuedEmpty
  <2>3. ~ReaderMark /\ ~UpdateSolution /\ ~Crash /\ ~JoinWriter
    BY <2>1 DEF ReaderMark, UpdateSolution, Crash, JoinWriter, Joined
  <2> QED
    BY <2>2, <2>3
<1>8. (ReaderMark => Reader) /\ (UpdateSolution => Writer) /\ (JoinWriter => Stop)
  BY DEF Reader, Writer, Stop
<1> QED
  BY <1>1, <1>2, <1>3, <1>4, <1>5, <1>6, <1>7, <1>8 DEF Next, Environment

-----------------------------------------------------------------------------
LEMMA StepCovered ==
    Types /\ Joined /\ CompilingIsCovered /\ [Next]_vars => CompilingIsCovered'
<1> SUFFICES ASSUME Types, Joined, CompilingIsCovered, [Next]_vars,
                    NEW s \in Solutions, result'[s] = "COMPILING"
             PROVE  InFlight(s)' \/ s \in lost'
  BY DEF CompilingIsCovered
<1>0. result[s] = "COMPILING" => InFlight(s) \/ s \in lost
  BY DEF CompilingIsCovered
<1>1. CASE UNCHANGED vars
  BY <1>0, <1>1 DEF vars, table, mainVars, queues, threads, history, InFlight, Queued, Holds
<1>2. CASE ReaderMark
  <2>1. reader.task \in Task /\ reader.task # Null
    BY <1>2, StageFacts, ConstantFacts DEF ReaderMark
  <2>2. CASE reader'.at = "give" /\ reader.task.sol = s
    BY <1>2, <2>1, <2>2, FlightOf DEF Next, Environment, Reader, Holds
  <2>3. CASE ~(reader'.at = "give" /\ reader.task.sol = s)
    <3>1. reader = [at |-> reader.at, rows |-> reader.rows, task |-> reader.task]
      BY DEF Types, ReaderOK, ReaderStates
    <3>2. result'[s] = result[s] /\ (s \in lost => s \in lost')
      BY <1>2, <2>3, <3>1 DEF ReaderMark, Types, TableOK
    <3> QED
      BY <1>0, <1>2, <3>2, FlightOf DEF Next, Environment, Reader
  <2> QED
    BY <2>2, <2>3
<1>3. CASE UpdateSolution
  <2>1. writer.task.verdict # "COMPILING"
    BY <1>3, StageFacts, ConstantFacts DEF UpdateSolution, Judged
  <2>2. CASE writer.task.sol = s
    <3>1. s \in lost'
      BY <1>3, <2>1, <2>2 DEF UpdateSolution, Types, TableOK
    <3> QED
      BY <3>1
  <2>3. CASE writer.task.sol # s
    <3>1. result'[s] = result[s] /\ (s \in lost => s \in lost')
      BY <1>3, <2>3 DEF UpdateSolution, Types, TableOK
    <3> QED
      BY <1>0, <1>3, <2>3, <3>1, FlightOf DEF Next, Environment, Writer
  <2> QED
    BY <2>2, <2>3
<1>4. CASE Crash \/ JoinWriter
  <2>1. result' = result /\ lost' = lost \cup {r \in Solutions : InFlight(r)}
    BY <1>4 DEF Crash, JoinWriter, MainUnchanged, table
  <2> QED
    BY <1>0, <2>1
<1>5. CASE Next /\ ~ReaderMark /\ ~UpdateSolution /\ ~Crash /\ ~JoinWriter
  <2>1. lost' = lost /\ (InFlight(s)' <=> InFlight(s))
    BY <1>5, WhoRecords, FlightOf
  <2>2. result[s] = "COMPILING"
    <3>1. ASSUME NEW r \in Solutions, Submit(r) \/ Rejudge(r)
          PROVE  result[s] = "COMPILING"
      BY <3>1 DEF Submit, Rejudge, Types, TableOK
    <3> QED
      BY <1>5, <3>1, WhoChanges
  <2> QED
    BY <1>0, <2>1, <2>2
<1> QED
  BY <1>1, <1>2, <1>3, <1>4, <1>5

\* DBManager::doRead marks a row COMPILING before the task is queued, and no
\* failure, exit or crash after that leaves the row in this state without
\* either a task on its way to the writer or a record that the task is lost.
THEOREM CompilingCovered == Spec => []CompilingIsCovered
<1>1. Init => CompilingIsCovered
  BY DEF Init, CompilingIsCovered
<1> QED
  BY <1>1, AlwaysJoined, StepCovered, PTL DEF Spec

-----------------------------------------------------------------------------
(***************************************************************************)
(* The derived tables follow the verdict in the order of doWrite's         *)
(* updates: the row the writer is at may still be counted as it was before *)
(* in a column that is yet to come, every other row is right.              *)
(***************************************************************************)
Storing(s, steps) == writer.at \in steps /\ Holds(writer.task, s)

StepsFrom == [user    |-> {"user"},
              problem |-> {"user", "problem"},
              info    |-> {"user", "problem", "delete", "insert"}]

RowInStep(s) ==
    /\ \A column \in {"user", "problem"} :
         ~Storing(s, StepsFrom[column])
           => (s \in counted[column] <=> result[s] = "ACCEPT")
    /\ ~Storing(s, StepsFrom["info"]) => (s \in compileinfo <=> result[s] = "COMPLIE")
    /\ Storing(s, StepsFrom["info"]) => result[s] = writer.task.verdict

InStep == count.failure = 0 /\ count.crash = 0
            => \A s \in Solutions : result[s] \in Verdicts => RowInStep(s)

LEMMA InStepAgrees == Types /\ InStep => DerivedDataAgrees
<1> SUFFICES ASSUME Types, InStep, writer.at \in {"check", "get", "exited"},
                    count.failure = 0, count.crash = 0,
                    NEW s \in Solutions, result[s] \in Verdicts
             PROVE  /\ \A column \in {"user", "problem"} :
                         s \in counted[column] <=> result[s] = "ACCEPT"
                    /\ s \in compileinfo <=> result[s] = "COMPLIE"
  BY DEF DerivedDataAgrees
<1>1. RowInStep(s)
  BY DEF InStep
<1>2. \A steps : ~Storing(s, steps)
  BY StageFacts DEF Storing, Holds
<1> QED
  BY <1>1, <1>2 DEF RowInStep

\* While nothing has failed, the step at hand did not fail either.
LEMMA NothingFailed ==
    ASSUME Types, Next, count'.failure = 0, count'.crash = 0
    PROVE  /\ count.failure = 0 /\ count.crash = 0
           /\ ~Crash
           /\ \A ok \in BOOLEAN : Tally(ok) => ok
<1>0. count \in [{"rejudge", "failure", "crash", "restart"} -> Nat]
  BY DEF Types, HistoryOK
<1>1. ASSUME NEW ok \in BOOLEAN, Tally(ok)
      PROVE  ok /\ count' = count
  BY <1>0, <1>1 DEF Tally
<1>2. ~Crash
  BY <1>0 DEF Crash
<1>3. ASSUME NEW s \in Solutions, Submit(s) \/ Rejudge(s)
      PROVE  count'.failure = count.failure /\ count'.crash = count.crash
  BY <1>0, <1>3 DEF Submit, Rejudge
<1>4. CASE Restart
  BY <1>0, <1>1, <1>2, <1>4 DEF Restart
<1>5. CASE Exit \/ Stop
  BY <1>1, <1>2, <1>5 DEF Exit, Stop, AddPill, JoinCores, StopRunning, AddPillDB, JoinReader,
                          JoinWriter, MainUnchanged
<1>6. CASE Reader
  BY <1>1, <1>2, <1>6 DEF Reader, ReaderCheck, ReaderQuery, ReaderLoad, ReaderNoMoreRows,
                          ReaderMark, ReaderGive, history
<1>7. CASE Writer
  BY <1>1, <1>2, <1>7 DEF Writer, WriterCheck, WriterGet, UpdateSolution, UpdateUser,
                          UpdateProblem, Recount, DeleteInfo, InsertInfo
<1>8. ASSUME NEW c \in Cores, Core(c)
      PROVE  count' = count
  BY <1>1, <1>8 DEF Core, CoreGet, CoreCompile, CoreRun, CoreFinish, CoreCleanUp
<1> QED
  BY <1>1, <1>2, <1>3, <1>4, <1>5, <1>6, <1>7, <1>8 DEF Next, Environment

LEMMA StepInStep == Types /\ Joined /\ InStep /\ [Next]_vars => InStep'
<1> SUFFICES ASSUME Types, Joined, InStep, Next,
                    count'.failure = 0, count'.crash = 0,
                    NEW s \in Solutions, result'[s] \in Verdicts
             PROVE  RowInStep(s)'
  <2>1. UNCHANGED vars /\ InStep => InStep'
    BY DEF vars, table, threads, history, InStep, RowInStep, Storing, Holds
  <2> QED
    BY <2>1 DEF InStep
<1>0. /\ count.failure = 0 /\ count.crash = 0 /\ ~Crash
      /\ \A ok \in BOOLEAN : Tally(ok) => ok
      /\ result[s] \in Verdicts => RowInStep(s)
  BY NothingFailed DEF InStep
\* Nobody but the writer gives a row a verdict.
<1>1. ASSUME ~UpdateSolution
      PROVE  result'[s] = result[s]
  <2>1. CASE ReaderMark
    <3>1. result' \in {result, [result EXCEPT ![reader.task.sol] = "COMPILING"]}
      BY <2>1 DEF ReaderMark
    <3> QED
      BY <3>1, ConstantFacts DEF Types, TableOK
  <2>2. ASSUME NEW r \in Solutions, Submit(r) \/ Rejudge(r)
        PROVE  result'[s] = result[s]
    BY <2>2, ConstantFacts DEF Submit, Rejudge, Waiting, Types, TableOK
  <2> QED
    BY <1>1, <2>1, <2>2, WhoChanges
<1>2. CASE writer' = writer
  <2>1. counted' = counted /\ compileinfo' = compileinfo /\ ~UpdateSolution
    <3>1. ~UpdateSolution /\ ~UpdateUser /\ ~UpdateProblem /\ ~DeleteInfo /\ ~InsertInfo
      <4>1. writer = [at |-> writer.at, task |-> writer.task]
        BY DEF Types, WriterOK, WriterStates
      <4> QED
        BY <1>2, <4>1 DEF UpdateSolution, UpdateUser, UpdateProblem, Recount, DeleteInfo,
                          InsertInfo
    <3> QED
      BY <3>1, WhoChanges
  <2> QED
    BY <1>0, <1>1, <1>2, <2>1 DEF RowInStep, Storing
<1>3. CASE Restart
  <2>1. writer.at = "exited" /\ writer'.at = "check" /\ UNCHANGED table
    BY <1>3 DEF Restart, Joined
  <2>2. \A column \in {"user", "problem", "info"} :
          ~Storing(s, StepsFrom[column]) /\ ~Storing(s, StepsFrom[column])'
    BY <2>1 DEF Storing, StepsFrom
  <2> QED
    BY <1>0, <2>1, <2>2 DEF table, RowInStep
<1>4. CASE Writer
  <2>0. writer = [at |-> writer.at, task |-> writer.task]
    BY DEF Types, WriterOK, WriterStates
  <2>1. CASE WriterCheck \/ WriterGet
    <3>1. UNCHANGED table /\ writer.at \in {"check", "get"}
          /\ writer'.at \in {"get", "exited", "solution"}
      BY <2>0, <2>1 DEF WriterCheck, WriterGet
    <3>2. \A column \in {"user", "problem", "info"} :
            ~Storing(s, StepsFrom[column]) /\ ~Storing(s, StepsFrom[column])'
      BY <3>1 DEF Storing, StepsFrom
    <3> QED
      BY <1>0, <3>1, <3>2 DEF table, RowInStep
  <2>2. CASE UpdateSolution
    <3>1. /\ writer.at = "solution" /\ writer.task # Null
          /\ writer' = [at |-> "user", task |-> writer.task]
          /\ result' = [result EXCEPT ![writer.task.sol] = writer.task.verdict]
          /\ counted' = counted /\ compileinfo' = compileinfo
      BY <1>0, <2>0, <2>2, StageFacts, ConstantFacts DEF UpdateSolution
    <3>2. \A column \in {"user", "problem", "info"} :
            /\ ~Storing(s, StepsFrom[column])
            /\ Storing(s, StepsFrom[column])' <=> s = writer.task.sol
      BY <3>1 DEF Storing, StepsFrom, Holds
    <3>3. CASE s = writer.task.sol
      BY <3>1, <3>2, <3>3 DEF RowInStep, Types, TableOK
    <3>4. CASE s # writer.task.sol
      <4>1. result'[s] = result[s]
        BY <3>1, <3>4 DEF Types, TableOK
      <4> QED
        BY <1>0, <3>1, <3>2, <3>4, <4>1 DEF RowInStep
    <3> QED
      BY <3>3, <3>4
  <2>3. CASE UpdateUser
    <3>1. /\ writer.at = "user" /\ writer.task # Null
          /\ writer' = [at |-> "problem", task |-> writer.task]
          /\ counted' = [counted EXCEPT !["user"] = Accepted]
          /\ result' = result /\ compileinfo' = compileinfo
      BY <1>0, <2>0, <2>3, StageFacts, ConstantFacts DEF UpdateUser, Recount
    <3>2. /\ s \in counted'["user"] <=> result[s] = "ACCEPT"
          /\ counted'["problem"] = counted["problem"]
      BY <3>1 DEF Types, TableOK, Accepted
    <3>3. \A column \in {"problem", "info"} :
            /\ Storing(s, StepsFrom[column]) <=> s = writer.task.sol
            /\ Storing(s, StepsFrom[column])' <=> s = writer.task.sol
      BY <3>1 DEF Storing, StepsFrom, Holds
    <3> QED
      BY <1>0, <3>1, <3>2, <3>3 DEF RowInStep
  <2>4. CASE UpdateProblem
    <3>1. /\ writer.at = "problem" /\ writer.task # Null
          /\ writer' = [at |-> "delete", task |-> writer.task]
          /\ counted' = [counted EXCEPT !["problem"] = Accepted]
          /\ result' = result /\ compileinfo' = compileinfo
      BY <1>0, <2>0, <2>4, StageFacts, ConstantFacts DEF UpdateProblem, Recount
    <3>2. /\ s \in counted'["problem"] <=> result[s] = "ACCEPT"
          /\ counted'["user"] = counted["user"]
      BY <3>1 DEF Types, TableOK, Accepted
    <3>3. /\ ~Storing(s, StepsFrom["user"])
          /\ Storing(s, StepsFrom["info"]) <=> s = writer.task.sol
          /\ Storing(s, StepsFrom["info"])' <=> s = writer.task.sol
      BY <3>1 DEF Storing, StepsFrom, Holds
    <3> QED
      BY <1>0, <3>1, <3>2, <3>3 DEF RowInStep
  <2>5. CASE DeleteInfo
    <3>1. /\ writer.at = "delete" /\ writer.task # Null
          /\ \/ /\ writer.task.verdict = "COMPLIE"
                /\ writer' = [at |-> "insert", task |-> writer.task]
             \/ writer.task.verdict # "COMPLIE" /\ writer' = [at |-> "check", task |-> Null]
          /\ compileinfo' = compileinfo \ {writer.task.sol}
          /\ result' = result /\ counted' = counted
      BY <1>0, <2>0, <2>5, StageFacts, ConstantFacts DEF DeleteInfo
    <3>2. /\ \A column \in {"user", "problem"} : ~Storing(s, StepsFrom[column])
          /\ Storing(s, StepsFrom["info"]) <=> s = writer.task.sol
          /\ Storing(s, StepsFrom["info"])'
               <=> writer.task.verdict = "COMPLIE" /\ s = writer.task.sol
      BY <3>1 DEF Storing, StepsFrom, Holds
    <3>3. writer.task.verdict = "COMPLIE" => writer'.task = writer.task
      BY <3>1
    <3> QED
      BY <1>0, <3>1, <3>2, <3>3 DEF RowInStep
  <2>6. CASE InsertInfo
    <3>1. /\ writer.at = "insert" /\ writer.task # Null /\ writer.task.verdict = "COMPLIE"
          /\ writer' = [at |-> "check", task |-> Null]
          /\ compileinfo' = compileinfo \cup {writer.task.sol}
          /\ result' = result /\ counted' = counted
      BY <1>0, <2>6, StageFacts, ConstantFacts DEF InsertInfo
    <3>2. /\ \A column \in {"user", "problem"} : ~Storing(s, StepsFrom[column])
          /\ Storing(s, StepsFrom["info"]) <=> s = writer.task.sol
          /\ \A column \in {"user", "problem", "info"} : ~Storing(s, StepsFrom[column])'
      BY <3>1 DEF Storing, StepsFrom, Holds
    <3> QED
      BY <1>0, <3>1, <3>2 DEF RowInStep
  <2> QED
    BY <1>4, <2>1, <2>2, <2>3, <2>4, <2>5, <2>6 DEF Writer
<1> QED
  BY <1>0, <1>2, <1>3, <1>4, WhoChanges

\* DBManager::doWrite updates four tables one after the other, without a
\* transaction: if no query fails and the process does not die in between,
\* they agree whenever the writer is between two verdicts, even though rows
\* are re-queued while their verdict is being stored.
THEOREM DerivedAgree == Spec => []DerivedDataAgrees
<1>1. Init => InStep
  BY ConstantFacts DEF Init, InStep
<1>2. Spec => [](Types /\ InStep)
  BY <1>1, InitTypes, InitJoined, StepTypes, StepJoined, StepInStep, PTL DEF Spec
<1> QED
  BY <1>2, InStepAgrees, PTL
=============================================================================
