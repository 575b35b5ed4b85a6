-------------------------- MODULE JudgerRefinement --------------------------
(***************************************************************************)
(* The pipeline implements the service, for any solutions and cores and    *)
(* any bounds, if the site re-queues only rows that nobody is judging      *)
(* (RejudgeAnytime is FALSE).                                              *)
(*                                                                         *)
(* The argument: a row has at most one task in flight (Alone), because the *)
(* reader marks only rows that wait (RowsWait) and a row with a task in    *)
(* flight shows COMPILING (InJudgement).  So the update that stores a      *)
(* verdict ends the only flight of its row: that is the service's Publish. *)
(***************************************************************************)
EXTENDS JudgerProofs

OnCore(s) == \E c \in Cores : CoreHas(c, s)

\* No two tasks in flight are for the same row.
Alone(s) ==
    /\ Once(tasks, s) /\ Once(finish, s)
    /\ \A c, d \in Cores : CoreHas(c, s) /\ CoreHas(d, s) => c = d
    /\ AtReader(s) => ~Queued(tasks, s)
    /\ AtReader(s) \/ Queued(tasks, s) => ~OnCore(s)
    /\ AtReader(s) \/ Queued(tasks, s) \/ OnCore(s) => ~Queued(finish, s)
    /\ AtReader(s) \/ Queued(tasks, s) \/ OnCore(s) \/ Queued(finish, s) => ~AtWriter(s)

AllAlone == \A s \in Solutions : Alone(s)

\* A row with a task in flight shows it.
InJudgement == \A s \in Solutions : InFlight(s) => result[s] = "COMPILING"

\* What the reader has selected still waits, until the reader marks it.
RowsWait ==
    /\ \A s \in reader.rows : result[s] \in Waiting /\ ~Holds(reader.task, s)
    /\ reader.at = "mark" => result[reader.task.sol] \in Waiting

OneTask == AllAlone /\ InJudgement /\ RowsWait

-----------------------------------------------------------------------------
(***************************************************************************)
(* One task for one row                                                    *)
(***************************************************************************)

\* The reader marks a row nobody has a task for.
LEMMA MarkedIsFree ==
    ASSUME Types, Joined, OneTask, ReaderMark
    PROVE  /\ reader.task \in Task /\ reader.task # Null /\ reader.task.sol \in Solutions
           /\ result[reader.task.sol] \in Waiting
           /\ main # "down" /\ ~InFlight(reader.task.sol)
<1>1. reader.at = "mark" /\ reader.task \in Task /\ main # "down"
  BY StageFacts DEF ReaderMark, Joined
<1>2. reader.task # Null /\ reader.task.sol \in Solutions
  BY <1>1, ConstantFacts DEF Task
<1>3. result[reader.task.sol] \in Waiting /\ "COMPILING" \notin Waiting
  BY <1>1 DEF OneTask, RowsWait, Waiting
<1> QED
  BY <1>1, <1>2, <1>3 DEF OneTask, InJudgement

\* The writer stores the verdict of a row in flight, whose flight ends.
LEMMA StoredLands ==
    ASSUME Types, Joined, OneTask, UpdateSolution, NEW s, s = writer.task.sol
    PROVE  /\ writer.task \in Judged /\ s \in Solutions
           /\ result[s] = "COMPILING"
           /\ InFlight(s) /\ ~InFlight(s)'
<1>1. /\ writer.at = "solution" /\ writer.task \in Judged /\ writer.task # Null
      /\ s \in Solutions /\ main # "down"
  BY StageFacts, ConstantFacts DEF UpdateSolution, Joined, Task
<1>2. AtWriter(s)
  BY <1>1 DEF AtWriter, Holds
<1>3. InFlight(s)
  BY <1>1, <1>2, Places
<1>4. ~AtReader(s) /\ ~Queued(tasks, s) /\ ~OnCore(s) /\ ~Queued(finish, s)
  BY <1>1, <1>2 DEF OneTask, AllAlone, Alone
<1>5. UNCHANGED <<main, tasks, finish, reader, core>> /\ ~AtWriter(s)'
  <2>1. writer = [at |-> writer.at, task |-> writer.task]
    BY DEF Types, WriterOK, WriterStates
  <2> QED
    BY <1>1, <2>1 DEF UpdateSolution, WriterUnchanged, mainVars, AtWriter
<1>6. ~InFlight(s)'
  <2>1. /\ InFlight(s)' <=> /\ main' # "down"
                            /\ \/ AtReader(s)' \/ Queued(tasks, s)'
                               \/ \E c \in Cores : CoreHas(c, s)'
                               \/ Queued(finish, s)' \/ AtWriter(s)'
    BY DEF InFlight, AtReader, CoreHas, AtWriter
  <2>2. /\ AtReader(s)' <=> AtReader(s)
        /\ Queued(tasks, s)' <=> Queued(tasks, s)
        /\ Queued(finish, s)' <=> Queued(finish, s)
        /\ \A c \in Cores : CoreHas(c, s)' <=> CoreHas(c, s)
    BY <1>5 DEF AtReader, CoreHas, Queued, Holds
  <2> QED
    BY <1>4, <1>5, <2>1, <2>2 DEF OnCore
<1> QED
  BY <1>1, <1>3, <1>6 DEF OneTask, InJudgement

LEMMA StepAlone ==
    ASSUME Types, Joined, OneTask, Next
    PROVE  AllAlone'
<1> SUFFICES ASSUME NEW s \in Solutions PROVE Alone(s)'
  BY DEF AllAlone
<1>0. Alone(s)
  BY DEF OneTask, AllAlone
<1>1. ASSUME NEW r \in Solutions, Submit(r) \/ Rejudge(r) PROVE Alone(s)'
  BY <1>0, <1>1
     DEF Submit, Rejudge, queues, threads, Alone, Once, OnCore, AtReader, CoreHas, AtWriter,
         Queued, Holds
<1>2. CASE Reader
  <2>1. /\ finish' = finish /\ Once(finish, s)' /\ (Queued(finish, s)' <=> Queued(finish, s))
        /\ \A c \in Cores : CoreHas(c, s)' <=> CoreHas(c, s)
        /\ AtWriter(s)' <=> AtWriter(s)
        /\ OnCore(s)' <=> OnCore(s)
        /\ Queued(tasks, s)' <=> Queued(tasks', s)
    BY <1>0, <1>2, ReaderMoves DEF CoreHas, AtWriter, OnCore, Alone, Once, Queued, Holds
  <2>2. CASE ReaderGive
    <3>1. ~AtReader(s)' /\ (Queued(tasks', s) <=> Queued(tasks, s) \/ AtReader(s))
      BY <1>2, <2>2, ReaderMoves DEF ReaderGive, AtReader, ReaderMark
    <3>2. reader.task \in Task /\ tasks \in Seq(Task \cup {Null})
          /\ tasks' = Append(tasks, reader.task) /\ reader.at = "give"
      BY <2>2, StageFacts DEF ReaderGive, Types, TasksOK
    <3>3. Once(tasks', s)
      BY <1>0, <3>2, OnceAppend DEF Alone, AtReader
    <3>4. Once(tasks, s)'
      BY <3>3 DEF Once, Holds
    <3> QED
      BY <1>0, <2>1, <3>1, <3>4 DEF Alone
  <2>3. CASE ReaderMark
    <3>1. tasks' = tasks /\ ~AtReader(s)
          /\ (AtReader(s)' <=> reader'.at = "give" /\ Holds(reader.task, s))
      BY <1>2, <2>3, ReaderMoves DEF ReaderGive, ReaderMark
    <3>2. Holds(reader.task, s) => /\ ~Queued(tasks, s) /\ ~OnCore(s)
                                   /\ ~Queued(finish, s) /\ ~AtWriter(s)
      BY <2>3, MarkedIsFree, Places DEF Holds, OnCore
    <3>3. Once(tasks, s)' /\ (Queued(tasks, s)' <=> Queued(tasks, s))
      BY <1>0, <3>1 DEF Alone, Once, Queued, Holds
    <3> QED
      BY <1>0, <2>1, <3>1, <3>2, <3>3 DEF Alone
  <2>4. CASE ~ReaderGive /\ ~ReaderMark
    <3>1. tasks' = tasks /\ ~AtReader(s) /\ ~AtReader(s)'
      BY <1>2, <2>4, ReaderMoves
    <3>2. Once(tasks, s)' /\ (Queued(tasks, s)' <=> Queued(tasks, s))
      BY <1>0, <3>1 DEF Alone, Once, Queued, Holds
    <3> QED
      BY <1>0, <2>1, <3>1, <3>2 DEF Alone
  <2> QED
    BY <2>2, <2>3, <2>4
<1>3. ASSUME NEW c \in Cores, Core(c) PROVE Alone(s)'
  <2>1. /\ AtReader(s)' <=> AtReader(s)
        /\ AtWriter(s)' <=> AtWriter(s)
        /\ \A d \in Cores \ {c} : CoreHas(d, s)' <=> CoreHas(d, s)
        /\ Queued(tasks, s)' <=> Queued(tasks', s)
        /\ Queued(finish, s)' <=> Queued(finish', s)
        /\ Once(tasks, s)' <=> Once(tasks', s)
        /\ Once(finish, s)' <=> Once(finish', s)
    BY <1>3, CoreMoves DEF CoreHas, AtReader, AtWriter, Queued, Once, Holds
  <2>2. CASE /\ finish' = finish /\ ~CoreHas(c, s) /\ CoreGet(c)
             /\ CoreHas(c, s)' <=> Holds(Head(tasks), s)
             /\ Queued(tasks, s) <=> CoreHas(c, s)' \/ Queued(tasks', s)
    <3>1. tasks \in Seq(Task \cup {Null}) /\ tasks # <<>> /\ tasks' = Tail(tasks)
      BY <2>2 DEF CoreGet, Types, TasksOK
    <3>2. Once(tasks', s) /\ ~(CoreHas(c, s)' /\ Queued(tasks', s))
      BY <1>0, <2>2, <3>1, OnceTail DEF Alone
    <3>3. CoreHas(c, s)' => \A d \in Cores : ~CoreHas(d, s)
      BY <1>0, <2>2 DEF Alone, OnCore
    <3> QED
      BY <1>0, <2>1, <2>2, <3>2, <3>3 DEF Alone, OnCore
  <2>3. CASE UNCHANGED <<tasks, finish>> /\ (CoreHas(c, s)' <=> CoreHas(c, s))
    BY <1>0, <2>1, <2>3 DEF Alone, OnCore
  <2>4. CASE /\ tasks' = tasks /\ CoreFinish(c) /\ ~CoreHas(c, s)'
             /\ Queued(finish', s) <=> Queued(finish, s) \/ CoreHas(c, s)
    <3>1. core[c].task \in Judged /\ finish \in Seq(Judged \cup {Null})
          /\ finish' = Append(finish, core[c].task) /\ core[c].at = "finish"
      BY <2>4, StageFacts DEF CoreFinish, Types, FinishOK
    <3>2. Once(finish', s)
      BY <1>0, <3>1, OnceAppend DEF Alone, OnCore, CoreHas
    <3>3. CoreHas(c, s) => ~OnCore(s)'
      BY <1>0, <2>1, <2>4 DEF Alone, OnCore
    <3> QED
      BY <1>0, <2>1, <2>4, <3>2, <3>3 DEF Alone, OnCore
  <2> QED
    BY <1>3, <2>2, <2>3, <2>4, CoreMoves
<1>4. CASE Writer
  <2>1. /\ AtReader(s)' <=> AtReader(s)
        /\ \A c \in Cores : CoreHas(c, s)' <=> CoreHas(c, s)
        /\ OnCore(s)' <=> OnCore(s)
        /\ Queued(tasks, s)' <=> Queued(tasks, s)
        /\ Queued(finish, s)' <=> Queued(finish', s)
        /\ Once(tasks, s)' <=> Once(tasks, s)
        /\ Once(finish, s)' <=> Once(finish', s)
    BY <1>4, WriterMoves DEF CoreHas, OnCore, AtReader, Queued, Once, Holds
  <2>2. CASE /\ ~AtWriter(s) /\ WriterGet
             /\ AtWriter(s)' <=> Holds(Head(finish), s)
             /\ Queued(finish, s) <=> AtWriter(s)' \/ Queued(finish', s)
    <3>1. finish \in Seq(Judged \cup {Null}) /\ finish # <<>> /\ finish' = Tail(finish)
      BY <2>2 DEF WriterGet, Types, FinishOK
    <3>2. Once(finish', s) /\ ~(AtWriter(s)' /\ Queued(finish', s))
      BY <1>0, <2>2, <3>1, OnceTail DEF Alone
    <3> QED
      BY <1>0, <2>1, <2>2, <3>2 DEF Alone
  <2>3. CASE finish' = finish /\ ~AtWriter(s)'
    BY <1>0, <2>1, <2>3 DEF Alone
  <2> QED
    BY <1>4, <2>2, <2>3, WriterMoves
<1>5. CASE Stop \/ Exit
  <2>1. /\ AtReader(s)' <=> AtReader(s)
        /\ AtWriter(s)' <=> AtWriter(s)
        /\ \A c \in Cores : CoreHas(c, s)' <=> CoreHas(c, s)
        /\ OnCore(s)' <=> OnCore(s)
        /\ Queued(tasks, s)' <=> Queued(tasks, s)
        /\ Queued(finish, s)' <=> Queued(finish, s)
        /\ Once(tasks, s)' <=> Once(tasks', s)
        /\ Once(finish, s)' <=> Once(finish', s)
    BY <1>5, StopMoves DEF CoreHas, OnCore, AtReader, AtWriter, Queued, Once, Holds
  <2>2. tasks' \in {tasks, <<Null>> \o tasks} /\ finish' \in {finish, <<Null>> \o finish}
    BY <1>5 DEF Stop, AddPill, JoinCores, StopRunning, AddPillDB, JoinReader, JoinWriter,
                Exit, queues
  <2>3. tasks \in Seq(Task \cup {Null}) /\ finish \in Seq(Judged \cup {Null})
    BY DEF Types, TasksOK, FinishOK
  <2>4. Once(tasks', s) /\ Once(finish', s)
    BY <1>0, <2>2, <2>3, OncePill DEF Alone
  <2> QED
    BY <1>0, <2>1, <2>4 DEF Alone
<1>6. CASE Crash \/ Restart
  <2>1. /\ ~AtReader(s)' /\ ~AtWriter(s)' /\ \A c \in Cores : ~CoreHas(c, s)'
        /\ tasks' = <<>> /\ finish' = <<>>
    BY <1>6 DEF Crash, Restart, AtReader, AtWriter, CoreHas
  <2>2. Once(tasks, s)' /\ Once(finish, s)' /\ ~Queued(tasks, s)' /\ ~Queued(finish, s)'
    BY <2>1 DEF Once, Queued
  <2> QED
    BY <2>1, <2>2 DEF Alone, OnCore
<1> QED
  BY <1>1, <1>2, <1>3, <1>4, <1>5, <1>6 DEF Next, Environment

LEMMA StepInJudgement ==
    ASSUME Types, Joined, OneTask, Next, ~RejudgeAnytime
    PROVE  InJudgement'
<1> SUFFICES ASSUME NEW s \in Solutions, InFlight(s)' PROVE result'[s] = "COMPILING"
  BY DEF InJudgement
<1>0. InFlight(s) => result[s] = "COMPILING"
  BY DEF OneTask, InJudgement
<1>1. CASE ReaderMark
  <2>1. reader.task # Null /\ reader.task.sol \in Solutions
    BY <1>1, MarkedIsFree
  <2>2. InFlight(s) \/ (reader'.at = "give" /\ reader.task.sol = s)
    BY <1>1, FlightOf DEF Holds
  <2>3. reader'.at = "give" => result' = [result EXCEPT ![reader.task.sol] = "COMPILING"]
    <3>1. reader = [at |-> reader.at, rows |-> reader.rows, task |-> reader.task]
      BY DEF Types, ReaderOK, ReaderStates
    <3> QED
      BY <1>1, <3>1 DEF ReaderMark
  <2>4. result' \in {result, [result EXCEPT ![reader.task.sol] = "COMPILING"]}
    BY <1>1 DEF ReaderMark
  <2> QED
    BY <1>0, <2>1, <2>2, <2>3, <2>4 DEF Types, TableOK
<1>2. CASE UpdateSolution
  <2>1. InFlight(s) /\ s # writer.task.sol
    BY <1>2, FlightOf, StoredLands
  <2>2. result' \in {result, [result EXCEPT ![writer.task.sol] = writer.task.verdict]}
    BY <1>2 DEF UpdateSolution
  <2> QED
    BY <1>0, <2>1, <2>2 DEF Types, TableOK
<1>3. ASSUME NEW r \in Solutions, Submit(r) \/ Rejudge(r)
      PROVE  result'[s] = "COMPILING"
  <2>1. UNCHANGED <<main, tasks, finish, reader, core, writer>>
    BY <1>3 DEF Submit, Rejudge, mainVars, queues, threads
  <2>2. InFlight(s) /\ main # "down"
    BY <2>1 DEF InFlight, Queued, Holds
  <2>3. result[r] # "COMPILING"
    BY <1>3, <2>2, ConstantFacts DEF Submit, Rejudge
  <2> QED
    BY <1>0, <1>3, <2>2, <2>3 DEF Submit, Rejudge, Types, TableOK
<1>4. CASE Crash \/ JoinWriter
  BY <1>4, FlightOf
<1>5. CASE /\ ~ReaderMark /\ ~UpdateSolution /\ ~Crash /\ ~JoinWriter
           /\ ~\E r \in Solutions : Submit(r) \/ Rejudge(r)
  BY <1>0, <1>5, FlightOf, WhoChanges
<1> QED
  BY <1>1, <1>2, <1>3, <1>4, <1>5

LEMMA StepRowsWait ==
    ASSUME Types, Joined, OneTask, Next
    PROVE  RowsWait'
<1>0. /\ \A s \in reader.rows :
           s \in Solutions /\ result[s] \in Waiting /\ ~Holds(reader.task, s)
      /\ reader.at = "mark" => /\ reader.task.sol \in Solutions
                               /\ result[reader.task.sol] \in Waiting
      /\ reader = [at |-> reader.at, rows |-> reader.rows, task |-> reader.task]
      /\ result \in [Solutions -> Status] /\ "COMPILING" \notin Waiting
  BY StageFacts, ConstantFacts
     DEF OneTask, RowsWait, Task, Waiting, Types, TableOK, ReaderOK, ReaderStates
<1>1. CASE reader' = reader
  <2>1. \A s \in Solutions : result[s] \in Waiting => result'[s] \in Waiting
    <3>1. CASE UpdateSolution
      <4>1. \A s \in Solutions : result[s] \in Waiting => s # writer.task.sol
        BY <1>0, <3>1, StoredLands
      <4>2. result' \in {result, [result EXCEPT ![writer.task.sol] = writer.task.verdict]}
        BY <3>1 DEF UpdateSolution
      <4> QED
        BY <1>0, <4>1, <4>2
    <3>2. ASSUME NEW r \in Solutions, Submit(r) \/ Rejudge(r), NEW s \in Solutions,
                 result[s] \in Waiting
          PROVE  result'[s] \in Waiting
      BY <1>0, <3>2 DEF Submit, Rejudge, Waiting
    <3>3. ~ReaderMark
      BY <1>0, <1>1 DEF ReaderMark
    <3> QED
      BY <3>1, <3>2, <3>3, WhoChanges
  <2> QED
    BY <1>0, <1>1, <2>1 DEF RowsWait, Holds
<1>2. CASE ReaderCheck \/ ReaderNoMoreRows
  <2>1. reader'.rows = {} /\ reader'.at # "mark"
    BY <1>0, <1>2, StageFacts DEF ReaderCheck, ReaderNoMoreRows
  <2> QED
    BY <2>1 DEF RowsWait
<1>3. CASE ReaderQuery
  <2>0. reader.rows = {} /\ reader.task = Null
    BY <1>3, StageFacts DEF ReaderQuery
  <2>1. /\ reader'.at # "mark" /\ reader'.task = Null /\ result' = result
        /\ \A s \in reader'.rows : result[s] \in Waiting
    <3>1. \/ \E rows \in SUBSET {s \in Solutions : result[s] \in Waiting} :
               reader' = [reader EXCEPT !.at = "fetch", !.rows = rows]
          \/ \E at \in {"exited", "check"} : reader' = [reader EXCEPT !.at = at]
      BY <1>3 DEF ReaderQuery
    <3>2. result' = result
      BY <1>3 DEF ReaderQuery
    <3> QED
      BY <1>0, <2>0, <3>1, <3>2
  <2> QED
    BY <2>1 DEF RowsWait, Holds
<1>4. CASE ReaderLoad
  <2>1. PICK s \in reader.rows, ok \in BOOLEAN :
          reader' = [at |-> "mark", rows |-> reader.rows \ {s},
                     task |-> [NewTask(s) EXCEPT !.loaded = ok]]
    BY <1>4 DEF ReaderLoad
  <2>2. [NewTask(s) EXCEPT !.loaded = ok].sol = s
    BY DEF NewTask
  <2>3. result' = result
    BY <1>4 DEF ReaderLoad
  <2> QED
    BY <1>0, <2>1, <2>2, <2>3 DEF RowsWait, Holds
<1>5. CASE ReaderMark
  <2>1. \/ /\ result' = [result EXCEPT ![reader.task.sol] = "COMPILING"]
           /\ reader' = [at |-> "give", rows |-> reader.rows, task |-> reader.task]
        \/ reader' = [at |-> "check", rows |-> {}, task |-> Null]
    BY <1>0, <1>5 DEF ReaderMark
  <2>2. reader.task # Null
    BY <1>5, MarkedIsFree
  <2> QED
    BY <1>0, <2>1, <2>2 DEF RowsWait, Holds
<1>6. CASE ReaderGive
  <2>1. /\ reader' = [at |-> "fetch", rows |-> reader.rows, task |-> Null]
        /\ result' = result
    BY <1>0, <1>6 DEF ReaderGive
  <2> QED
    BY <1>0, <2>1 DEF RowsWait, Holds
<1>7. CASE Crash \/ Restart
  BY <1>7 DEF Crash, Restart, RowsWait
<1> QED
  BY <1>1, <1>2, <1>3, <1>4, <1>5, <1>6, <1>7, WhoChanges DEF Reader

LEMMA InitOneTask == Init => OneTask
<1> SUFFICES ASSUME Init PROVE OneTask
  OBVIOUS
<1>1. \A s : /\ ~AtReader(s) /\ ~AtWriter(s) /\ ~OnCore(s)
             /\ ~Queued(tasks, s) /\ ~Queued(finish, s)
             /\ Once(tasks, s) /\ Once(finish, s)
             /\ \A c \in Cores : ~CoreHas(c, s)
  BY QueuedEmpty, OnceEmpty DEF Init, Start, AtReader, AtWriter, OnCore, CoreHas
<1>2. AllAlone
  BY <1>1 DEF AllAlone, Alone
<1>3. InJudgement
  BY <1>1, Places DEF InJudgement
<1>4. RowsWait
  BY DEF Init, Start, RowsWait
<1> QED
  BY <1>2, <1>3, <1>4 DEF OneTask

LEMMA StepOneTask ==
    ASSUME ~RejudgeAnytime
    PROVE  Types /\ Joined /\ OneTask /\ [Next]_vars => OneTask'
<1>1. Types /\ Joined /\ OneTask /\ Next => OneTask'
  BY StepAlone, StepInJudgement, StepRowsWait DEF OneTask
<1>2. OneTask /\ UNCHANGED vars => OneTask'
  BY DEF vars, table, mainVars, queues, threads, OneTask, AllAlone, Alone, InJudgement,
         RowsWait, Once, OnCore, AtReader, CoreHas, AtWriter, InFlight, Queued, Holds
<1> QED
  BY <1>1, <1>2

LEMMA AlwaysOneTask ==
    ASSUME ~RejudgeAnytime
    PROVE  Spec => [](Types /\ Joined /\ OneTask)
BY InitTypes, StepTypes, InitJoined, StepJoined, InitOneTask, StepOneTask, PTL DEF Spec

\* A row has at most one task between its acceptance by DBManager::doRead and
\* the update of DBManager::doWrite that stores its verdict, wherever the task
\* is: with the reader, in a queue, on a core, with the writer.
THEOREM OneTaskPerRow ==
    ASSUME ~RejudgeAnytime
    PROVE  Spec => [](AllAlone /\ InJudgement)
BY AlwaysOneTask, PTL DEF OneTask

-----------------------------------------------------------------------------
LEMMA StepNotForgotten ==
    ASSUME Types, Joined, OneTask, RequestNotForgotten, Next
    PROVE  RequestNotForgotten'
<1> SUFFICES ASSUME NEW s \in asked' PROVE result'[s] \in Waiting
  BY DEF RequestNotForgotten
<1>0. /\ asked \in SUBSET Solutions /\ result \in [Solutions -> Status]
      /\ \A r \in asked : result[r] \in Waiting
  BY DEF Types, HistoryOK, TableOK, RequestNotForgotten
<1>1. CASE ReaderMark
  <2>1. \/ /\ result' = [result EXCEPT ![reader.task.sol] = "COMPILING"]
           /\ asked' = asked \ {reader.task.sol}
        \/ result' = result /\ asked' = asked
    BY <1>1 DEF ReaderMark
  <2> QED
    BY <1>0, <2>1
<1>2. ASSUME NEW r \in Solutions, Submit(r) \/ Rejudge(r)
      PROVE  result'[s] \in Waiting
  <2>1. /\ asked' = asked \cup {r}
        /\ \E w \in Waiting : result' = [result EXCEPT ![r] = w]
    BY <1>2 DEF Submit, Rejudge, Waiting
  <2> QED
    BY <1>0, <2>1
<1>3. CASE UpdateSolution
  <2>1. s \in asked
    BY <1>3 DEF UpdateSolution, WriterUnchanged
  <2>2. s # writer.task.sol
    <3>1. result[s] # "COMPILING"
      BY <1>0, <2>1 DEF Waiting
    <3> QED
      BY <1>3, <3>1, StoredLands
  <2>3. result' \in {result, [result EXCEPT ![writer.task.sol] = writer.task.verdict]}
    BY <1>3 DEF UpdateSolution
  <2> QED
    BY <1>0, <2>1, <2>2, <2>3
<1>4. CASE /\ ~ReaderMark /\ ~UpdateSolution
           /\ ~\E r \in Solutions : Submit(r) \/ Rejudge(r)
  BY <1>0, <1>4, WhoChanges, WhoRecords
<1> QED
  BY <1>1, <1>2, <1>3, <1>4

\* A submitted or re-queued row keeps waiting until the reader accepts it: the
\* writer, storing the verdict of an earlier task, never overwrites the wish.
THEOREM NotForgotten ==
    ASSUME ~RejudgeAnytime
    PROVE  Spec => []RequestNotForgotten
<1>1. Init => RequestNotForgotten
  BY DEF Init, RequestNotForgotten
<1>2. Types /\ Joined /\ OneTask /\ RequestNotForgotten /\ [Next]_vars
        => RequestNotForgotten'
  BY StepNotForgotten DEF RequestNotForgotten, vars, table, history
<1> QED
  BY <1>1, <1>2, AlwaysOneTask, PTL DEF Spec

-----------------------------------------------------------------------------
(***************************************************************************)
(* The refinement: the open rows of the service are those in flight.       *)
(***************************************************************************)
Open == {s \in Solutions : InFlight(s)}

Refined == Service!Next \/ UNCHANGED <<result, Open>>

LEMMA InitRefines == Init => Service!Init
<1> SUFFICES ASSUME Init PROVE Service!Init
  OBVIOUS
<1>1. \A s \in Solutions : ~InFlight(s)
  BY QueuedEmpty DEF Init, Start, InFlight
<1> QED
  BY <1>1 DEF Init, Service!Init

\* Tasks that vanish without a verdict.
LEMMA Vanish ==
    ASSUME result' = result, Open' \subseteq Open
    PROVE  Refined
<1>1. Open' = Open \ (Open \ Open')
  OBVIOUS
<1>2. Service!Lose
  BY <1>1 DEF Service!Lose, Open
<1> QED
  BY <1>2 DEF Service!Next, Refined

LEMMA StepRefines ==
    ASSUME Types, Joined, OneTask, Next, ~RejudgeAnytime
    PROVE  Refined
<1>1. CASE ReaderMark
  <2>0. PICK s \in Solutions : s = reader.task.sol
    BY <1>1, MarkedIsFree
  <2>1. /\ result[s] \in Waiting /\ s \notin Open /\ reader.task # Null
    BY <1>1, <2>0, MarkedIsFree DEF Open
  <2>2. reader = [at |-> reader.at, rows |-> reader.rows, task |-> reader.task]
    BY DEF Types, ReaderOK, ReaderStates
  <2>3. CASE reader'.at = "give"
    <3>1. result' = [result EXCEPT ![s] = "COMPILING"]
      BY <1>1, <2>0, <2>2, <2>3 DEF ReaderMark
    <3>2. \A r \in Solutions : InFlight(r)' <=> InFlight(r) \/ r = s
      BY <1>1, <2>0, <2>1, <2>3, FlightOf DEF Holds
    <3>3. Open' = Open \cup {s}
      BY <3>2 DEF Open
    <3>4. Service!Accept(s)
      BY <2>1, <3>1, <3>3 DEF Service!Accept, Service!Set, Service!Waiting, Waiting, Open
    <3> QED
      BY <3>4 DEF Service!Next, Refined
  <2>4. CASE reader'.at # "give"
    <3>1. result' = result
      BY <1>1, <2>2, <2>4 DEF ReaderMark
    <3>2. Open' = Open
      BY <1>1, <2>4, FlightOf DEF Open
    <3> QED
      BY <3>1, <3>2 DEF Refined
  <2> QED
    BY <2>3, <2>4
<1>2. CASE UpdateSolution
  <2>0. PICK s \in Solutions : s = writer.task.sol
    BY <1>2, StageFacts, ConstantFacts DEF UpdateSolution, Task
  <2>1. /\ writer.task \in Judged /\ result[s] = "COMPILING" /\ s \in Open
        /\ ~InFlight(s)'
    BY <1>2, <2>0, StoredLands DEF Open
  <2>2. \A r \in Solutions : InFlight(r)' <=> InFlight(r) /\ r # s
    BY <1>2, <2>0, <2>1, FlightOf
  <2>3. Open' = Open \ {s}
    BY <2>2 DEF Open
  <2>4. CASE result' = [result EXCEPT ![s] = writer.task.verdict]
    <3>1. Service!Publish(s)
      BY <2>1, <2>3, <2>4 DEF Service!Publish, Service!Set, Judged, Open
    <3> QED
      BY <3>1 DEF Service!Next, Refined
  <2>5. CASE result' = result
    BY <2>3, <2>5, Vanish
  <2> QED
    BY <1>2, <2>0, <2>4, <2>5 DEF UpdateSolution
<1>3. CASE Crash \/ JoinWriter
  <2>1. result' = result
    BY <1>3 DEF Crash, JoinWriter, MainUnchanged, table
  <2>2. Open' = {}
    BY <1>3, FlightOf DEF Open
  <2> QED
    BY <2>1, <2>2, Vanish
<1>4. ASSUME NEW s \in Solutions, Submit(s) \/ Rejudge(s)
      PROVE  Refined
  <2>1. UNCHANGED <<main, tasks, finish, reader, core, writer>>
    BY <1>4 DEF Submit, Rejudge, mainVars, queues, threads
  <2>2. Open' = Open
    BY <2>1 DEF Open, InFlight, Queued, Holds
  <2>3. CASE Submit(s)
    <3>1. Service!Submit(s)
      BY <2>2, <2>3 DEF Submit, Service!Submit, Service!Set, Open
    <3> QED
      BY <3>1 DEF Service!Next, Refined
  <2>4. CASE Rejudge(s)
    <3>1. result[s] \in Verdicts \/ (result[s] = "COMPILING" /\ main = "down")
      BY <2>4 DEF Rejudge
    <3>2. main = "down" => s \notin Open
      BY DEF Open, InFlight
    <3>3. Service!Rejudge(s)
      BY <2>2, <2>4, <3>1, <3>2 DEF Rejudge, Service!Rejudge, Service!Set, Open
    <3> QED
      BY <3>3 DEF Service!Next, Refined
  <2> QED
    BY <1>4, <2>3, <2>4
<1>5. CASE /\ ~ReaderMark /\ ~UpdateSolution /\ ~Crash /\ ~JoinWriter
           /\ ~\E s \in Solutions : Submit(s) \/ Rejudge(s)
  <2>1. result' = result
    BY <1>5, WhoChanges
  <2>2. Open' = Open
    BY <1>5, FlightOf DEF Open
  <2> QED
    BY <2>1, <2>2 DEF Refined
<1> QED
  BY <1>1, <1>2, <1>3, <1>4, <1>5

\* The pipeline of threads, queues and SQL updates implements JudgeService:
\* each judgement is accepted once and publishes at most one verdict, into a
\* row that still shows COMPILING, across failures, stops and crashes.
THEOREM ServiceImplemented ==
    ASSUME ~RejudgeAnytime
    PROVE  Spec => ImplementsService
<1>1. Types /\ Joined /\ OneTask /\ [Next]_vars => [Service!Next]_(Service!vars)
  <2>1. UNCHANGED vars => UNCHANGED <<result, Open>>
    BY DEF vars, table, mainVars, queues, threads, Open, InFlight, Queued, Holds
  <2> QED
    BY <2>1, StepRefines DEF Refined, Service!vars, Open
<1> QED
  BY <1>1, InitRefines, AlwaysOneTask, PTL DEF Spec, ImplementsService, Service!Spec
=============================================================================
