----------------------------- MODULE JudgerFiles ----------------------------
(***************************************************************************)
(* The work files of a row, for any solutions and cores and any bounds and *)
(* even if the site re-queues rows in judgement: the code file the reader  *)
(* wrote is there when the compiler needs it, unless the row is in         *)
(* overlap.                                                                *)
(*                                                                         *)
(* The argument: work files are named by the row, so a clean-up takes the  *)
(* files of every task of its row.  A row with two tasks that work on its  *)
(* files, from the reader that writes the code to the core that removes    *)
(* it, is in overlap (FilesAreOwned), hence a clean-up takes nothing from  *)
(* a task of a row that is not.                                            *)
(***************************************************************************)
EXTENDS JudgerProofs

\* A core works on the files of the row from its task to the clean-up.
Uses(c, s) == Holds(core[c].task, s)

Owned(s) ==
    /\ Once(tasks, s)
    /\ \A c, d \in Cores : Uses(c, s) /\ Uses(d, s) => c = d
    /\ Holds(reader.task, s) => ~Queued(tasks, s)
    /\ Holds(reader.task, s) \/ Queued(tasks, s) => \A c \in Cores : ~Uses(c, s)

FilesAreOwned == \A s \in Solutions : s \notin overlap => Owned(s)

\* A row whose files nobody uses.
Unused(s) == ~Queued(tasks, s) /\ \A c \in Cores : ~Uses(c, s)

\* The reader loads the code of a row while another task works on its files
\* only by putting the row into overlap.
LEMMA LoadIsAlone ==
    ASSUME Types, Joined, ReaderLoad
    PROVE  \E s \in reader.rows, ok \in BOOLEAN :
             /\ s \in Solutions
             /\ s \in overlap' \/ Unused(s)
             /\ overlap' \ {s} = overlap \ {s}
             /\ files' = IF ok THEN files \cup {<<s, "code">>} ELSE files
             /\ \E t \in Task : /\ t.sol = s /\ t.loaded = ok
                                /\ reader' = [at |-> "mark", rows |-> reader.rows \ {s},
                                              task |-> t]
<1>1. PICK s \in reader.rows, ok \in BOOLEAN :
        /\ files' = IF ok THEN files \cup {<<s, "code">>} ELSE files
        /\ reader' = [at |-> "mark", rows |-> reader.rows \ {s},
                      task |-> [NewTask(s) EXCEPT !.loaded = ok]]
        /\ overlap' = IF InFlight(s) \/ CleaningUp(s) THEN overlap \cup {s}
                                                      ELSE overlap \ {s}
  BY DEF ReaderLoad
<1>2. s \in Solutions
  BY <1>1, StageFacts
<1>3. main # "down" /\ reader.at = "fetch"
  BY DEF ReaderLoad, Joined
<1>4. ASSUME ~InFlight(s), ~CleaningUp(s)
      PROVE  Unused(s)
  <2>1. ~Queued(tasks, s)
    BY <1>3, <1>4 DEF InFlight
  <2>2. ASSUME NEW c \in Cores, Uses(c, s)
        PROVE  FALSE
    <3>1. core[c].at \in {"compile", "run", "finish", "clean"}
      BY <2>2, StageFacts DEF Uses, Holds
    <3> QED
      BY <1>3, <1>4, <2>2, <3>1 DEF InFlight, CleaningUp, Uses
  <2> QED
    BY <2>1, <2>2 DEF Unused
<1>5. /\ [NewTask(s) EXCEPT !.loaded = ok] \in Task
      /\ [NewTask(s) EXCEPT !.loaded = ok].sol = s
      /\ [NewTask(s) EXCEPT !.loaded = ok].loaded = ok
  BY <1>2, NewTaskType DEF NewTask
<1>6. s \in overlap' \/ Unused(s)
  BY <1>1, <1>4
<1> QED
  BY <1>1, <1>2, <1>5, <1>6

\* A core at work keeps its row, the one that gets a task takes it from the
\* queue, the one that has cleaned up lets it go.
LEMMA UsesStep ==
    ASSUME Types, NEW c \in Cores, Core(c), NEW s
    PROVE  /\ \A d \in Cores \ {c} : Uses(d, s)' <=> Uses(d, s)
           /\ \/ /\ CoreGet(c) /\ tasks # <<>> /\ tasks' = Tail(tasks)
                 /\ ~Uses(c, s)
                 /\ Uses(c, s)' <=> Holds(Head(tasks), s)
              \/ tasks' = tasks /\ (Uses(c, s)' => Uses(c, s))
<1>0. /\ core \in [Cores -> CoreStates]
      /\ core[c] = [at |-> core[c].at, task |-> core[c].task]
  BY DEF Types, CoreOK, CoreStates
<1>1. \A d \in Cores \ {c} : Uses(d, s)' <=> Uses(d, s)
  BY CoreMoves DEF Uses, Holds
<1>2. CASE CoreGet(c)
  <2>1. core[c].task = Null /\ core'[c].task = Head(tasks)
    BY <1>0, <1>2, StageFacts DEF CoreGet
  <2> QED
    BY <1>1, <1>2, <2>1 DEF CoreGet, Uses, Holds
<1>3. CASE CoreCompile(c) \/ CoreRun(c)
  <2>1. CoreOK /\ core[c].task \in Task
    BY <1>3, StageFacts DEF CoreCompile, CoreRun, Types
  <2>2. \/ core' = [core EXCEPT ![c] = [at |-> "run", task |-> core[c].task]]
        \/ \E v \in Verdicts : EndsWith(c, v)
    BY <1>3, <2>1, CoreStep, ConstantFacts DEF CoreCompile, CoreRun
  <2>3. \E t \in Task, at \in {"run", "finish"} :
          /\ t.sol = core[c].task.sol
          /\ core' = [core EXCEPT ![c] = [at |-> at, task |-> t]]
    BY <2>1, <2>2, EndIsJudged, ConstantFacts
  <2>4. core'[c].task.sol = core[c].task.sol /\ core[c].task # Null
    BY <1>0, <2>1, <2>3, ConstantFacts
  <2>5. tasks' = tasks
    BY <1>3 DEF CoreCompile, CoreRun, queues
  <2> QED
    BY <1>1, <2>4, <2>5 DEF Uses, Holds
<1>4. CASE CoreFinish(c)
  <2>1. core'[c].task = core[c].task /\ tasks' = tasks
    BY <1>0, <1>4 DEF CoreFinish
  <2> QED
    BY <1>1, <2>1 DEF Uses, Holds
<1>5. CASE CoreCleanUp(c)
  <2>1. core'[c].task = Null /\ tasks' = tasks
    BY <1>0, <1>5 DEF CoreCleanUp, queues
  <2> QED
    BY <1>1, <2>1 DEF Uses, Holds
<1> QED
  BY <1>2, <1>3, <1>4, <1>5 DEF Core

-----------------------------------------------------------------------------
LEMMA StepOwned ==
    ASSUME Types, Joined, FilesAreOwned, Next
    PROVE  FilesAreOwned'
<1> SUFFICES ASSUME NEW s \in Solutions, s \notin overlap' PROVE Owned(s)'
  BY DEF FilesAreOwned
<1>0. /\ s \notin overlap => Owned(s)
      /\ tasks \in Seq(Task \cup {Null})
      /\ reader = [at |-> reader.at, rows |-> reader.rows, task |-> reader.task]
  BY DEF FilesAreOwned, Types, TasksOK, ReaderOK, ReaderStates
\* What the primed parts of Owned(s) read.
<1>1. Owned(s)' <=>
        /\ Once(tasks', s)
        /\ \A c, d \in Cores : Uses(c, s)' /\ Uses(d, s)' => c = d
        /\ Holds(reader'.task, s) => ~Queued(tasks', s)
        /\ Holds(reader'.task, s) \/ Queued(tasks', s) => \A c \in Cores : ~Uses(c, s)'
  BY DEF Owned, Once, Queued, Holds, Uses
<1>2. CASE ReaderLoad
  <2>1. PICK r \in reader.rows :
          /\ r \in Solutions
          /\ r \in overlap' \/ Unused(r)
          /\ overlap' \ {r} = overlap \ {r}
          /\ reader'.task.sol = r
    BY <1>2, LoadIsAlone
  <2>2. tasks' = tasks /\ (\A c \in Cores : Uses(c, s)' <=> Uses(c, s))
    BY <1>2 DEF ReaderLoad, ReaderUnchanged, Uses, Holds
  <2>3. CASE r = s
    <3>1. Unused(s)
      BY <2>1, <2>3
    <3>2. Once(tasks, s)
      BY <3>1 DEF Unused, Queued, Once
    <3> QED
      BY <1>1, <2>2, <3>1, <3>2 DEF Unused
  <2>4. CASE r # s
    <3>1. s \notin overlap /\ ~Holds(reader'.task, s)
      BY <2>1, <2>4 DEF Holds
    <3> QED
      BY <1>0, <1>1, <2>2, <3>1 DEF Owned
  <2> QED
    BY <2>3, <2>4
<1>3. CASE ReaderGive
  <2>1. /\ reader.task \in Task /\ reader.task # Null /\ reader'.task = Null
        /\ tasks' = Append(tasks, reader.task) /\ overlap' = overlap
        /\ \A c \in Cores : Uses(c, s)' <=> Uses(c, s)
    BY <1>0, <1>3, StageFacts, ConstantFacts
       DEF ReaderGive, ReaderUnchanged, history, Uses, Holds
  <2>2. Owned(s)
    BY <1>0, <2>1
  <2>3. Queued(tasks', s) <=> Queued(tasks, s) \/ Holds(reader.task, s)
    BY <1>0, <2>1, QueuedAppend
  <2>4. Once(tasks', s)
    BY <1>0, <2>1, <2>2, OnceAppend DEF Owned
  <2>5. ~Holds(reader'.task, s)
    BY <2>1 DEF Holds
  <2> QED
    BY <1>1, <2>1, <2>2, <2>3, <2>4, <2>5 DEF Owned
<1>4. CASE ReaderCheck \/ ReaderQuery \/ ReaderNoMoreRows \/ ReaderMark
  <2>1. /\ reader'.task = reader.task \/ reader'.task = Null
        /\ tasks' = tasks /\ overlap' = overlap
        /\ \A c \in Cores : Uses(c, s)' <=> Uses(c, s)
    <3>1. UNCHANGED <<tasks, overlap, core>>
      BY <1>4 DEF ReaderCheck, ReaderQuery, ReaderNoMoreRows, ReaderMark, ReaderUnchanged,
                  history
    <3>2. reader'.task = reader.task \/ reader'.task = Null
      <4>1. CASE ReaderQuery
        BY <1>0, <4>1 DEF ReaderQuery
      <4>2. CASE ReaderCheck \/ ReaderNoMoreRows \/ ReaderMark
        BY <1>0, <4>2 DEF ReaderCheck, ReaderNoMoreRows, ReaderMark
      <4> QED
        BY <1>4, <4>1, <4>2
    <3> QED
      BY <3>1, <3>2 DEF Uses, Holds
  <2>2. Holds(reader'.task, s) => Holds(reader.task, s)
    BY <2>1 DEF Holds
  <2> QED
    BY <1>0, <1>1, <2>1, <2>2 DEF Owned
<1>5. ASSUME NEW c \in Cores, Core(c) PROVE Owned(s)'
  <2>1. reader' = reader /\ overlap' = overlap /\ Owned(s)
    BY <1>0, <1>5, CoreMoves
       DEF Core, CoreGet, CoreCompile, CoreRun, CoreFinish, CoreCleanUp, CoreUnchanged
  <2>2. \A d \in Cores \ {c} : Uses(d, s)' <=> Uses(d, s)
    BY <1>5, UsesStep
  <2>3. CASE /\ tasks # <<>> /\ tasks' = Tail(tasks) /\ ~Uses(c, s)
             /\ Uses(c, s)' <=> Holds(Head(tasks), s)
    <3>1. Queued(tasks, s) <=> Holds(Head(tasks), s) \/ Queued(tasks', s)
      BY <1>0, <2>3, QueuedTail
    <3>2. Once(tasks', s) /\ ~(Holds(Head(tasks), s) /\ Queued(tasks', s))
      BY <1>0, <2>1, <2>3, OnceTail DEF Owned
    <3> QED
      BY <1>1, <2>1, <2>2, <2>3, <3>1, <3>2 DEF Owned
  <2>4. CASE tasks' = tasks /\ (Uses(c, s)' => Uses(c, s))
    BY <1>1, <2>1, <2>2, <2>4 DEF Owned
  <2> QED
    BY <1>5, <2>3, <2>4, UsesStep
<1>6. CASE Stop \/ Exit
  <2>1. /\ reader' = reader /\ overlap' = overlap
        /\ \A c \in Cores : Uses(c, s)' <=> Uses(c, s)
        /\ Queued(tasks', s) <=> Queued(tasks, s)
        /\ tasks' \in {tasks, <<Null>> \o tasks}
    <3>1. UNCHANGED <<reader, core, overlap>> /\ tasks' \in {tasks, <<Null>> \o tasks}
      BY <1>6 DEF Stop, AddPill, JoinCores, StopRunning, AddPillDB, JoinReader, JoinWriter,
                  Exit, MainUnchanged, queues, threads
    <3> QED
      BY <1>6, <3>1, StopMoves DEF Uses, Holds
  <2>2. Once(tasks', s)
    BY <1>0, <2>1, OncePill DEF Owned
  <2> QED
    BY <1>0, <1>1, <2>1, <2>2 DEF Owned
<1>7. CASE Crash \/ Restart
  <2>1. /\ tasks' = <<>> /\ reader'.task = Null /\ \A c \in Cores : core'[c].task = Null
    BY <1>7 DEF Crash, Restart
  <2>2. Once(tasks', s) /\ ~Queued(tasks', s)
    BY <2>1, OnceEmpty, QueuedEmpty
  <2> QED
    BY <1>1, <2>1, <2>2 DEF Uses, Holds
<1>8. CASE Writer \/ \E r \in Solutions : Submit(r) \/ Rejudge(r)
  <2>1. UNCHANGED <<reader, core, tasks, overlap>>
    BY <1>8, WriterMoves DEF Writer, WriterCheck, WriterGet, UpdateSolution, UpdateUser,
       UpdateProblem, DeleteInfo, InsertInfo, Recount, WriterUnchanged, Submit, Rejudge,
       threads, queues
  <2> QED
    BY <1>0, <1>1, <2>1 DEF Owned, Uses, Holds
<1> QED
  BY <1>2, <1>3, <1>4, <1>5, <1>6, <1>7, <1>8 DEF Next, Environment, Reader

\* What a queue may hold after a step.
LEMMA QueueElements ==
    ASSUME NEW S, NEW q \in Seq(S \cup {Null})
    PROVE  /\ \A t \in S : \A n \in 1 .. Len(Append(q, t)) :
                Append(q, t)[n] = t \/ \E m \in 1 .. Len(q) : Append(q, t)[n] = q[m]
           /\ \A n \in 1 .. Len(<<Null>> \o q) :
                \/ (<<Null>> \o q)[n] = Null
                \/ \E m \in 1 .. Len(q) : (<<Null>> \o q)[n] = q[m]
           /\ q # <<>> => /\ Head(q) = q[1] /\ 1 \in 1 .. Len(q)
                          /\ \A n \in 1 .. Len(Tail(q)) :
                               \E m \in 1 .. Len(q) : Tail(q)[n] = q[m]
<1>1. ASSUME NEW t \in S, NEW n \in 1 .. Len(Append(q, t))
      PROVE  Append(q, t)[n] = t \/ \E m \in 1 .. Len(q) : Append(q, t)[n] = q[m]
  <2>1. Len(q) \in Nat /\ n \in 1 .. Len(q) + 1
    OBVIOUS
  <2>2. CASE n = Len(q) + 1
    BY <2>2
  <2>3. CASE n # Len(q) + 1
    <3>1. n \in 1 .. Len(q)
      BY <2>1, <2>3
    <3> QED
      BY <3>1
  <2> QED
    BY <2>2, <2>3
<1>2. ASSUME NEW n \in 1 .. Len(<<Null>> \o q)
      PROVE  \/ (<<Null>> \o q)[n] = Null
             \/ \E m \in 1 .. Len(q) : (<<Null>> \o q)[n] = q[m]
  <2>1. Len(q) \in Nat /\ n \in 1 .. Len(q) + 1
    OBVIOUS
  <2>2. CASE n = 1
    BY <2>2
  <2>3. CASE n # 1
    <3>1. n - 1 \in 1 .. Len(q)
      BY <2>1, <2>3
    <3>2. (<<Null>> \o q)[n] = q[n - 1]
      BY <2>1, <2>3
    <3> QED
      BY <3>1, <3>2
  <2> QED
    BY <2>2, <2>3
<1>3. ASSUME q # <<>>
      PROVE  /\ Head(q) = q[1] /\ 1 \in 1 .. Len(q)
             /\ \A n \in 1 .. Len(Tail(q)) : \E m \in 1 .. Len(q) : Tail(q)[n] = q[m]
  <2>1. /\ Len(q) \in Nat \ {0} /\ Len(Tail(q)) = Len(q) - 1 /\ Head(q) = q[1]
        /\ \A n \in 1 .. Len(q) - 1 : Tail(q)[n] = q[n + 1]
    BY <1>3
  <2>2. \A n \in 1 .. Len(q) - 1 : n + 1 \in 1 .. Len(q)
    BY <2>1
  <2> QED
    BY <2>1, <2>2
<1> QED
  BY <1>1, <1>2, <1>3

-----------------------------------------------------------------------------
(***************************************************************************)
(* The rows whose code is still to be compiled, by the place of the task.  *)
(***************************************************************************)
WithCode(t, s) == Loaded(t) /\ t.sol = s

ReaderWithCode(s)  == reader.at \in {"mark", "give"} /\ WithCode(reader.task, s)
QueuedWithCode(s)  == \E n \in 1 .. Len(tasks) : WithCode(tasks[n], s)
CoreWithCode(c, s) == core[c].at = "compile" /\ WithCode(core[c].task, s)

LEMMA UncompiledAt ==
    ASSUME NEW s \in Solutions
    PROVE  s \in Uncompiled <=> \/ ReaderWithCode(s) \/ QueuedWithCode(s)
                               \/ \E c \in Cores : CoreWithCode(c, s)
BY DEF Uncompiled, ReaderWithCode, QueuedWithCode, CoreWithCode, WithCode

\* A task that is still to be compiled uses the files of its row.
LEMMA UncompiledUses ==
    ASSUME NEW s
    PROVE  /\ ReaderWithCode(s) => Holds(reader.task, s)
           /\ QueuedWithCode(s) => Queued(tasks, s)
           /\ \A c \in Cores : CoreWithCode(c, s) => Uses(c, s) /\ core[c].at = "compile"
BY DEF ReaderWithCode, QueuedWithCode, CoreWithCode, WithCode, Loaded, Holds, Queued, Uses

\* Only the reader brings a new task with code.
LEMMA StepUncompiled ==
    ASSUME Types, Next, ~ReaderLoad, NEW s \in Solutions, s \in Uncompiled'
    PROVE  s \in Uncompiled
<1>0. /\ tasks \in Seq(Task \cup {Null})
      /\ reader = [at |-> reader.at, rows |-> reader.rows, task |-> reader.task]
      /\ core \in [Cores -> CoreStates]
      /\ \A c \in Cores : core[c] = [at |-> core[c].at, task |-> core[c].task]
  BY DEF Types, TasksOK, ReaderOK, ReaderStates, CoreOK, CoreStates
<1>1. \/ reader'.at \in {"mark", "give"} /\ WithCode(reader'.task, s)
      \/ \E n \in 1 .. Len(tasks') : WithCode(tasks'[n], s)
      \/ \E c \in Cores : core'[c].at = "compile" /\ WithCode(core'[c].task, s)
  BY DEF Uncompiled, WithCode, Loaded
<1>2. ASSUME reader'.at \in {"mark", "give"}, WithCode(reader'.task, s)
      PROVE  ReaderWithCode(s)
  <2>1. CASE reader' = reader
    BY <1>2, <2>1 DEF ReaderWithCode
  <2>2. CASE ReaderMark
    <3>1. reader.at = "mark" /\ (reader'.at \in {"mark", "give"} => reader'.task = reader.task)
      BY <1>0, <2>2 DEF ReaderMark
    <3> QED
      BY <1>2, <3>1 DEF ReaderWithCode
  <2>3. CASE ReaderQuery
    BY <1>0, <1>2, <2>3 DEF ReaderQuery
  <2>4. CASE ReaderCheck \/ ReaderNoMoreRows \/ ReaderGive
    <3>1. reader'.at \notin {"mark", "give"}
      BY <1>0, <2>4 DEF ReaderCheck, ReaderNoMoreRows, ReaderGive
    <3> QED
      BY <1>2, <3>1
  <2>5. CASE Crash \/ Restart
    BY <1>2, <2>5 DEF Crash, Restart
  <2> QED
    BY <2>1, <2>2, <2>3, <2>4, <2>5, WhoChanges DEF Reader
<1>3. ASSUME NEW n \in 1 .. Len(tasks'), WithCode(tasks'[n], s)
      PROVE  ReaderWithCode(s) \/ QueuedWithCode(s)
  <2>1. CASE ReaderGive
    <3>1. reader.task \in Task /\ reader.at = "give" /\ tasks' = Append(tasks, reader.task)
      BY <2>1, StageFacts DEF ReaderGive
    <3>2. tasks'[n] = reader.task \/ \E m \in 1 .. Len(tasks) : tasks'[n] = tasks[m]
      BY <1>0, <1>3, <3>1, QueueElements
    <3> QED
      BY <1>3, <3>1, <3>2 DEF ReaderWithCode, QueuedWithCode
  <2>2. CASE tasks' \in {tasks, <<Null>> \o tasks}
    <3>1. tasks'[n] = Null \/ \E m \in 1 .. Len(tasks) : tasks'[n] = tasks[m]
      <4>1. CASE tasks' = tasks
        BY <1>3, <4>1
      <4>2. CASE tasks' = <<Null>> \o tasks
        <5>1. n \in 1 .. Len(<<Null>> \o tasks)
          BY ONLY <1>3, <4>2
        <5>2. \/ (<<Null>> \o tasks)[n] = Null
              \/ \E m \in 1 .. Len(tasks) : (<<Null>> \o tasks)[n] = tasks[m]
          BY ONLY <1>0, <5>1, QueueElements
        <5> QED
          BY ONLY <4>2, <5>2
      <4> QED
        BY <2>2, <4>1, <4>2
    <3> QED
      BY <1>3, <3>1 DEF QueuedWithCode, WithCode, Loaded
  <2>3. CASE tasks # <<>> /\ tasks' = Tail(tasks)
    <3>1. \E m \in 1 .. Len(tasks) : tasks'[n] = tasks[m]
      <4>1. n \in 1 .. Len(Tail(tasks))
        BY ONLY <1>3, <2>3
      <4>2. \E m \in 1 .. Len(tasks) : Tail(tasks)[n] = tasks[m]
        BY ONLY <1>0, <2>3, <4>1, QueueElements
      <4> QED
        BY ONLY <2>3, <4>2
    <3> QED
      BY <1>3, <3>1 DEF QueuedWithCode
  <2>4. CASE tasks' = <<>>
    BY <1>3, <2>4
  <2> QED
    BY <2>1, <2>2, <2>3, <2>4, WhoChanges DEF AddPill, CoreGet, Crash, Restart
<1>4. ASSUME NEW d \in Cores, core'[d].at = "compile", WithCode(core'[d].task, s)
      PROVE  QueuedWithCode(s) \/ CoreWithCode(d, s)
  <2>1. CASE core'[d] = core[d]
    BY <1>4, <2>1 DEF CoreWithCode
  <2>2. CASE CoreGet(d)
    <3>1. tasks # <<>> /\ core'[d].task = Head(tasks)
      BY <1>0, <2>2 DEF CoreGet
    <3>2. Head(tasks) = tasks[1] /\ 1 \in 1 .. Len(tasks)
      BY <1>0, <3>1, QueueElements
    <3> QED
      BY <1>4, <3>1, <3>2 DEF QueuedWithCode
  <2>3. ASSUME Core(d), ~CoreGet(d)
        PROVE  core'[d].at # "compile"
    <3>1. CASE CoreCompile(d) \/ CoreRun(d)
      <4>1. \/ core' = [core EXCEPT ![d].at = "run"]
            \/ \E v \in Verdicts : EndsWith(d, v)
        BY <3>1, ConstantFacts DEF CoreCompile, CoreRun
      <4>2. CASE core' = [core EXCEPT ![d].at = "run"]
        BY <1>0, <4>2
      <4>3. ASSUME NEW v \in Verdicts, EndsWith(d, v) PROVE core'[d].at = "finish"
        BY <1>0, <4>3 DEF EndsWith
      <4> QED
        BY <4>1, <4>2, <4>3
    <3>2. CASE CoreFinish(d) \/ CoreCleanUp(d)
      BY <1>0, <3>2 DEF CoreFinish, CoreCleanUp
    <3> QED
      BY <2>3, <3>1, <3>2 DEF Core
  <2>4. CASE Crash \/ Restart
    BY <1>4, <2>4 DEF Crash, Restart
  <2>5. ASSUME NEW c \in Cores, Core(c)
        PROVE  c = d \/ core'[d] = core[d]
    BY <2>5, CoreMoves
  <2> QED
    BY <1>4, <2>1, <2>2, <2>3, <2>4, <2>5, WhoChanges
<1> QED
  BY <1>1, <1>2, <1>3, <1>4, UncompiledAt

LEMMA StepCodeIsThere ==
    ASSUME Types, Joined, FilesAreOwned, CodeIsThere, Next
    PROVE  CodeIsThere'
<1> SUFFICES ASSUME NEW s \in Uncompiled', s \notin overlap'
             PROVE  <<s, "code">> \in files'
  BY DEF CodeIsThere
<1>0. s \in Solutions
  BY DEF Uncompiled
<1>1. CASE ReaderLoad
  <2>1. PICK r \in reader.rows, ok \in BOOLEAN :
          /\ r \in Solutions
          /\ r \in overlap' \/ Unused(r)
          /\ overlap' \ {r} = overlap \ {r}
          /\ files' = IF ok THEN files \cup {<<r, "code">>} ELSE files
          /\ \E t \in Task : /\ t.sol = r /\ t.loaded = ok
                            /\ reader' = [at |-> "mark", rows |-> reader.rows \ {r},
                                          task |-> t]
    BY <1>1, LoadIsAlone
  <2>2. tasks' = tasks /\ core' = core
    BY <1>1 DEF ReaderLoad, ReaderUnchanged
  <2>3. \/ WithCode(reader'.task, s)
        \/ QueuedWithCode(s)
        \/ \E c \in Cores : CoreWithCode(c, s)
    BY <2>2 DEF Uncompiled, WithCode, Loaded, QueuedWithCode, CoreWithCode
  <2>4. CASE WithCode(reader'.task, s)
    <3>1. r = s /\ ok
      BY <2>1, <2>4 DEF WithCode, Loaded
    <3> QED
      BY <2>1, <3>1
  <2>5. CASE QueuedWithCode(s) \/ \E c \in Cores : CoreWithCode(c, s)
    <3>1. r # s
      BY <2>1, <2>5, UncompiledUses DEF Unused
    <3>2. s \notin overlap /\ s \in Uncompiled
      BY <1>0, <2>1, <2>5, <3>1, UncompiledAt
    <3> QED
      BY <2>1, <3>2 DEF CodeIsThere
  <2> QED
    BY <2>3, <2>4, <2>5
<1>2. CASE ~ReaderLoad
  <2>1. s \in Uncompiled /\ s \notin overlap
    BY <1>0, <1>2, StepUncompiled, WhoRecords
  <2>2. <<s, "code">> \in files /\ Owned(s)
    BY <1>0, <2>1 DEF CodeIsThere, FilesAreOwned
  <2>3. ASSUME NEW c \in Cores, CoreCleanUp(c)
        PROVE  <<s, "code">> \in files'
    <3>1. core[c].at = "clean" /\ core[c].task \in Task /\ core[c].task # Null
      BY <2>3, StageFacts, ConstantFacts DEF CoreCleanUp
    <3>2. core[c].task.sol # s
      <4>1. SUFFICES ASSUME Uses(c, s) PROVE FALSE
        BY <3>1 DEF Uses, Holds
      <4>2. PICK d \in Cores : CoreWithCode(d, s)
        BY <1>0, <2>1, <2>2, <4>1, UncompiledAt, UncompiledUses DEF Owned
      <4>3. d = c
        BY <2>2, <4>1, <4>2, UncompiledUses DEF Owned
      <4> QED
        BY <3>1, <4>2, <4>3, UncompiledUses
    <3>3. files \ File(core[c].task.sol) \subseteq files'
      BY <2>3 DEF CoreCleanUp, File
    <3> QED
      BY <2>2, <3>2, <3>3 DEF File
  <2>4. ASSUME NEW c \in Cores, CoreCompile(c)
        PROVE  <<s, "code">> \in files'
    BY <2>2, <2>4 DEF CoreCompile
  <2> QED
    BY <1>2, <2>2, <2>3, <2>4, WhoChanges
<1> QED
  BY <1>1, <1>2

\* The compiler finds the code file that DBManager::doRead wrote, whatever
\* other cores clean up meanwhile: only a row that was read again before its
\* last task had removed the files (onTaskFinish precedes doCleanUp) may miss
\* them.
THEOREM CodeThere == Spec => []CodeIsThere
<1>1. Init => FilesAreOwned /\ CodeIsThere
  <2> SUFFICES ASSUME Init PROVE FilesAreOwned /\ CodeIsThere
    OBVIOUS
  <2>1. /\ tasks = <<>> /\ reader.task = Null /\ reader.at = "check"
        /\ \A c \in Cores : core[c].task = Null /\ core[c].at = "get"
    BY DEF Init, Start
  <2>2. FilesAreOwned
    BY <2>1, OnceEmpty, QueuedEmpty DEF FilesAreOwned, Owned, Uses, Holds
  <2>3. Uncompiled = {}
    BY <2>1 DEF Uncompiled
  <2> QED
    BY <2>2, <2>3 DEF CodeIsThere
<1>2. Types /\ Joined /\ FilesAreOwned /\ CodeIsThere /\ [Next]_vars
        => FilesAreOwned' /\ CodeIsThere'
  <2>1. FilesAreOwned /\ CodeIsThere /\ UNCHANGED vars => FilesAreOwned' /\ CodeIsThere'
    BY DEF vars, queues, threads, history, FilesAreOwned, Owned, Uses, Once, Queued, Holds,
           CodeIsThere, Uncompiled, Loaded
  <2> QED
    BY <2>1, StepOwned, StepCodeIsThere
<1> QED
  BY <1>1, <1>2, AlwaysJoined, PTL DEF Spec
=============================================================================
