------------------------------ MODULE TaskMgr ------------------------------
(***************************************************************************)
(* Commen/TaskMgr.h at the grain of its shared-memory steps: a std::list   *)
(* guarded by ZSimpleLock (a spin lock on InterlockedExchange) and counted *)
(* by a ZSemaphore.  add and addFront lock, insert, release the semaphore  *)
(* and unlock; get waits for the semaphore BEFORE it takes the lock, so    *)
(* between the two a getter owns a token for a task it has not yet         *)
(* removed.  ReleaseSemaphore fails once the count is at its maximum and   *)
(* its result is ignored: the token of that task is lost.                  *)
(***************************************************************************)
EXTENDS Naturals, Sequences, FiniteSets

CONSTANTS Producers,  \* threads that call add and addFront
          Consumers,  \* threads that call get
          Testers,    \* threads that call empty
          Tasks,      \* the tasks, each inserted at most once
          NoTask,     \* the local variable task before it is assigned
          SemMax      \* lMaximumCount of the semaphore (32767 in the code)

Threads == Producers \cup Consumers \cup Testers

ASSUME ThreadsAssumption == IsFiniteSet(Threads)
ASSUME SemMaxAssumption  == SemMax \in Nat \ {0}
ASSUME NoTaskAssumption  == NoTask \notin Tasks

VARIABLES pc,       \* pc[t]: the step thread t takes next
          op,       \* op[t]: the operation t executes or executed last
          task,     \* task[t]: its parameter or local variable task
          pool,     \* m_pool
          mark,     \* m_lock.m_mark
          sem,      \* the count of m_semap
          unused,   \* tasks no call has received yet
          dropped   \* history: how many ReleaseSemaphore calls failed

vars == <<pc, op, task, pool, mark, sem, unused, dropped>>

Ops   == {"add", "addFront", "get", "empty"}
Steps == {"idle", "wait", "spin", "insert", "front", "pop", "test",
          "push", "unlock"}

\* The steps taken while a ZLockHolder is alive.
Critical == {"insert", "front", "pop", "test", "push", "unlock"}

Init == /\ pc = [t \in Threads |-> "idle"]
        /\ op = [t \in Threads |-> "get"]
        /\ task = [t \in Threads |-> NoTask]
        /\ pool = <<>>
        /\ mark = 0
        /\ sem = 0
        /\ unused = Tasks
        /\ dropped = 0

Goto(t, step) == pc' = [pc EXCEPT ![t] = step]

-----------------------------------------------------------------------------
(***************************************************************************)
(* Calls.  add, addFront and empty begin with the lock, get with the       *)
(* semaphore.                                                              *)
(***************************************************************************)
CallPut(t, o, k) ==
    /\ pc[t] = "idle"
    /\ k \in unused
    /\ op' = [op EXCEPT ![t] = o]
    /\ task' = [task EXCEPT ![t] = k]
    /\ unused' = unused \ {k}
    /\ Goto(t, "spin")
    /\ UNCHANGED <<pool, mark, sem, dropped>>

CallGet(t) ==
    /\ pc[t] = "idle"
    /\ op' = [op EXCEPT ![t] = "get"]
    /\ task' = [task EXCEPT ![t] = NoTask]
    /\ Goto(t, "wait")
    /\ UNCHANGED <<pool, mark, sem, unused, dropped>>

CallEmpty(t) ==
    /\ pc[t] = "idle"
    /\ op' = [op EXCEPT ![t] = "empty"]
    /\ task' = [task EXCEPT ![t] = NoTask]
    /\ Goto(t, "spin")
    /\ UNCHANGED <<pool, mark, sem, unused, dropped>>

-----------------------------------------------------------------------------
(***************************************************************************)
(* ZSemaphore and ZSimpleLock.                                             *)
(***************************************************************************)

\* Variant of SemPop: a wait that times out and goes on without a token.
TimedSemPop(t) ==
    /\ pc[t] = "wait"
    /\ sem' = IF sem > 0 THEN sem - 1 ELSE sem
    /\ Goto(t, "spin")
    /\ UNCHANGED <<op, task, pool, mark, unused, dropped>>

\* WaitForSingleObject(m_hSemaphore, INFINITE)
SemPop(t) ==
    /\ pc[t] = "wait"
    /\ sem > 0
    /\ sem' = sem - 1
    /\ Goto(t, "spin")
    /\ UNCHANGED <<op, task, pool, mark, unused, dropped>>

\* Variant of SemPush: an insertion into a list that already holds a task
\* wakes nobody.
LazySemPush(t) ==
    /\ pc[t] = "push"
    /\ sem' = IF sem < SemMax /\ Len(pool) = 1 THEN sem + 1 ELSE sem
    /\ Goto(t, "unlock")
    /\ UNCHANGED <<op, task, pool, mark, unused, dropped>>

\* Variant of SemPush: no maximum.
UncappedSemPush(t) ==
    /\ pc[t] = "push"
    /\ sem' = sem + 1
    /\ Goto(t, "unlock")
    /\ UNCHANGED <<op, task, pool, mark, unused, dropped>>

\* ReleaseSemaphore(m_hSemaphore, 1, NULL): fails at the maximum, unnoticed.
SemPush(t) ==
    /\ pc[t] = "push"
    /\ IF sem < SemMax
         THEN sem' = sem + 1 /\ UNCHANGED dropped
         ELSE dropped' = dropped + 1 /\ UNCHANGED sem
    /\ Goto(t, "unlock")
    /\ UNCHANGED <<op, task, pool, mark, unused>>

Entry(o) == CASE o \in {"add", "addFront"} -> "insert"
              [] o = "get"                 -> "front"
              [] o = "empty"               -> "test"

\* Variant of Exchange: the old value of the mark is not looked at.
UnguardedExchange(t) ==
    /\ pc[t] = "spin"
    /\ mark' = 1
    /\ Goto(t, Entry(op[t]))
    /\ UNCHANGED <<op, task, pool, sem, unused, dropped>>

\* One InterlockedExchange(&m_mark, 1); a thread that read 1 spins.
Exchange(t) ==
    /\ pc[t] = "spin"
    /\ mark' = 1
    /\ IF mark = 1 THEN UNCHANGED pc ELSE Goto(t, Entry(op[t]))
    /\ UNCHANGED <<op, task, pool, sem, unused, dropped>>

Unlock(t) ==
    /\ pc[t] = "unlock"
    /\ mark' = 0
    /\ Goto(t, "idle")
    /\ UNCHANGED <<op, task, pool, sem, unused, dropped>>

-----------------------------------------------------------------------------
(***************************************************************************)
(* The list operations between lock and unlock.                            *)
(***************************************************************************)
Insert(t) ==
    /\ pc[t] = "insert"
    /\ pool' = IF op[t] = "add" THEN Append(pool, task[t])
                                ELSE <<task[t]>> \o pool
    /\ Goto(t, "push")
    /\ UNCHANGED <<op, task, mark, sem, unused, dropped>>

\* m_pool.front(), undefined on an empty list: any value may be read.
ReadFront(t) ==
    /\ pc[t] = "front"
    /\ \E k \in Tasks \cup {NoTask} :
         /\ pool # <<>> => k = Head(pool)
         /\ task' = [task EXCEPT ![t] = k]
    /\ Goto(t, "pop")
    /\ UNCHANGED <<op, pool, mark, sem, unused, dropped>>

PopFront(t) ==
    /\ pc[t] = "pop"
    /\ pool' = IF pool = <<>> THEN pool ELSE Tail(pool)
    /\ Goto(t, "unlock")
    /\ UNCHANGED <<op, task, mark, sem, unused, dropped>>

TestEmpty(t) ==
    /\ pc[t] = "test"
    /\ Goto(t, "unlock")
    /\ UNCHANGED <<op, task, pool, mark, sem, unused, dropped>>

-----------------------------------------------------------------------------
Call(t) == \/ /\ t \in Producers
              /\ \E k \in Tasks : CallPut(t, "add", k) \/ CallPut(t, "addFront", k)
           \/ t \in Consumers /\ CallGet(t)
           \/ t \in Testers /\ CallEmpty(t)

Step(t) == \/ SemPop(t)
           \/ SemPush(t)
           \/ Exchange(t)
           \/ Unlock(t)
           \/ Insert(t)
           \/ ReadFront(t)
           \/ PopFront(t)
           \/ TestEmpty(t)

Next == \E t \in Threads : Call(t) \/ Step(t)

Spec == Init /\ [][Next]_vars

(***************************************************************************)
(* A thread inside an operation keeps running, and a consumer (a core, the *)
(* writer) calls get again whenever it has returned.  Producers and        *)
(* testers owe nothing.  Weak fairness is enough: nothing is asked of the  *)
(* spin lock's choice among the threads that spin.                         *)
(***************************************************************************)
Fairness == /\ \A t \in Threads : WF_vars(Step(t))
            /\ \A t \in Consumers : WF_vars(CallGet(t))

FairSpec == Spec /\ Fairness

-----------------------------------------------------------------------------
TypeOK == /\ pc \in [Threads -> Steps]
          /\ op \in [Threads -> Ops]
          /\ task \in [Threads -> Tasks \cup {NoTask}]
          /\ pool \in Seq(Tasks)
          /\ mark \in {0, 1}
          /\ sem \in 0 .. SemMax
          /\ unused \in SUBSET Tasks
          /\ dropped \in Nat

\* The spin lock admits one thread at a time between lock and unlock, and
\* m_mark is 1 exactly while one is there (ZSimpleLock, ZLockHolder).
MutualExclusion ==
    /\ \A t, u \in Threads : pc[t] \in Critical /\ pc[u] \in Critical => t = u
    /\ mark = 1 <=> \E t \in Threads : pc[t] \in Critical

\* A getter that took a token has not yet removed the task it stands for.
Claims(t)   == op[t] = "get" /\ pc[t] \in {"spin", "front", "pop"}
Claimers    == {t \in Threads : Claims(t)}
\* A producer has inserted its task and not yet released the token.
Posting(t)  == pc[t] = "push"
Posters     == {t \in Threads : Posting(t)}

\* Tokens and tasks stay in step although get takes its token outside the
\* lock: every task in the list is covered by a token in the semaphore, a
\* getter on its way to it, a producer about to release, or a failed release.
TokenAccounting ==
    sem + Cardinality(Claimers) + Cardinality(Posters) + dropped = Len(pool)

\* A release fails, and the token of its task is lost, only while the list holds
\* more tasks than the semaphore can count: what getters and other producers
\* have under way never lets add or addFront fail before that.
ReleaseFailsOnlyWhenFull == [][dropped' # dropped => Len(pool) > SemMax]_vars

\* get never calls front() or pop_front() on an empty list, however many
\* getters passed the semaphore before the first of them took the lock.
FrontIsSafe ==
    \A t \in Threads : pc[t] \in {"front", "pop"} => pool # <<>>

\* Where a task can be, apart from the hands of a consumer that took it.
InPool(k)     == \E i \in 1 .. Len(pool) : pool[i] = k
Pending(t, k) == op[t] # "get" /\ pc[t] \in {"spin", "insert"} /\ task[t] = k
Taken(t, k)   == op[t] = "get" /\ pc[t] \in {"idle", "unlock"} /\ task[t] = k

\* No task is in two places: it is unused, with one producer, in the list
\* once, or returned by one getter; no interleaving duplicates a task.
NoDuplication ==
    /\ \A i, j \in 1 .. Len(pool) : pool[i] = pool[j] => i = j
    /\ \A k \in Tasks :
         /\ InPool(k) => k \notin unused
         /\ \A t \in Threads :
              /\ Pending(t, k) \/ Taken(t, k) => ~InPool(k) /\ k \notin unused
              /\ \A u \in Threads :
                   (Pending(t, k) \/ Taken(t, k)) /\ (Pending(u, k) \/ Taken(u, k))
                      => t = u

\* The value a getter read with front() is the one its pop_front() removes:
\* no insertion at the front comes between the two.
PopsWhatItRead ==
    \A t \in Threads : pc[t] = "pop" => pool # <<>> /\ task[t] = Head(pool)

\* The list implements the atomic queue: an insertion takes effect at the
\* list operation, a get at pop_front, when its result is settled.
Queue == INSTANCE TaskQueue WITH
           queue  <- pool,
           hand   <- [t \in Threads |->
                        IF op[t] = "get" /\ pc[t] # "pop" THEN task[t] ELSE NoTask],
           unused <- unused \cup {k \in Tasks :
                        \E t \in Threads : Pending(t, k)}

ImplementsTaskQueue == Queue!Spec

-----------------------------------------------------------------------------
\* No lost wake-up: a task in the list is eventually taken by one of the
\* consumers, as long as every release of the semaphore succeeded.
TaskIsTaken == \A k \in Tasks :
                 InPool(k) ~> (~InPool(k) \/ dropped > 0)
=============================================================================
