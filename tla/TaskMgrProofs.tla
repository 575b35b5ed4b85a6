--------------------------- MODULE TaskMgrProofs ---------------------------
(***************************************************************************)
(* TaskMgr for any number of threads, tasks and any semaphore maximum.     *)
(* The argument: which operation a thread is in follows from its step      *)
(* (Shape); the lock admits one thread (MutualExclusion); so the list and  *)
(* the semaphore move in step (TokenAccounting) and get never meets an     *)
(* empty list (FrontIsSafe); so front() and pop_front() see the same task  *)
(* (PopsWhatItRead), which is what the refinement of TaskQueue needs.      *)
(***************************************************************************)
EXTENDS TaskMgr, FiniteSetTheorems, SequenceTheorems, TLAPS

\* The step of a thread determines the operation it is executing, a producer
\* that has not inserted yet holds a task, and a tester never holds one.
Shape ==
    \A t \in Threads :
       /\ pc[t] \in {"insert", "push"} => op[t] \in {"add", "addFront"}
       /\ pc[t] \in {"wait", "front", "pop"} => op[t] = "get"
       /\ pc[t] = "test" => op[t] = "empty"
       /\ op[t] = "empty" => task[t] = NoTask
       /\ pc[t] \in {"spin", "insert"} /\ op[t] # "get" /\ op[t] # "empty"
             => task[t] \in Tasks

TypeInv == TypeOK /\ Shape

-----------------------------------------------------------------------------
LEMMA InitTypeInv == Init => TypeInv
BY SemMaxAssumption
   DEF Init, TypeInv, TypeOK, Shape, Ops, Steps

LEMMA StepTypeInv == TypeInv /\ [Next]_vars => TypeInv'
<1> SUFFICES ASSUME TypeInv, [Next]_vars PROVE TypeInv'
  OBVIOUS
<1> USE SemMaxAssumption, NoTaskAssumption
        DEF TypeInv, TypeOK, Shape, Ops, Steps
<1>1. ASSUME NEW t \in Threads, NEW o \in {"add", "addFront"},
             NEW k \in Tasks, CallPut(t, o, k)
      PROVE  TypeInv'
  BY <1>1 DEF CallPut, Goto
<1>2. ASSUME NEW t \in Threads, CallGet(t) PROVE TypeInv'
  BY <1>2 DEF CallGet, Goto
<1>3. ASSUME NEW t \in Threads, CallEmpty(t) PROVE TypeInv'
  BY <1>3 DEF CallEmpty, Goto
<1>4. ASSUME NEW t \in Threads, SemPop(t) PROVE TypeInv'
  BY <1>4 DEF SemPop, Goto
<1>5. ASSUME NEW t \in Threads, SemPush(t) PROVE TypeInv'
  BY <1>5 DEF SemPush, Goto
<1>6. ASSUME NEW t \in Threads, Exchange(t) PROVE TypeInv'
  BY <1>6 DEF Exchange, Goto, Entry
<1>7. ASSUME NEW t \in Threads, Unlock(t) PROVE TypeInv'
  BY <1>7 DEF Unlock, Goto
<1>8. ASSUME NEW t \in Threads, Insert(t) PROVE TypeInv'
  <2>1. task[t] \in Tasks
    BY <1>8 DEF Insert
  <2>2. pool' \in Seq(Tasks)
    BY <1>8, <2>1 DEF Insert
  <2> QED
    BY <1>8, <2>2 DEF Insert, Goto
<1>9. ASSUME NEW t \in Threads, ReadFront(t) PROVE TypeInv'
  BY <1>9 DEF ReadFront, Goto
<1>10. ASSUME NEW t \in Threads, PopFront(t) PROVE TypeInv'
  <2>1. pool' \in Seq(Tasks)
    BY <1>10 DEF PopFront
  <2> QED
    BY <1>10, <2>1 DEF PopFront, Goto
<1>11. ASSUME NEW t \in Threads, TestEmpty(t) PROVE TypeInv'
  BY <1>11 DEF TestEmpty, Goto
<1>12. CASE UNCHANGED vars
  BY <1>12 DEF vars
<1> QED
  BY <1>1, <1>2, <1>3, <1>4, <1>5, <1>6, <1>7, <1>8, <1>9, <1>10, <1>11, <1>12
     DEF Next, Call, Step

\* Every variable keeps its type: in particular the semaphore never exceeds
\* its maximum and the list holds tasks only (TaskMgr::add, get).
THEOREM TypeCorrect == Spec => []TypeOK
<1>1. TypeInv => TypeOK
  BY DEF TypeInv
<1> QED
  BY InitTypeInv, StepTypeInv, <1>1, PTL DEF Spec

-----------------------------------------------------------------------------
LEMMA InitMutualExclusion == Init => MutualExclusion
BY DEF Init, MutualExclusion, Critical

LEMMA StepMutualExclusion ==
    TypeInv /\ MutualExclusion /\ [Next]_vars => MutualExclusion'
<1> SUFFICES ASSUME TypeInv, MutualExclusion, [Next]_vars
             PROVE  MutualExclusion'
  OBVIOUS
<1> USE DEF TypeInv, TypeOK, MutualExclusion, Critical
\* A thread outside the lock that stays outside, or moves inside it.
<1>1. ASSUME NEW t \in Threads, mark' = mark,
             \E step \in Steps : pc' = [pc EXCEPT ![t] = step],
             pc[t] \in Critical <=> pc'[t] \in Critical
      PROVE  MutualExclusion'
  <2>1. \A u \in Threads : pc'[u] \in Critical <=> pc[u] \in Critical
    BY <1>1
  <2> QED
    BY <1>1, <2>1
<1>2. ASSUME NEW t \in Threads, NEW o \in {"add", "addFront"},
             NEW k \in Tasks, CallPut(t, o, k)
      PROVE  MutualExclusion'
  BY <1>1, <1>2 DEF CallPut, Goto, Steps
<1>3. ASSUME NEW t \in Threads, CallGet(t) PROVE MutualExclusion'
  BY <1>1, <1>3 DEF CallGet, Goto, Steps
<1>4. ASSUME NEW t \in Threads, CallEmpty(t) PROVE MutualExclusion'
  BY <1>1, <1>4 DEF CallEmpty, Goto, Steps
<1>5. ASSUME NEW t \in Threads, SemPop(t) PROVE MutualExclusion'
  BY <1>1, <1>5 DEF SemPop, Goto, Steps
<1>6. ASSUME NEW t \in Threads, SemPush(t) PROVE MutualExclusion'
  BY <1>1, <1>6 DEF SemPush, Goto, Steps
<1>7. ASSUME NEW t \in Threads, Exchange(t) PROVE MutualExclusion'
  <2>1. CASE mark = 1
    BY <1>7, <2>1 DEF Exchange
  <2>2. CASE mark = 0
    <3>1. Entry(op[t]) \in Critical
      BY DEF Entry, Ops
    <3>2. pc' = [pc EXCEPT ![t] = Entry(op[t])] /\ mark' = 1
      BY <1>7, <2>2 DEF Exchange, Goto
    <3>3. \A u \in Threads : pc[u] \notin Critical
      BY <2>2
    <3> QED
      BY <3>1, <3>2, <3>3
  <2> QED
    BY <2>1, <2>2
<1>8. ASSUME NEW t \in Threads, Unlock(t) PROVE MutualExclusion'
  <2>1. \A u \in Threads : pc'[u] \notin Critical
    BY <1>8 DEF Unlock, Goto
  <2> QED
    BY <1>8, <2>1 DEF Unlock
<1>9. ASSUME NEW t \in Threads, Insert(t) PROVE MutualExclusion'
  BY <1>1, <1>9 DEF Insert, Goto, Steps
<1>10. ASSUME NEW t \in Threads, ReadFront(t) PROVE MutualExclusion'
  <2>1. /\ pc[t] = "front" /\ pc' = [pc EXCEPT ![t] = "pop"] /\ mark' = mark
        /\ {"front", "pop"} \subseteq Critical
    BY <1>10 DEF ReadFront, Goto
  <2>2. \A u \in Threads : pc'[u] \in Critical <=> pc[u] \in Critical
    BY <1>1, <2>1
  <2> QED
    BY <2>1, <2>2
<1>11. ASSUME NEW t \in Threads, PopFront(t) PROVE MutualExclusion'
  BY <1>1, <1>11 DEF PopFront, Goto, Steps
<1>12. ASSUME NEW t \in Threads, TestEmpty(t) PROVE MutualExclusion'
  BY <1>1, <1>12 DEF TestEmpty, Goto, Steps
<1>13. CASE UNCHANGED vars
  BY <1>13 DEF vars
<1> QED
  BY <1>2, <1>3, <1>4, <1>5, <1>6, <1>7, <1>8, <1>9, <1>10, <1>11, <1>12, <1>13
     DEF Next, Call, Step

\* ZSimpleLock: never two threads between lock and unlock, and the mark is 1
\* exactly while one is there.
THEOREM LockIsExclusive == Spec => []MutualExclusion
BY InitTypeInv, StepTypeInv, InitMutualExclusion, StepMutualExclusion, PTL
   DEF Spec

-----------------------------------------------------------------------------
(***************************************************************************)
(* The accounting of tokens counts threads, so it needs cardinalities.     *)
(***************************************************************************)
LEMMA ClaimersFinite ==
    /\ IsFiniteSet(Claimers) /\ Cardinality(Claimers) \in Nat
    /\ IsFiniteSet(Posters)  /\ Cardinality(Posters) \in Nat
<1>1. Claimers \subseteq Threads /\ Posters \subseteq Threads
  BY DEF Claimers, Posters
<1>2. IsFiniteSet(Claimers) /\ IsFiniteSet(Posters)
  BY <1>1, FS_Subset, ThreadsAssumption
<1> QED
  BY <1>2, FS_CardinalityType

LEMMA InitTokenAccounting == Init => TokenAccounting
<1> SUFFICES ASSUME Init PROVE TokenAccounting
  OBVIOUS
<1>1. Claimers = {} /\ Posters = {}
  BY DEF Init, Claimers, Claims, Posters, Posting
<1>2. Cardinality({}) = 0
  BY FS_EmptySet
<1>3. Len(pool) = 0 /\ sem = 0 /\ dropped = 0
  BY DEF Init
<1> QED
  BY <1>1, <1>2, <1>3 DEF TokenAccounting

\* A thread on its way from the semaphore to pop_front finds a task.
LEMMA ClaimedPoolNotEmpty ==
    ASSUME TypeInv, TokenAccounting, NEW t \in Threads, Claims(t)
    PROVE  Len(pool) > 0 /\ pool # <<>>
<1>1. t \in Claimers
  BY DEF Claimers
<1>2. Cardinality(Claimers) # 0
  BY <1>1, ClaimersFinite, FS_EmptySet
<1>3. sem \in Nat /\ dropped \in Nat /\ Len(pool) \in Nat
  BY SemMaxAssumption DEF TypeInv, TypeOK
<1>4. Len(pool) > 0
  BY <1>2, <1>3, ClaimersFinite DEF TokenAccounting
<1>5. Len(<<>>) = 0
  OBVIOUS
<1> QED
  BY <1>4, <1>5

LEMMA StepTokenAccounting ==
    TypeInv /\ TokenAccounting /\ [Next]_vars => TokenAccounting'
<1> SUFFICES ASSUME TypeInv, TokenAccounting, [Next]_vars
             PROVE  TokenAccounting'
  OBVIOUS
<1> USE DEF TypeInv, TypeOK, Shape
<1>a. /\ sem \in Nat /\ dropped \in Nat /\ Len(pool) \in Nat
      /\ IsFiniteSet(Claimers) /\ Cardinality(Claimers) \in Nat
      /\ IsFiniteSet(Posters) /\ Cardinality(Posters) \in Nat
  BY ClaimersFinite, SemMaxAssumption
<1>b. /\ sem \in Nat /\ dropped \in Nat /\ Len(pool) \in Nat
      /\ Cardinality(Claimers) \in Nat /\ Cardinality(Posters) \in Nat
  BY ONLY <1>a
<1>0. ASSUME Claimers' = Claimers, Posters' = Posters,
             UNCHANGED <<sem, dropped, pool>>
      PROVE  TokenAccounting'
  BY <1>0 DEF TokenAccounting
<1> DEFINE Same == Claimers' = Claimers /\ Posters' = Posters
<1>1. ASSUME NEW t \in Threads, NEW o \in {"add", "addFront"},
             NEW k \in Tasks, CallPut(t, o, k)
      PROVE  TokenAccounting'
  <2>1. Same
    BY <1>1 DEF CallPut, Goto, Claimers, Claims, Posters, Posting
  <2> QED
    BY <1>0, <1>1, <2>1 DEF CallPut
<1>2. ASSUME NEW t \in Threads, CallGet(t) PROVE TokenAccounting'
  <2>1. Same
    BY <1>2 DEF CallGet, Goto, Claimers, Claims, Posters, Posting
  <2> QED
    BY <1>0, <1>2, <2>1 DEF CallGet
<1>3. ASSUME NEW t \in Threads, CallEmpty(t) PROVE TokenAccounting'
  <2>1. Same
    BY <1>3 DEF CallEmpty, Goto, Claimers, Claims, Posters, Posting
  <2> QED
    BY <1>0, <1>3, <2>1 DEF CallEmpty
<1>4. ASSUME NEW t \in Threads, SemPop(t) PROVE TokenAccounting'
  <2>1. Posters' = Posters
    BY <1>4 DEF SemPop, Goto, Posters, Posting
  <2>2. t \notin Claimers /\ Claimers' = Claimers \cup {t}
    BY <1>4 DEF SemPop, Goto, Claimers, Claims
  <2>3. Cardinality(Claimers') = Cardinality(Claimers) + 1
    BY ONLY <1>a, <2>2, FS_AddElement
  <2>4. sem > 0 /\ sem' = sem - 1 /\ UNCHANGED <<dropped, pool>>
    BY <1>4 DEF SemPop
  <2>5. TokenAccounting
    OBVIOUS
  <2> QED
    BY ONLY <1>b, <2>1, <2>3, <2>4, <2>5 DEF TokenAccounting
<1>5. ASSUME NEW t \in Threads, SemPush(t) PROVE TokenAccounting'
  <2>1. Claimers' = Claimers
    BY <1>5 DEF SemPush, Goto, Claimers, Claims
  <2>2. t \in Posters /\ Posters' = Posters \ {t}
    BY <1>5 DEF SemPush, Goto, Posters, Posting
  <2>3. Cardinality(Posters') = Cardinality(Posters) - 1
        /\ Cardinality(Posters') \in Nat
    BY ONLY <1>a, <2>2, FS_RemoveElement, FS_CardinalityType
  <2>4. UNCHANGED pool /\ TokenAccounting
    BY <1>5 DEF SemPush
  <2>5. CASE sem < SemMax
    <3>1. sem' = sem + 1 /\ dropped' = dropped
      BY <1>5, <2>5 DEF SemPush
    <3> QED
      BY ONLY <1>b, <2>1, <2>3, <2>4, <3>1 DEF TokenAccounting
  <2>6. CASE ~(sem < SemMax)
    <3>1. sem' = sem /\ dropped' = dropped + 1
      BY <1>5, <2>6 DEF SemPush
    <3> QED
      BY ONLY <1>b, <2>1, <2>3, <2>4, <3>1 DEF TokenAccounting
  <2> QED
    BY <2>5, <2>6
<1>6. ASSUME NEW t \in Threads, Exchange(t) PROVE TokenAccounting'
  <2>1. CASE mark = 1
    BY <1>0, <1>6, <2>1 DEF Exchange, Claimers, Claims, Posters, Posting
  <2>2. CASE mark = 0
    <3>1. Entry(op[t]) # "push" /\ Entry(op[t]) # "pop" /\ Entry(op[t]) # "spin"
          /\ (Entry(op[t]) = "front" <=> op[t] = "get")
      BY DEF Entry, Ops
    <3>2. pc' = [pc EXCEPT ![t] = Entry(op[t])] /\ pc[t] = "spin" /\ op' = op
      BY <1>6, <2>2 DEF Exchange, Goto
    <3>3. Same
      BY <3>1, <3>2 DEF Claimers, Claims, Posters, Posting
    <3> QED
      BY <1>0, <1>6, <3>3 DEF Exchange
  <2> QED
    BY <2>1, <2>2
<1>7. ASSUME NEW t \in Threads, Unlock(t) PROVE TokenAccounting'
  <2>1. Same
    BY <1>7 DEF Unlock, Goto, Claimers, Claims, Posters, Posting
  <2> QED
    BY <1>0, <1>7, <2>1 DEF Unlock
<1>8. ASSUME NEW t \in Threads, Insert(t) PROVE TokenAccounting'
  <2>1. Claimers' = Claimers
    BY <1>8 DEF Insert, Goto, Claimers, Claims
  <2>2. t \notin Posters /\ Posters' = Posters \cup {t}
    BY <1>8 DEF Insert, Goto, Posters, Posting
  <2>3. Cardinality(Posters') = Cardinality(Posters) + 1
    BY <1>a, <2>2, FS_AddElement
  <2>4. task[t] \in Tasks
    BY <1>8 DEF Insert
  <2>5. Len(pool') = Len(pool) + 1
    BY <1>8, <2>4 DEF Insert
  <2>6. sem' = sem /\ dropped' = dropped
    BY <1>8 DEF Insert
  <2> DEFINE length == Len(pool)
  <2>7. /\ sem + Cardinality(Claimers) + Cardinality(Posters) + dropped = length
        /\ length \in Nat /\ Len(pool') = length + 1
    BY <1>a, <2>5 DEF TokenAccounting
  <2> HIDE DEF TypeInv, TypeOK, Shape, length
  <2>8. sem + Cardinality(Claimers) + Cardinality(Posters') + dropped
           = length + 1
    BY ONLY <1>b, <2>3, <2>7
  <2> QED
    BY ONLY <2>1, <2>6, <2>7, <2>8 DEF TokenAccounting
<1>9. ASSUME NEW t \in Threads, ReadFront(t) PROVE TokenAccounting'
  <2>1. Same
    BY <1>9 DEF ReadFront, Goto, Claimers, Claims, Posters, Posting
  <2> QED
    BY <1>0, <1>9, <2>1 DEF ReadFront
<1>10. ASSUME NEW t \in Threads, PopFront(t) PROVE TokenAccounting'
  <2>1. Posters' = Posters
    BY <1>10 DEF PopFront, Goto, Posters, Posting
  <2>2. t \in Claimers /\ Claimers' = Claimers \ {t}
    BY <1>10 DEF PopFront, Goto, Claimers, Claims
  <2>3. Cardinality(Claimers') = Cardinality(Claimers) - 1
    BY <1>a, <2>2, FS_RemoveElement
  <2>4. pool # <<>>
    BY <2>2, ClaimedPoolNotEmpty DEF Claimers
  <2>5. Len(pool') = Len(pool) - 1 /\ UNCHANGED <<sem, dropped>>
    BY <1>10, <2>4 DEF PopFront
  <2>6. TokenAccounting
    OBVIOUS
  <2> QED
    BY ONLY <1>b, <2>1, <2>3, <2>5, <2>6 DEF TokenAccounting
<1>11. ASSUME NEW t \in Threads, TestEmpty(t) PROVE TokenAccounting'
  <2>1. Same
    BY <1>11 DEF TestEmpty, Goto, Claimers, Claims, Posters, Posting
  <2> QED
    BY <1>0, <1>11, <2>1 DEF TestEmpty
<1>12. CASE UNCHANGED vars
  BY <1>0, <1>12 DEF vars, Claimers, Claims, Posters, Posting
<1> QED
  BY <1>1, <1>2, <1>3, <1>4, <1>5, <1>6, <1>7, <1>8, <1>9, <1>10, <1>11, <1>12
     DEF Next, Call, Step

\* Tasks in the list, tokens, getters under way, producers about to release
\* and failed releases balance in every reachable state (TaskMgr::get takes
\* its token before the lock, add releases it under the lock).
THEOREM TokensBalance == Spec => []TokenAccounting
BY InitTypeInv, StepTypeInv, InitTokenAccounting, StepTokenAccounting, PTL
   DEF Spec

\* TaskMgr::get never calls front() or pop_front() on an empty list.
THEOREM GetIsSafe == Spec => []FrontIsSafe
<1>1. TypeInv /\ TokenAccounting => FrontIsSafe
  <2> SUFFICES ASSUME TypeInv, TokenAccounting, NEW t \in Threads,
                      pc[t] \in {"front", "pop"}
               PROVE  pool # <<>>
    BY DEF FrontIsSafe
  <2>1. Claims(t)
    BY DEF Claims, TypeInv, Shape
  <2> QED
    BY <2>1, ClaimedPoolNotEmpty
<1> QED
  BY InitTypeInv, StepTypeInv, InitTokenAccounting, StepTokenAccounting, <1>1, PTL
     DEF Spec

\* ReleaseSemaphore fails only while more tasks are in the list than the
\* semaphore can count: the producer whose release fails has its own task in the
\* list, and the balance counts it beside the SemMax tokens.
THEOREM NoEarlyFailure == Spec => ReleaseFailsOnlyWhenFull
<1>1. ASSUME TypeInv, TokenAccounting, [Next]_vars, dropped' # dropped
      PROVE  Len(pool) > SemMax
  <2>1. PICK t \in Threads : SemPush(t)
    BY <1>1 DEF Next, Call, Step, CallPut, CallGet, CallEmpty, SemPop, Exchange,
                Unlock, Insert, ReadFront, PopFront, TestEmpty, vars
  <2>2. sem = SemMax /\ SemMax \in Nat /\ dropped \in Nat
    BY <1>1, <2>1, SemMaxAssumption DEF SemPush, TypeInv, TypeOK
  <2>3. t \in Posters
    BY <2>1 DEF SemPush, Posters, Posting
  <2>4. Cardinality(Posters) # 0
    BY <2>3, ClaimersFinite, FS_EmptySet
  <2> DEFINE claimers == Cardinality(Claimers)
             posters  == Cardinality(Posters)
             length   == Len(pool)
  <2>5. sem + claimers + posters + dropped = length
    BY <1>1 DEF TokenAccounting
  <2>6. claimers \in Nat /\ posters \in Nat /\ posters # 0
    BY <2>4, ClaimersFinite
  <2> HIDE DEF claimers, posters, length
  <2>7. length > SemMax
    BY ONLY <2>2, <2>5, <2>6
  <2> QED
    BY <2>7 DEF length
<1>2. TypeInv /\ TokenAccounting /\ [Next]_vars
        => [dropped' # dropped => Len(pool) > SemMax]_vars
  BY <1>1
<1> QED
  BY InitTypeInv, StepTypeInv, InitTokenAccounting, StepTokenAccounting, <1>2, PTL
     DEF Spec, ReleaseFailsOnlyWhenFull
=============================================================================
