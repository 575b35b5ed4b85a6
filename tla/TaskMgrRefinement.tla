------------------------- MODULE TaskMgrRefinement -------------------------
(***************************************************************************)
(* No task is in two places, and TaskMgr implements TaskQueue, for any     *)
(* number of threads, tasks and any semaphore maximum.  The argument goes  *)
(* on from TaskMgrProofs: under the lock front() and pop_front() see the   *)
(* same task (PopsWhatItRead); so a task moves from one place to the next  *)
(* (NoDuplication); so the step that changes the list is the step of the   *)
(* abstract queue, and every other step changes nothing of it or lets a    *)
(* caller forget what it had got.                                          *)
(***************************************************************************)
EXTENDS TaskMgrProofs

-----------------------------------------------------------------------------
LEMMA InitPopsWhatItRead == Init => PopsWhatItRead
BY DEF Init, PopsWhatItRead

LEMMA StepPopsWhatItRead ==
    TypeInv /\ MutualExclusion /\ TokenAccounting /\ PopsWhatItRead /\ [Next]_vars
      => PopsWhatItRead'
<1> SUFFICES ASSUME TypeInv, MutualExclusion, TokenAccounting, PopsWhatItRead,
                    [Next]_vars
             PROVE  PopsWhatItRead'
  OBVIOUS
<1> USE DEF TypeInv, TypeOK, PopsWhatItRead
\* A thread in the critical section leaves nobody else at pop_front.
<1>a. ASSUME NEW t \in Threads, pc[t] \in Critical,
             \A u \in Threads \ {t} : pc'[u] = pc[u], pc'[t] # "pop"
      PROVE  PopsWhatItRead'
  <2>1. \A u \in Threads : pc'[u] # "pop"
    BY <1>a DEF MutualExclusion, Critical
  <2> QED
    BY <2>1
\* A thread that comes nowhere near the list changes nothing for the others.
<1>b. ASSUME NEW t \in Threads, pool' = pool, pc'[t] # "pop",
             \A u \in Threads \ {t} : pc'[u] = pc[u] /\ task'[u] = task[u]
      PROVE  PopsWhatItRead'
  BY <1>b
<1>1. ASSUME NEW t \in Threads, NEW o \in {"add", "addFront"},
             NEW k \in Tasks, CallPut(t, o, k)
      PROVE  PopsWhatItRead'
  BY <1>1, <1>b DEF CallPut, Goto
<1>2. ASSUME NEW t \in Threads, CallGet(t) PROVE PopsWhatItRead'
  BY <1>2, <1>b DEF CallGet, Goto
<1>3. ASSUME NEW t \in Threads, CallEmpty(t) PROVE PopsWhatItRead'
  BY <1>3, <1>b DEF CallEmpty, Goto
<1>4. ASSUME NEW t \in Threads, SemPop(t) PROVE PopsWhatItRead'
  BY <1>4, <1>b DEF SemPop, Goto
<1>5. ASSUME NEW t \in Threads, SemPush(t) PROVE PopsWhatItRead'
  BY <1>5, <1>b DEF SemPush, Goto
<1>6. ASSUME NEW t \in Threads, Exchange(t) PROVE PopsWhatItRead'
  BY <1>6, <1>b DEF Exchange, Goto, Entry, Ops
<1>7. ASSUME NEW t \in Threads, Unlock(t) PROVE PopsWhatItRead'
  BY <1>7, <1>b DEF Unlock, Goto
<1>8. ASSUME NEW t \in Threads, Insert(t) PROVE PopsWhatItRead'
  BY <1>8, <1>a DEF Insert, Goto, Critical
<1>9. ASSUME NEW t \in Threads, ReadFront(t) PROVE PopsWhatItRead'
  <2>1. pool # <<>>
    BY <1>9, ClaimedPoolNotEmpty DEF ReadFront, Claims, Shape
  <2>2. task'[t] = Head(pool) /\ pool' = pool
    BY <1>9, <2>1 DEF ReadFront
  <2>3. \A u \in Threads \ {t} : pc'[u] = pc[u] /\ pc[u] # "pop"
    BY <1>9 DEF ReadFront, Goto, MutualExclusion, Critical
  <2> QED
    BY <2>1, <2>2, <2>3
<1>10. ASSUME NEW t \in Threads, PopFront(t) PROVE PopsWhatItRead'
  BY <1>10, <1>a DEF PopFront, Goto, Critical
<1>11. ASSUME NEW t \in Threads, TestEmpty(t) PROVE PopsWhatItRead'
  BY <1>11, <1>b DEF TestEmpty, Goto
<1>12. CASE UNCHANGED vars
  BY <1>12 DEF vars
<1> QED
  BY <1>1, <1>2, <1>3, <1>4, <1>5, <1>6, <1>7, <1>8, <1>9, <1>10, <1>11, <1>12
     DEF Next, Call, Step

\* What TaskMgr::get returns is the task it removes: nothing is inserted at
\* the front between its front() and its pop_front().
THEOREM GetPopsWhatItRead == Spec => []PopsWhatItRead
BY InitTypeInv, StepTypeInv, InitMutualExclusion, StepMutualExclusion,
   InitTokenAccounting, StepTokenAccounting, InitPopsWhatItRead, StepPopsWhatItRead,
   PTL DEF Spec

-----------------------------------------------------------------------------
\* What thread t has in its hands: a task it is inserting or one it removed.
Has(t, k) == Pending(t, k) \/ Taken(t, k)

\* NoDuplication in the form the proof uses: four facts about one or two
\* places at a time.
Apart == /\ \A i, j \in 1 .. Len(pool) : pool[i] = pool[j] => i = j
         /\ \A k \in Tasks : InPool(k) => k \notin unused
         /\ \A k \in Tasks, t \in Threads : Has(t, k) => ~InPool(k) /\ k \notin unused
         /\ \A k \in Tasks, t, u \in Threads : Has(t, k) /\ Has(u, k) => t = u

LEMMA ApartIsNoDuplication == Apart <=> NoDuplication
BY DEF Apart, NoDuplication, Has

LEMMA InitApart == Init => Apart
BY NoTaskAssumption DEF Init, Apart, Has, Pending, Taken, InPool

\* A step that leaves list and unused tasks alone and gives nobody a task.
LEMMA NothingGained ==
    ASSUME Apart, UNCHANGED <<pool, unused>>,
           \A t \in Threads, k \in Tasks : Has(t, k)' => Has(t, k)
    PROVE  Apart'
BY DEF Apart, InPool

\* The same, for a step of one thread.
LEMMA OthersAlone ==
    ASSUME NEW t \in Threads,
           \A u \in Threads \ {t} : /\ pc'[u] = pc[u]
                                    /\ op'[u] = op[u]
                                    /\ task'[u] = task[u]
    PROVE  \A u \in Threads \ {t}, k \in Tasks : Has(u, k)' <=> Has(u, k)
BY DEF Has, Pending, Taken

\* The tail of a sequence, element by element.
LEMMA TailElements ==
    ASSUME NEW S, NEW q \in Seq(S), q # <<>>
    PROVE  /\ Len(Tail(q)) = Len(q) - 1 /\ Len(q) \in Nat \ {0}
           /\ \A i \in 1 .. Len(q) - 1 : Tail(q)[i] = q[i + 1]
           /\ Head(q) = q[1]
OBVIOUS

\* When the elements are distinct, those of the tail are and none is the head.
LEMMA TailDistinct ==
    ASSUME NEW S, NEW q \in Seq(S), q # <<>>,
           \A i, j \in 1 .. Len(q) : q[i] = q[j] => i = j
    PROVE  /\ \A i, j \in 1 .. Len(Tail(q)) : Tail(q)[i] = Tail(q)[j] => i = j
           /\ \A i \in 1 .. Len(Tail(q)) : Tail(q)[i] # Head(q)
<1> DEFINE n == Len(q)
<1>1. n \in Nat \ {0} /\ Len(Tail(q)) = n - 1
  BY TailElements
<1>2. \A i \in 1 .. n - 1 : Tail(q)[i] = q[i + 1] /\ i + 1 \in 1 .. n /\ i + 1 # 1
  BY <1>1, TailElements
<1>3. Head(q) = q[1] /\ 1 \in 1 .. n
  BY <1>1, TailElements
<1> QED
  BY <1>1, <1>2, <1>3

\* A new element at either end of a sequence, which holds it once more.
LEMMA AppendElements ==
    ASSUME NEW S, NEW q \in Seq(S), NEW k \in S
    PROVE  /\ Len(Append(q, k)) = Len(q) + 1 /\ Len(q) \in Nat
           /\ \A i \in 1 .. Len(q) : Append(q, k)[i] = q[i]
           /\ Append(q, k)[Len(q) + 1] = k
OBVIOUS

LEMMA ConsElements ==
    ASSUME NEW S, NEW q \in Seq(S), NEW k \in S
    PROVE  /\ Len(<<k>> \o q) = Len(q) + 1 /\ Len(q) \in Nat
           /\ \A i \in 1 .. Len(q) : (<<k>> \o q)[i + 1] = q[i]
           /\ (<<k>> \o q)[1] = k
OBVIOUS

In(q, l)    == \E i \in 1 .. Len(q) : q[i] = l
Distinct(q) == \A i, j \in 1 .. Len(q) : q[i] = q[j] => i = j

LEMMA InsertDistinct ==
    ASSUME NEW S, NEW q \in Seq(S), NEW k \in S, NEW r,
           r = Append(q, k) \/ r = <<k>> \o q
    PROVE  /\ \A l \in S : In(r, l) <=> In(q, l) \/ l = k
           /\ Distinct(q) /\ ~In(q, k) => Distinct(r)
<1> USE DEF In, Distinct
<1> DEFINE n == Len(q)
<1>1. CASE r = Append(q, k)
  <2>1. n \in Nat /\ Len(r) = n + 1 /\ r[n + 1] = k /\ \A i \in 1 .. n : r[i] = q[i]
    BY <1>1, AppendElements
  <2>2. \A i \in 1 .. n + 1 : i \in 1 .. n \/ i = n + 1
    BY <2>1
  <2>3. \A i \in 1 .. n : i \in 1 .. n + 1
    BY <2>1
  <2>4. n + 1 \in 1 .. n + 1
    BY <2>1
  <2>5. \A l : (\E i \in 1 .. n + 1 : r[i] = l) <=> (\E i \in 1 .. n : r[i] = l) \/ r[n + 1] = l
    BY ONLY <2>2, <2>3, <2>4
  <2>6. \A l : (\E i \in 1 .. n : r[i] = l) <=> (\E i \in 1 .. n : q[i] = l)
    BY ONLY <2>1
  <2> HIDE DEF n
  <2> QED
    BY <2>1, <2>2, <2>3, <2>4, <2>5, <2>6 DEF n
<1>2. CASE r = <<k>> \o q
  <2>1. n \in Nat /\ Len(r) = n + 1 /\ r[1] = k /\ \A i \in 1 .. n : r[i + 1] = q[i]
    BY <1>2, ConsElements
  <2>2. \A i \in 1 .. n + 1 : i = 1 \/ (i - 1 \in 1 .. n /\ r[i] = q[i - 1])
    BY <2>1
  <2>3. \A i \in 1 .. n : i + 1 \in 1 .. n + 1
    BY <2>1
  <2>4. 1 \in 1 .. n + 1
    BY <2>1
  <2>5. \A i, j \in 1 .. n + 1 : i - 1 = j - 1 => i = j
    BY <2>1
  <2>6. \A l : (\E i \in 1 .. Len(r) : r[i] = l)
                 <=> (\E i \in 1 .. n : q[i] = l) \/ l = k
    <3>1. ASSUME NEW l, NEW i \in 1 .. n + 1, r[i] = l
          PROVE  (\E j \in 1 .. n : q[j] = l) \/ l = k
      BY ONLY <2>1, <2>2, <3>1
    <3>2. ASSUME NEW l, NEW i \in 1 .. n, q[i] = l
          PROVE  \E j \in 1 .. n + 1 : r[j] = l
      BY ONLY <2>1, <2>3, <3>2
    <3>3. \E j \in 1 .. n + 1 : r[j] = k
      BY ONLY <2>1, <2>4
    <3> HIDE DEF n
    <3> QED
      BY ONLY <2>1, <3>1, <3>2, <3>3
  <2>7. ASSUME \A i, j \in 1 .. n : q[i] = q[j] => i = j,
               \A i \in 1 .. n : q[i] # k,
               NEW i \in 1 .. n + 1, NEW j \in 1 .. n + 1, r[i] = r[j]
        PROVE  i = j
    <3>1. ASSUME NEW h \in 1 .. n + 1, h # 1 PROVE r[h] # k
      <4>1. h - 1 \in 1 .. n /\ r[h] = q[h - 1]
        BY <2>2, <3>1
      <4>2. q[h - 1] # k
        BY <2>7, <4>1
      <4> QED
        BY <4>1, <4>2
    <3>2. CASE i = 1
      BY <2>1, <2>7, <3>1, <3>2
    <3>3. CASE j = 1
      BY <2>1, <2>7, <3>1, <3>3
    <3>4. CASE i # 1 /\ j # 1
      <4>1. q[i - 1] = q[j - 1] /\ i - 1 \in 1 .. n /\ j - 1 \in 1 .. n
        BY <2>2, <2>7, <3>4
      <4>2. i - 1 = j - 1
        BY <2>7, <4>1
      <4> QED
        BY <2>5, <4>2
    <3> QED
      BY <3>2, <3>3, <3>4
  <2> HIDE DEF n
  <2> QED
    BY <2>1, <2>6, <2>7 DEF n
<1> QED
  BY <1>1, <1>2

LEMMA StepApart ==
    TypeInv /\ MutualExclusion /\ TokenAccounting /\ PopsWhatItRead /\ Apart
      /\ [Next]_vars => Apart'
<1> SUFFICES ASSUME TypeInv, MutualExclusion, TokenAccounting, PopsWhatItRead,
                    Apart, [Next]_vars
             PROVE  Apart'
  OBVIOUS
<1> USE NoTaskAssumption DEF TypeInv, TypeOK
\* A step of one thread that keeps the list and gives that thread nothing.
<1>a. ASSUME NEW t \in Threads, UNCHANGED <<pool, unused>>,
             \A u \in Threads \ {t} : /\ pc'[u] = pc[u]
                                      /\ op'[u] = op[u]
                                      /\ task'[u] = task[u],
             \A k \in Tasks : Has(t, k)' => Has(t, k)
      PROVE  Apart'
  BY <1>a, OthersAlone, NothingGained
<1>1. ASSUME NEW t \in Threads, NEW o \in {"add", "addFront"},
             NEW k \in Tasks, CallPut(t, o, k)
      PROVE  Apart'
  <2>1. \A u \in Threads \ {t}, l \in Tasks : Has(u, l)' <=> Has(u, l)
    BY <1>1, OthersAlone DEF CallPut, Goto
  <2>2. \A l \in Tasks : Has(t, l)' => l = k
    BY <1>1 DEF CallPut, Goto, Has, Pending, Taken
  <2>3. pool' = pool /\ unused' = unused \ {k} /\ k \in unused
    BY <1>1 DEF CallPut
  <2>4. \A l \in Tasks : InPool(l)' <=> InPool(l)
    BY <2>3 DEF InPool
  <2>5. ~InPool(k) /\ \A u \in Threads : ~Has(u, k)
    BY <2>3 DEF Apart
  <2> QED
    BY <2>1, <2>2, <2>3, <2>4, <2>5 DEF Apart
<1>2. ASSUME NEW t \in Threads, CallGet(t) PROVE Apart'
  BY <1>2, <1>a DEF CallGet, Goto, Has, Pending, Taken
<1>3. ASSUME NEW t \in Threads, CallEmpty(t) PROVE Apart'
  BY <1>3, <1>a DEF CallEmpty, Goto, Has, Pending, Taken
<1>4. ASSUME NEW t \in Threads, SemPop(t) PROVE Apart'
  BY <1>4, <1>a DEF SemPop, Goto, Has, Pending, Taken, Shape
<1>5. ASSUME NEW t \in Threads, SemPush(t) PROVE Apart'
  BY <1>5, <1>a DEF SemPush, Goto, Has, Pending, Taken, Shape
<1>6. ASSUME NEW t \in Threads, Exchange(t) PROVE Apart'
  <2>1. Entry(op[t]) # "idle" /\ Entry(op[t]) # "unlock"
    BY DEF Entry, Ops
  <2>2. \A k \in Tasks : Has(t, k)' => Has(t, k)
    BY <1>6, <2>1 DEF Exchange, Goto, Has, Pending, Taken
  <2> QED
    BY <1>6, <1>a, <2>2 DEF Exchange, Goto
<1>7. ASSUME NEW t \in Threads, Unlock(t) PROVE Apart'
  BY <1>7, <1>a DEF Unlock, Goto, Has, Pending, Taken
<1>8. ASSUME NEW t \in Threads, Insert(t) PROVE Apart'
  <2> DEFINE k == task[t]
  <2>1. k \in Tasks /\ Has(t, k)
    BY <1>8 DEF Insert, Has, Pending, Shape
  <2>2. \A u \in Threads \ {t}, l \in Tasks : Has(u, l)' <=> Has(u, l)
    BY <1>8, OthersAlone DEF Insert, Goto
  <2>3. \A l \in Tasks : ~Has(t, l)'
    BY <1>8 DEF Insert, Goto, Has, Pending, Taken, Shape
  <2>4. pool' = Append(pool, k) \/ pool' = <<k>> \o pool
    BY <1>8 DEF Insert
  <2>5. ~InPool(k) /\ k \notin unused /\ unused' = unused
    BY <1>8, <2>1 DEF Insert, Apart
  <2>6. pool \in Seq(Tasks) /\ Distinct(pool) /\ ~In(pool, k)
    BY <2>5 DEF Apart, Distinct, In, InPool
  <2>7. Distinct(pool') /\ \A l \in Tasks : In(pool', l) <=> In(pool, l) \/ l = k
    BY ONLY <2>1, <2>4, <2>6, InsertDistinct
  <2>8. /\ \A i, j \in 1 .. Len(pool') : pool'[i] = pool'[j] => i = j
        /\ \A l \in Tasks : InPool(l)' <=> InPool(l) \/ l = k
    BY <2>7 DEF Distinct, In, InPool
  <2>9. \A u \in Threads \ {t} : ~Has(u, k)
    BY <2>1 DEF Apart
  <2>10. \A l \in Tasks : InPool(l)' => l \notin unused'
    BY <2>5, <2>8 DEF Apart
  <2>11. \A l \in Tasks, u \in Threads : Has(u, l)' => ~InPool(l)' /\ l \notin unused'
    BY <2>2, <2>3, <2>5, <2>8, <2>9 DEF Apart
  <2>12. \A l \in Tasks, u, v \in Threads : Has(u, l)' /\ Has(v, l)' => u = v
    BY <2>2, <2>3 DEF Apart
  <2> QED
    BY <2>8, <2>10, <2>11, <2>12 DEF Apart
<1>9. ASSUME NEW t \in Threads, ReadFront(t) PROVE Apart'
  BY <1>9, <1>a DEF ReadFront, Goto, Has, Pending, Taken, Shape
<1>10. ASSUME NEW t \in Threads, PopFront(t) PROVE Apart'
  <2>1. pool # <<>> /\ task[t] = Head(pool) /\ task[t] \in Tasks
    BY <1>10 DEF PopFront, PopsWhatItRead
  <2>2. pool' = Tail(pool) /\ unused' = unused /\ task' = task
    BY <1>10, <2>1 DEF PopFront
  <2>3. \A u \in Threads \ {t}, l \in Tasks : Has(u, l)' <=> Has(u, l)
    BY <1>10, OthersAlone DEF PopFront, Goto
  <2>4. \A l \in Tasks : Has(t, l)' => l = task[t]
    BY <1>10 DEF PopFront, Goto, Has, Pending, Taken
  <2>5. InPool(task[t])
    BY <2>1 DEF InPool
  <2>6. \A l \in Tasks : InPool(l)' => InPool(l)
    BY <2>1, <2>2 DEF InPool
  <2>7. \A i, j \in 1 .. Len(pool) : pool[i] = pool[j] => i = j
    BY DEF Apart
  <2>8. /\ \A i, j \in 1 .. Len(Tail(pool)) : Tail(pool)[i] = Tail(pool)[j] => i = j
        /\ \A i \in 1 .. Len(Tail(pool)) : Tail(pool)[i] # Head(pool)
    BY <2>1, <2>7, TailDistinct
  <2>9. ~InPool(task[t])'
    BY <2>1, <2>2, <2>8 DEF InPool
  <2>10. \A u \in Threads \ {t} : ~Has(u, task[t])
    BY <2>1, <2>5 DEF Apart
  <2>11. \A l \in Tasks : InPool(l)' => l \notin unused'
    BY <2>2, <2>6 DEF Apart
  <2>12. \A l \in Tasks, u \in Threads : Has(u, l)' => ~InPool(l)' /\ l \notin unused'
    BY <2>1, <2>2, <2>3, <2>4, <2>5, <2>6, <2>9 DEF Apart
  <2>13. \A l \in Tasks, u, v \in Threads : Has(u, l)' /\ Has(v, l)' => u = v
    BY <2>1, <2>3, <2>4, <2>10 DEF Apart
  <2> QED
    BY <2>2, <2>8, <2>11, <2>12, <2>13 DEF Apart
<1>11. ASSUME NEW t \in Threads, TestEmpty(t) PROVE Apart'
  BY <1>11, <1>a DEF TestEmpty, Goto, Has, Pending, Taken, Shape
<1>12. CASE UNCHANGED vars
  BY <1>12, NothingGained DEF vars, Has, Pending, Taken
<1> QED
  BY <1>1, <1>2, <1>3, <1>4, <1>5, <1>6, <1>7, <1>8, <1>9, <1>10, <1>11, <1>12
     DEF Next, Call, Step

\* No interleaving of add, addFront and get duplicates a task: it is unused,
\* with one producer, in the list once, or returned by one getter.
THEOREM NothingIsDuplicated == Spec => []NoDuplication
<1> USE DEF Spec
<1>1. Apart => NoDuplication
  BY ApartIsNoDuplication
<1> QED
  BY InitTypeInv, StepTypeInv, InitMutualExclusion, StepMutualExclusion,
     InitTokenAccounting, StepTokenAccounting, InitPopsWhatItRead,
     StepPopsWhatItRead, InitApart, StepApart, <1>1, PTL

-----------------------------------------------------------------------------
(***************************************************************************)
(* The abstract variables, under the mapping of TaskMgr!Queue.             *)
(***************************************************************************)
Hand == [t \in Threads |->
           IF op[t] = "get" /\ pc[t] # "pop" THEN task[t] ELSE NoTask]
Free == unused \cup {k \in Tasks : \E t \in Threads : Pending(t, k)}

LEMMA InitRefines == Init => Queue!Init
<1> SUFFICES ASSUME Init PROVE Queue!Init
  OBVIOUS
<1>1. Free = Tasks
  BY NoTaskAssumption DEF Init, Free, Pending
<1>2. Hand = [t \in Threads |-> NoTask]
  BY DEF Init, Hand
<1> QED
  BY <1>1, <1>2 DEF Init, Queue!Init, Hand, Free

\* A step that concerns neither the list, nor a hand, nor a free task.
LEMMA Stutters ==
    ASSUME pool' = pool, Hand' = Hand, Free' = Free
    PROVE  UNCHANGED Queue!vars
BY DEF Queue!vars, Hand, Free

\* A call lets go of what the thread had got before.
LEMMA Forgets ==
    ASSUME NEW t \in Threads, pool' = pool, Free' = Free,
           Hand' = [Hand EXCEPT ![t] = NoTask]
    PROVE  Queue!Next
BY DEF Queue!Next, Queue!Forget, Hand, Free

LEMMA StepRefines ==
    TypeInv /\ MutualExclusion /\ TokenAccounting /\ PopsWhatItRead /\ Apart
      /\ [Next]_vars => [Queue!Next]_(Queue!vars)
<1> SUFFICES ASSUME TypeInv, MutualExclusion, TokenAccounting, PopsWhatItRead,
                    Apart, [Next]_vars
             PROVE  Queue!Next \/ UNCHANGED Queue!vars
  OBVIOUS
<1> DEFINE Refined == Queue!Next \/ UNCHANGED Queue!vars
<1> USE NoTaskAssumption DEF TypeInv, TypeOK
<1>1. ASSUME NEW t \in Threads, NEW o \in {"add", "addFront"},
             NEW k \in Tasks, CallPut(t, o, k)
      PROVE  Refined
  <2>1. \A l \in Tasks : (\E u \in Threads : Pending(u, l)') <=>
                         (\E u \in Threads : Pending(u, l)) \/ l = k
    <3>1. \A l \in Tasks : (Pending(t, l)' <=> l = k) /\ ~Pending(t, l)
      BY <1>1 DEF CallPut, Goto, Pending
    <3>2. \A u \in Threads \ {t}, l \in Tasks : Pending(u, l)' <=> Pending(u, l)
      BY <1>1 DEF CallPut, Goto, Pending
    <3> QED
      BY <3>1, <3>2
  <2>2. Free' = Free
    BY <1>1, <2>1 DEF CallPut, Free
  <2>3. Hand' = [Hand EXCEPT ![t] = NoTask]
    BY <1>1 DEF CallPut, Goto, Hand
  <2> QED
    BY <1>1, <2>2, <2>3, Forgets DEF CallPut
<1>2. ASSUME NEW t \in Threads, CallGet(t) PROVE Refined
  <2>1. Free' = Free
    BY <1>2 DEF CallGet, Goto, Free, Pending
  <2>2. Hand' = [Hand EXCEPT ![t] = NoTask]
    BY <1>2 DEF CallGet, Goto, Hand
  <2> QED
    BY <1>2, <2>1, <2>2, Forgets DEF CallGet
<1>3. ASSUME NEW t \in Threads, CallEmpty(t) PROVE Refined
  <2>1. Free' = Free
    BY <1>3 DEF CallEmpty, Goto, Free, Pending
  <2>2. Hand' = [Hand EXCEPT ![t] = NoTask]
    BY <1>3 DEF CallEmpty, Goto, Hand
  <2> QED
    BY <1>3, <2>1, <2>2, Forgets DEF CallEmpty
<1>4. ASSUME NEW t \in Threads, SemPop(t) PROVE Refined
  <2>1. Free' = Free /\ Hand' = Hand
    BY <1>4 DEF SemPop, Goto, Free, Pending, Hand, Shape
  <2> QED
    BY <1>4, <2>1, Stutters DEF SemPop
<1>5. ASSUME NEW t \in Threads, SemPush(t) PROVE Refined
  <2>1. Free' = Free /\ Hand' = Hand
    BY <1>5 DEF SemPush, Goto, Free, Pending, Hand, Shape
  <2> QED
    BY <1>5, <2>1, Stutters DEF SemPush
<1>6. ASSUME NEW t \in Threads, Exchange(t) PROVE Refined
  <2>1. /\ Entry(op[t]) # "pop"
        /\ op[t] \in {"add", "addFront"} => Entry(op[t]) = "insert"
        /\ op[t] = "empty" => task[t] \notin Tasks
    BY DEF Entry, Ops, Shape
  <2>2. Hand' = Hand
    BY <1>6, <2>1 DEF Exchange, Goto, Hand
  <2>3. \A u \in Threads, l \in Tasks : Pending(u, l)' <=> Pending(u, l)
    BY <1>6, <2>1 DEF Exchange, Goto, Pending, Ops
  <2>4. Free' = Free
    BY <1>6, <2>3 DEF Exchange, Free
  <2> QED
    BY <1>6, <2>2, <2>4, Stutters DEF Exchange
<1>7. ASSUME NEW t \in Threads, Unlock(t) PROVE Refined
  <2>1. Free' = Free /\ Hand' = Hand
    BY <1>7 DEF Unlock, Goto, Free, Pending, Hand
  <2> QED
    BY <1>7, <2>1, Stutters DEF Unlock
<1>8. ASSUME NEW t \in Threads, Insert(t) PROVE Refined
  <2> DEFINE k == task[t]
  <2>1. k \in Tasks /\ Pending(t, k)
    BY <1>8 DEF Insert, Pending, Shape
  <2>2. \A u \in Threads, l \in Tasks :
           Pending(u, l)' <=> Pending(u, l) /\ u # t
    BY <1>8 DEF Insert, Goto, Pending
  <2>3. \A u \in Threads, l \in Tasks : Pending(u, l) /\ l = k => u = t
    BY <2>1 DEF Apart, Has
  <2>4. \A l \in Tasks : Pending(t, l) => l = k
    BY DEF Pending
  <2>5. k \notin unused /\ unused' = unused
    BY <1>8, <2>1 DEF Insert, Apart, Has
  <2>6. k \in Free /\ Free' = Free \ {k}
    BY <2>1, <2>2, <2>3, <2>4, <2>5 DEF Free
  <2>7. Hand' = Hand
    BY <1>8 DEF Insert, Goto, Hand, Shape
  <2>8. pool' = Append(pool, k) \/ pool' = <<k>> \o pool
    BY <1>8 DEF Insert
  <2> QED
    BY <2>1, <2>6, <2>7, <2>8
       DEF Queue!Next, Queue!Put, Queue!PutFront, Hand, Free
<1>9. ASSUME NEW t \in Threads, ReadFront(t) PROVE Refined
  <2>1. Free' = Free
    BY <1>9 DEF ReadFront, Goto, Free, Pending
  <2>2. Hand' = [Hand EXCEPT ![t] = NoTask]
    BY <1>9 DEF ReadFront, Goto, Hand, Shape
  <2> QED
    BY <1>9, <2>1, <2>2, Forgets DEF ReadFront
<1>10. ASSUME NEW t \in Threads, PopFront(t) PROVE Refined
  <2>1. pool # <<>> /\ task[t] = Head(pool) /\ pool' = Tail(pool)
    BY <1>10 DEF PopFront, PopsWhatItRead
  <2>2. Free' = Free
    BY <1>10 DEF PopFront, Goto, Free, Pending
  <2>3. Hand' = [Hand EXCEPT ![t] = Head(pool)]
    BY <1>10, <2>1 DEF PopFront, Goto, Hand, Shape
  <2> QED
    BY <2>1, <2>2, <2>3 DEF Queue!Next, Queue!Take, Hand, Free
<1>11. ASSUME NEW t \in Threads, TestEmpty(t) PROVE Refined
  <2>1. Free' = Free /\ Hand' = Hand
    BY <1>11 DEF TestEmpty, Goto, Free, Pending, Hand, Shape
  <2> QED
    BY <1>11, <2>1, Stutters DEF TestEmpty
<1>12. CASE UNCHANGED vars
  BY <1>12, Stutters DEF vars, Hand, Free, Pending
<1> QED
  BY <1>1, <1>2, <1>3, <1>4, <1>5, <1>6, <1>7, <1>8, <1>9, <1>10, <1>11, <1>12
     DEF Next, Call, Step

\* TaskMgr implements TaskQueue: add and addFront take effect when they change
\* the list, get when it removes the task it returns.
THEOREM Refinement == Spec => ImplementsTaskQueue
BY InitTypeInv, StepTypeInv, InitMutualExclusion, StepMutualExclusion,
   InitTokenAccounting, StepTokenAccounting, InitPopsWhatItRead, StepPopsWhatItRead,
   InitApart, StepApart, InitRefines, StepRefines, PTL
   DEF Spec, ImplementsTaskQueue, Queue!Spec
=============================================================================
