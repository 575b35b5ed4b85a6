----------------------------- MODULE TaskQueue -----------------------------
(***************************************************************************)
(* What a TaskMgr promises the threads that share it, with no lock and no  *)
(* semaphore in sight: a double-ended insertion, single-ended removal list *)
(* of tasks whose operations take effect at one instant each.  TaskMgr.tla *)
(* is the code and implements this module.                                 *)
(***************************************************************************)
EXTENDS Sequences

CONSTANTS Threads,  \* the threads that call the queue
          Tasks,    \* the tasks (the NULL pill of a stop is one of them)
          NoTask    \* what a thread holds before its get has returned

VARIABLES queue,    \* the tasks in the order get returns them
          hand,     \* hand[t]: what the last get of thread t returned
          unused    \* tasks nobody has inserted yet

vars == <<queue, hand, unused>>

Init == /\ queue = <<>>
        /\ hand = [t \in Threads |-> NoTask]
        /\ unused = Tasks

\* add: the task goes behind every other one.
Put(k) == /\ k \in unused
          /\ queue' = Append(queue, k)
          /\ unused' = unused \ {k}
          /\ UNCHANGED hand

\* addFront: the task overtakes every other one.
PutFront(k) == /\ k \in unused
               /\ queue' = <<k>> \o queue
               /\ unused' = unused \ {k}
               /\ UNCHANGED hand

\* get: the first task leaves the queue and is in the caller's hand.
Take(t) == /\ queue # <<>>
           /\ hand' = [hand EXCEPT ![t] = Head(queue)]
           /\ queue' = Tail(queue)
           /\ UNCHANGED unused

\* A thread calls again and forgets what its previous get returned.
Forget(t) == /\ hand' = [hand EXCEPT ![t] = NoTask]
             /\ UNCHANGED <<queue, unused>>

Next == \/ \E k \in Tasks : Put(k) \/ PutFront(k)
        \/ \E t \in Threads : Take(t) \/ Forget(t)

Spec == Init /\ [][Next]_vars
=============================================================================
