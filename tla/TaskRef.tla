------------------------------ MODULE TaskRef ------------------------------
(***************************************************************************)
(* The reference count of one task (IBase) and the RefPtrs that refer to   *)
(* it: locals and parameters of the reader, of a core and of the writer    *)
(* thread, and the elements of the two task queues.  addRef and delRef     *)
(* read and write a plain int, a step each.  The queues are locked, but    *)
(* a thread that put the task into one still drops its own RefPtrs while   *)
(* the next thread copies those it took.                                   *)
(***************************************************************************)
EXTENDS Integers, FiniteSets

CONSTANT MaxRefs  \* bound on the locals and parameters of one thread

Threads == {"reader", "core", "writer"}
Queues  == {"tasks", "finished"}

Source(t) == CASE t = "core" -> "tasks" [] t = "writer" -> "finished" [] OTHER -> "none"
Target(t) == CASE t = "reader" -> "tasks" [] t = "core" -> "finished" [] OTHER -> "none"

VARIABLES count,  \* m_nRefCounter_
          alive,  \* whether the task has not been destroyed
          refs,   \* the RefPtrs in the frames of each thread
          queued, \* the queues that hold a RefPtr
          given,  \* history: the queues the task was put into
          pc,     \* what each thread is doing
          seen    \* the count it read

vars == <<count, alive, refs, queued, given, pc, seen>>

Init == /\ count = 1
        /\ alive = TRUE
        /\ refs = [t \in Threads |-> IF t = "reader" THEN 1 ELSE 0]
        /\ queued = {}
        /\ given = {}
        /\ pc = [t \in Threads |-> "idle"]
        /\ seen = [t \in Threads |-> 0]

Goto(t, place) == pc' = [pc EXCEPT ![t] = place]

-----------------------------------------------------------------------------
(***************************************************************************)
(* What a thread does with RefPtrs.  A copy is of one it holds; taking a   *)
(* task is a copy of the front and the removal of the element; a RefPtr    *)
(* that is being dropped no longer counts.                                 *)
(***************************************************************************)
Unread == UNCHANGED <<count, alive, seen>>

Copy(t) ==
    /\ pc[t] = "idle"
    /\ refs[t] \in 1 .. MaxRefs - 1
    /\ Goto(t, "copy")
    /\ Unread /\ UNCHANGED <<refs, queued, given>>

Put(t) ==
    /\ pc[t] = "idle"
    /\ refs[t] > 0
    /\ Target(t) \in Queues \ given
    /\ Goto(t, "put")
    /\ Unread /\ UNCHANGED <<refs, queued, given>>

Take(t) ==
    /\ pc[t] = "idle"
    /\ Source(t) \in queued
    /\ Goto(t, "take")
    /\ Unread /\ UNCHANGED <<refs, queued, given>>

PopFront(t) ==
    /\ pc[t] = "pop"
    /\ queued' = queued \ {Source(t)}
    /\ Goto(t, "drop")
    /\ Unread /\ UNCHANGED <<refs, given>>

\* The last one only when the task was handed on.
Drop(t) ==
    /\ pc[t] = "idle"
    /\ refs[t] > 0
    /\ refs[t] = 1 => Target(t) \notin Queues \ given
    /\ refs' = [refs EXCEPT ![t] = @ - 1]
    /\ Goto(t, "drop")
    /\ Unread /\ UNCHANGED <<queued, given>>

-----------------------------------------------------------------------------
(***************************************************************************)
(* IBase::addRef and IBase::delRef                                         *)
(***************************************************************************)
Load(t) ==
    /\ pc[t] \in {"copy", "put", "take", "drop"}
    /\ seen' = [seen EXCEPT ![t] = count]
    /\ Goto(t, CASE pc[t] = "copy" -> "copied"
                 [] pc[t] = "put"  -> "putting"
                 [] pc[t] = "take" -> "taking"
                 [] pc[t] = "drop" -> "dropping")
    /\ UNCHANGED <<count, alive, refs, queued, given>>

StoreMore(t) ==
    /\ count' = seen[t] + 1
    /\ UNCHANGED <<alive, seen>>

CopyDone(t) ==
    /\ pc[t] = "copied"
    /\ StoreMore(t)
    /\ refs' = [refs EXCEPT ![t] = @ + 1]
    /\ Goto(t, "idle")
    /\ UNCHANGED <<queued, given>>

PutDone(t) ==
    /\ pc[t] = "putting"
    /\ StoreMore(t)
    /\ queued' = queued \cup {Target(t)}
    /\ given' = given \cup {Target(t)}
    /\ Goto(t, "idle")
    /\ UNCHANGED refs

TakeDone(t) ==
    /\ pc[t] = "taking"
    /\ StoreMore(t)
    /\ refs' = [refs EXCEPT ![t] = @ + 1]
    /\ Goto(t, "pop")
    /\ UNCHANGED <<queued, given>>

StoreLess(t) ==
    /\ pc[t] = "dropping"
    /\ count' = seen[t] - 1
    /\ Goto(t, "test")
    /\ UNCHANGED <<alive, refs, queued, given, seen>>

\* The build may test what it wrote or read the count again.
Test(t) ==
    /\ pc[t] = "test"
    /\ \E value \in {seen[t] - 1, count} : alive' = (alive /\ value > 0)
    /\ Goto(t, "idle")
    /\ UNCHANGED <<count, refs, queued, given, seen>>

Step(t) == \/ Copy(t) \/ Put(t) \/ Take(t) \/ PopFront(t) \/ Drop(t)
           \/ Load(t) \/ CopyDone(t) \/ PutDone(t) \/ TakeDone(t)
           \/ StoreLess(t) \/ Test(t)

Next == \E t \in Threads : Step(t)

Spec == Init /\ [][Next]_vars

-----------------------------------------------------------------------------
References == refs["reader"] + refs["core"] + refs["writer"] + Cardinality(queued)

=============================================================================
