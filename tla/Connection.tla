---------------------------- MODULE Connection ----------------------------
(***************************************************************************)
(* The one MYSQL connection of the judger (ZMySql) as its two users see    *)
(* it: the reader thread's SELECTs, each a query and a storeResult, and    *)
(* the writer thread's updates.  No lock keeps a pair of calls together.   *)
(* The database never fails here, every call of libmysql takes effect at   *)
(* one instant, and a query while a result waits to be stored is refused   *)
(* (commands out of sync), as libmysql documents it.                       *)
(***************************************************************************)
EXTENDS Naturals, Sequences

CONSTANT Solutions

VARIABLES status,   \* of the connection: "ready" or "result", one waits
          row,      \* the result column of each solution
          reader,   \* the next step of doRead
          list,     \* the rows of the reader's result still to be fetched
          selected, \* the rows of the result that waits in the connection
          current,  \* the solution of the reader's task
          judging,  \* the tasks that were given to the cores
          finished, \* the queue of finished tasks
          writer,   \* the update doWrite is at, 0 before it has a task
          writing   \* the task of the writer

readerVars == <<reader, list, selected, current>>
writerVars == <<writer, writing>>
vars       == <<status, row, readerVars, judging, finished, writerVars>>

NoSolution == "none"

\* updateSolution, two of the user, two of the problem, the old compileinfo
\* removed, and a new one inserted where the program did not compile.
Updates == 1 .. 7

Init == /\ status = "ready"
        /\ row = [s \in Solutions |-> "absent"]
        /\ reader = "list"
        /\ list = {}
        /\ selected = {}
        /\ current = NoSolution
        /\ judging = {}
        /\ finished = <<>>
        /\ writer = 0
        /\ writing = NoSolution

Submit(s) ==
    /\ row[s] = "absent"
    /\ row' = [row EXCEPT ![s] = "pending"]
    /\ UNCHANGED <<status, readerVars, judging, finished, writerVars>>

-----------------------------------------------------------------------------
(***************************************************************************)
(* ZMySql: a query that yields rows leaves them in the connection, another *)
(* one leaves it ready.                                                    *)
(***************************************************************************)
Query(yieldsRows) ==
    /\ status = "ready"
    /\ status' = IF yieldsRows THEN "result" ELSE "ready"

QueryRefused == status = "result" /\ UNCHANGED status

StoreResult == status = "result" /\ status' = "ready"

NoResult == status = "ready" /\ UNCHANGED status

-----------------------------------------------------------------------------
(***************************************************************************)
(* DBManager::doRead                                                       *)
(***************************************************************************)
ReaderUnchanged == UNCHANGED <<judging, finished, writerVars>>

Waiting == {s \in Solutions : row[s] = "pending"}

ListQuery ==
    /\ reader = "list"
    /\ \/ Query(TRUE) /\ selected' = Waiting /\ reader' = "storeList"
       \/ QueryRefused /\ reader' = "ended" /\ UNCHANGED selected
    /\ UNCHANGED <<row, list, current>>
    /\ ReaderUnchanged

StoreList ==
    /\ reader = "storeList"
    /\ \/ StoreResult /\ list' = selected /\ reader' = "fetch"
       \/ NoResult /\ reader' = "list" /\ UNCHANGED list
    /\ UNCHANGED <<row, selected, current>>
    /\ ReaderUnchanged

FetchRow ==
    /\ reader = "fetch"
    /\ \/ /\ list = {}
          /\ reader' = "list"
          /\ UNCHANGED <<list, current>>
       \/ \E s \in list : /\ list' = list \ {s}
                          /\ current' = s
                          /\ reader' = "code"
    /\ UNCHANGED <<status, row, selected>>
    /\ ReaderUnchanged

\* tryLoadCode gives up on any error, and the task goes on without its code.
CodeQuery ==
    /\ reader = "code"
    /\ \/ Query(TRUE) /\ reader' = "storeCode"
       \/ QueryRefused /\ reader' = "mark"
    /\ UNCHANGED <<row, list, selected, current>>
    /\ ReaderUnchanged

StoreCode ==
    /\ reader = "storeCode"
    /\ StoreResult \/ NoResult
    /\ reader' = "mark"
    /\ UNCHANGED <<row, list, selected, current>>
    /\ ReaderUnchanged

Mark ==
    /\ reader = "mark"
    /\ \/ /\ Query(FALSE)
          /\ row' = [row EXCEPT ![current] = "compiling"]
          /\ reader' = "give"
       \/ QueryRefused /\ reader' = "list" /\ UNCHANGED row
    /\ UNCHANGED <<list, selected, current>>
    /\ ReaderUnchanged

Give ==
    /\ reader = "give"
    /\ judging' = judging \cup {current}
    /\ reader' = "fetch"
    /\ UNCHANGED <<status, row, list, selected, current, finished, writerVars>>

\* A core publishes the task.
Finish(s) ==
    /\ s \in judging
    /\ judging' = judging \ {s}
    /\ finished' = Append(finished, s)
    /\ UNCHANGED <<status, row, readerVars, writerVars>>

-----------------------------------------------------------------------------
(***************************************************************************)
(* DBManager::doWrite: a refused query is logged, and the next one follows *)
(***************************************************************************)
WriterGet ==
    /\ writer = 0
    /\ finished # <<>>
    /\ writing' = Head(finished)
    /\ finished' = Tail(finished)
    /\ writer' = 1
    /\ UNCHANGED <<status, row, readerVars, judging>>

Update(n) ==
    /\ writer = n
    /\ \/ /\ Query(FALSE)
          /\ row' = IF n = 1 THEN [row EXCEPT ![writing] = "judged"] ELSE row
       \/ QueryRefused /\ UNCHANGED row
    /\ \/ n + 1 \in Updates /\ writer' = n + 1 /\ UNCHANGED writing
       \/ n >= 6 /\ writer' = 0 /\ writing' = NoSolution
    /\ UNCHANGED <<readerVars, judging, finished>>

Reader == \/ ListQuery
          \/ StoreList
          \/ FetchRow
          \/ CodeQuery
          \/ StoreCode
          \/ Mark
          \/ Give

Writer == WriterGet \/ \E n \in Updates : Update(n)

Next == \/ \E s \in Solutions : Submit(s) \/ Finish(s)
        \/ Reader
        \/ Writer

Spec == Init /\ [][Next]_vars

-----------------------------------------------------------------------------
InHand == judging \cup {finished[n] : n \in DOMAIN finished} \cup {writing}
            \cup (IF reader = "give" THEN {current} ELSE {})

\* A database that never fails has the verdict of every task that the writer
\* took and is done with: a row is marked COMPILING only while its task is
\* somewhere in the judger ("DBManager, having received a result, writes it
\* back to the database", Judger/readme.txt:18; doWrite).
ResultsAreStored == \A s \in Solutions : row[s] = "compiling" => s \in InHand
=============================================================================
