----------------------------- MODULE MCTaskMgr -----------------------------
(***************************************************************************)
(* TaskMgr for TLC: two producers and two consumers (the reader and main   *)
(* feeding two cores), one thread that calls empty, three tasks, and a     *)
(* semaphore whose maximum the three tasks exceed.                         *)
(***************************************************************************)
EXTENDS TaskMgr

(***************************************************************************)
(* A tester calls empty once.  A tester that never stops calling it could  *)
(* win the spin lock every time, which no thread of the judger does: empty *)
(* has no caller at all.                                                   *)
(***************************************************************************)
TestOnce == \A t \in Testers :
              op[t] = "empty" /\ pc[t] = "idle" => pc'[t] = "idle"
=============================================================================
