---------------------------- MODULE MCJudgeCore ----------------------------
(***************************************************************************)
(* JudgeCore for TLC: problems with no test, one, two and three tests.     *)
(***************************************************************************)
EXTENDS JudgeCore

MCTestCounts == 0 .. 3
=============================================================================
