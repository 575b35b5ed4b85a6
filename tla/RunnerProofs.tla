---------------------------- MODULE RunnerProofs ----------------------------
(***************************************************************************)
(* What a run reports, for any limits, any bounds and any exit codes.  The *)
(* argument: past its loop the watcher has set a flag or has seen the      *)
(* program end (LoopLeft); so only a program with a flag is killed         *)
(* (KillNeedsFlag), and without a flag the last update reads a time that   *)
(* no longer changes (LastIsFinal); the flags tell what was measured, and  *)
(* that is never more than was used (MeasuredIsUsed).                      *)
(***************************************************************************)
EXTENDS Runner, TLAPS

Ended   == prog \in {"exiting", "gone"}
Limited == timeLimited \/ memoryLimited
Left    == watch \in {"alive", "last", "ended"}

\* The watcher leaves its loop with a flag or because the program ended.
LoopLeft == Left => Limited \/ Ended

\* Only a program over a limit is killed, and the flag stays.
KillNeedsFlag == killed => Limited /\ watch \in {"last", "ended"}

\* Without a flag the time recorded last is the time used.
LastIsFinal == watch = "ended" /\ ~Limited => runTime = time

\* What was measured was used.
MeasuredIsUsed == /\ runMemory <= memory
                  /\ timeLimited => time > LimitTime
                  /\ memoryLimited => memory > LimitMemory

\* The verdict is given once, when the watcher has ended.
VerdictIsClassified ==
    verdict # "none" => watch = "ended" /\ core = "done" /\ verdict = Classified

\* A program that has reported its end to the debugger does not run on.
DebuggerLast == core \in {"join", "done"} => prog = "gone"

(***************************************************************************)
(* The parts of the type invariant, each preserved by itself.              *)
(***************************************************************************)
StagesOK  == /\ prog \in {"suspended", "running", "stopped", "exiting", "gone"}
             /\ event \in {"none", "breakpoint", "first chance", "second chance", "exit"}
             /\ core \in {"resume", "debug", "join", "done"}
             /\ status \in {"CONTINUE", "NOT_HANDLED"}
             /\ verdict \in {"none", "ok", "MEMORY", "TIME", "RUNTIME"}
             /\ watch \in {"check", "time", "memory", "alive", "last", "ended"}
FlagsOK   == /\ noError \in BOOLEAN /\ killed \in BOOLEAN
             /\ timeLimited \in BOOLEAN /\ memoryLimited \in BOOLEAN
CodeOK    == code \in ExitCodes \cup {0, Fault, StillActive}
UsedOK    == time \in 0 .. MaxUse /\ memory \in 0 .. MaxUse /\ events \in 0 .. MaxEvents
WatchedOK == runTime \in Nat /\ runMemory \in Nat

Types == StagesOK /\ FlagsOK /\ CodeOK /\ UsedOK /\ WatchedOK

Inv == /\ Types /\ LoopLeft /\ KillNeedsFlag /\ LastIsFinal
       /\ MeasuredIsUsed /\ VerdictIsClassified /\ DebuggerLast

LEMMA ConstantsAreNat ==
    /\ LimitTime \in Nat /\ LimitMemory \in Nat
    /\ MaxUse \in Nat /\ MaxEvents \in Nat
BY LimitsAssumption

LEMMA TypesAreOK == Types => TypeOK
BY DEF Types, TypeOK, StagesOK, FlagsOK, CodeOK, UsedOK, WatchedOK

LEMMA ClassifiedValue ==
    ASSUME Types
    PROVE  /\ memoryLimited => Classified = "MEMORY"
           /\ timeLimited /\ ~memoryLimited => Classified = "TIME"
           /\ ~Limited => Classified \in {"ok", "RUNTIME"}
<1>1. CASE memoryLimited
  BY <1>1 DEF Classified, Limited
<1>2. CASE timeLimited /\ ~memoryLimited
  BY <1>2 DEF Classified, Limited
<1>3. CASE ~timeLimited /\ ~memoryLimited
  BY <1>3 DEF Classified, Limited
<1> QED
  BY <1>1, <1>2, <1>3

-----------------------------------------------------------------------------
LEMMA InitInv == Init => Inv
<1> SUFFICES ASSUME Init PROVE Inv
  OBVIOUS
<1>1. Types
  <2>1. StagesOK
    BY DEF Init, Types, StagesOK
  <2>2. FlagsOK
    BY DEF Init, Types, FlagsOK
  <2>3. CodeOK
    BY DEF Init, Types, CodeOK
  <2>4. UsedOK /\ WatchedOK
    BY ConstantsAreNat DEF Init, Types, UsedOK, WatchedOK
  <2> QED
    BY <2>1, <2>2, <2>3, <2>4 DEF Types
<1>2. MeasuredIsUsed
  BY ConstantsAreNat DEF Init, MeasuredIsUsed
<1>3. LoopLeft /\ KillNeedsFlag /\ LastIsFinal /\ VerdictIsClassified /\ DebuggerLast
  BY DEF Init, LoopLeft, KillNeedsFlag, LastIsFinal, VerdictIsClassified,
         DebuggerLast, Left
<1> QED
  BY <1>1, <1>2, <1>3 DEF Inv

-----------------------------------------------------------------------------
\* The program does not touch what the watcher and the core recorded, and it
\* takes no step once the core has its end or the watcher has seen it.
LEMMA ProgramStep ==
    Inv /\ (Compute \/ Allocate \/ Raise \/ ProgExit) => Inv'
<1> SUFFICES ASSUME Inv, Compute \/ Allocate \/ Raise \/ ProgExit PROVE Inv'
  OBVIOUS
<1>0. /\ prog = "running" /\ prog' \in {"running", "stopped", "exiting"}
      /\ time' \in {time, time + 1} /\ memory' \in {memory, memory + 1}
      /\ core' = core /\ status' = status /\ noError' = noError /\ verdict' = verdict
      /\ watch' = watch /\ runTime' = runTime /\ runMemory' = runMemory
      /\ timeLimited' = timeLimited /\ memoryLimited' = memoryLimited
      /\ killed' = killed
  BY DEF Compute, Allocate, Raise, ProgExit, ProgUnchanged, coreVars, watchVars
<1>1. Types'
  <2>1. CASE Compute
    <3>1. StagesOK'
      BY <2>1, <1>0 DEF Inv, Types, Compute, StagesOK
    <3>2. FlagsOK'
      BY <2>1, <1>0 DEF Inv, Types, Compute, FlagsOK
    <3>3. CodeOK'
      BY <2>1, <1>0 DEF Inv, Types, Compute, CodeOK
    <3>4. UsedOK' /\ WatchedOK'
      BY <2>1, <1>0, ConstantsAreNat DEF Inv, Types, Compute, UsedOK, WatchedOK
    <3> QED
      BY <3>1, <3>2, <3>3, <3>4 DEF Types
  <2>2. CASE Allocate
    <3>1. StagesOK'
      BY <2>2, <1>0 DEF Inv, Types, Allocate, StagesOK
    <3>2. FlagsOK'
      BY <2>2, <1>0 DEF Inv, Types, Allocate, FlagsOK
    <3>3. CodeOK'
      BY <2>2, <1>0 DEF Inv, Types, Allocate, CodeOK
    <3>4. UsedOK' /\ WatchedOK'
      BY <2>2, <1>0, ConstantsAreNat DEF Inv, Types, Allocate, UsedOK, WatchedOK
    <3> QED
      BY <3>1, <3>2, <3>3, <3>4 DEF Types
  <2>3. CASE Raise
    <3>1. StagesOK'
      BY <2>3, <1>0 DEF Inv, Types, Raise, StagesOK
    <3>2. FlagsOK'
      BY <2>3, <1>0 DEF Inv, Types, Raise, FlagsOK
    <3>3. CodeOK'
      BY <2>3, <1>0 DEF Inv, Types, Raise, CodeOK
    <3>4. UsedOK' /\ WatchedOK'
      <4>1. events < MaxEvents /\ events' = events + 1 /\ time' = time /\ memory' = memory
        BY <2>3 DEF Raise
      <4>2. UsedOK'
        BY <4>1, ConstantsAreNat DEF Inv, Types, UsedOK
      <4> QED
        BY <4>2, <1>0 DEF Inv, Types, WatchedOK
    <3> QED
      BY <3>1, <3>2, <3>3, <3>4 DEF Types
  <2>4. CASE ProgExit
    <3>1. StagesOK'
      BY <2>4, <1>0 DEF Inv, Types, ProgExit, StagesOK
    <3>2. FlagsOK'
      BY <2>4, <1>0 DEF Inv, Types, ProgExit, FlagsOK
    <3>3. CodeOK'
      BY <2>4, <1>0 DEF Inv, Types, ProgExit, CodeOK
    <3>4. UsedOK' /\ WatchedOK'
      BY <2>4, <1>0 DEF Inv, Types, ProgExit, UsedOK, WatchedOK
    <3> QED
      BY <3>1, <3>2, <3>3, <3>4 DEF Types
  <2> QED
    BY <2>1, <2>2, <2>3, <2>4
<1>2. (Left => Limited) /\ verdict = "none" /\ core \notin {"join", "done"}
  BY <1>0 DEF Inv, LoopLeft, Ended, VerdictIsClassified, DebuggerLast
<1>3. LoopLeft' /\ KillNeedsFlag' /\ LastIsFinal'
  BY <1>0, <1>2 DEF Inv, LoopLeft, KillNeedsFlag, LastIsFinal, Ended, Limited, Left
<1>4. MeasuredIsUsed'
  BY <1>0, ConstantsAreNat DEF Inv, MeasuredIsUsed, Types, UsedOK, WatchedOK
<1>5. VerdictIsClassified' /\ DebuggerLast'
  BY <1>0, <1>2 DEF VerdictIsClassified, DebuggerLast
<1> QED
  BY <1>1, <1>3, <1>4, <1>5 DEF Inv

-----------------------------------------------------------------------------
\* The debugger moves the program on, and to its end only from "exiting".
LEMMA DebugStep ==
    Inv /\ (Resume \/ HandleBreakpoint \/ HandleException \/ HandleExit) => Inv'
<1> SUFFICES ASSUME Inv, Resume \/ HandleBreakpoint \/ HandleException \/ HandleExit
             PROVE  Inv'
  OBVIOUS
<1>0. /\ time' = time /\ memory' = memory /\ events' = events /\ verdict' = verdict
      /\ watch' = watch /\ runTime' = runTime /\ runMemory' = runMemory
      /\ timeLimited' = timeLimited /\ memoryLimited' = memoryLimited
      /\ killed' = killed
      /\ core \in {"resume", "debug"}
      /\ core' = "debug" \/ (core' = "join" /\ prog' = "gone")
  BY DEF Resume, HandleBreakpoint, HandleException, HandleExit, CoreUnchanged,
         coreVars, watchVars
<1>1. Ended => Ended'
  BY DEF Resume, HandleBreakpoint, HandleException, HandleExit, Ended
<1>2. Types'
  <2>1. CASE Resume
    <3>1. StagesOK'
      BY <2>1, <1>0 DEF Inv, Types, Resume, StagesOK
    <3>2. FlagsOK'
      BY <2>1, <1>0 DEF Inv, Types, Resume, FlagsOK
    <3>3. CodeOK'
      BY <2>1, <1>0 DEF Inv, Types, Resume, CodeOK
    <3>4. UsedOK' /\ WatchedOK'
      BY <2>1, <1>0 DEF Inv, Types, Resume, UsedOK, WatchedOK
    <3> QED
      BY <3>1, <3>2, <3>3, <3>4 DEF Types
  <2>2. CASE HandleBreakpoint
    <3>1. StagesOK'
      BY <2>2, <1>0 DEF Inv, Types, HandleBreakpoint, coreVars, StagesOK
    <3>2. FlagsOK'
      BY <2>2, <1>0 DEF Inv, Types, HandleBreakpoint, coreVars, FlagsOK
    <3>3. CodeOK'
      BY <2>2, <1>0 DEF Inv, Types, HandleBreakpoint, coreVars, CodeOK
    <3>4. UsedOK' /\ WatchedOK'
      BY <2>2, <1>0 DEF Inv, Types, HandleBreakpoint, coreVars, UsedOK, WatchedOK
    <3> QED
      BY <3>1, <3>2, <3>3, <3>4 DEF Types
  <2>3. CASE HandleException
    <3>1. StagesOK'
      BY <2>3, <1>0 DEF Inv, Types, HandleException, StagesOK
    <3>2. FlagsOK'
      BY <2>3, <1>0 DEF Inv, Types, HandleException, FlagsOK
    <3>3. CodeOK'
      BY <2>3, <1>0 DEF Inv, Types, HandleException, CodeOK
    <3>4. UsedOK' /\ WatchedOK'
      BY <2>3, <1>0 DEF Inv, Types, HandleException, UsedOK, WatchedOK
    <3> QED
      BY <3>1, <3>2, <3>3, <3>4 DEF Types
  <2>4. CASE HandleExit
    <3>1. StagesOK'
      BY <2>4, <1>0 DEF Inv, Types, HandleExit, StagesOK
    <3>2. FlagsOK'
      BY <2>4, <1>0 DEF Inv, Types, HandleExit, FlagsOK
    <3>3. CodeOK'
      BY <2>4, <1>0 DEF Inv, Types, HandleExit, CodeOK
    <3>4. UsedOK' /\ WatchedOK'
      BY <2>4, <1>0 DEF Inv, Types, HandleExit, UsedOK, WatchedOK
    <3> QED
      BY <3>1, <3>2, <3>3, <3>4 DEF Types
  <2> QED
    BY <2>1, <2>2, <2>3, <2>4
<1>3. LoopLeft' /\ KillNeedsFlag' /\ LastIsFinal' /\ MeasuredIsUsed'
  BY <1>0, <1>1 DEF Inv, LoopLeft, KillNeedsFlag, LastIsFinal, MeasuredIsUsed, Limited, Left
<1>4. VerdictIsClassified' /\ DebuggerLast'
  BY <1>0 DEF Inv, VerdictIsClassified, DebuggerLast
<1> QED
  BY <1>2, <1>3, <1>4 DEF Inv

\* The verdict is what the flags and the exit code say.
LEMMA ClassifyStep == Inv /\ Classify => Inv'
<1> SUFFICES ASSUME Inv, Classify PROVE Inv'
  OBVIOUS
<1> USE DEF Inv, Classify, CoreUnchanged, progVars, watchVars
<1>0. Classified' = Classified
  BY DEF Classified
<1>1. Types'
  <2>1. Classified \in {"ok", "MEMORY", "TIME", "RUNTIME"}
    BY ClassifiedValue DEF Limited, Types
  <2>2. StagesOK'
    BY <2>1 DEF Types, StagesOK
  <2>3. FlagsOK'
    BY DEF Types, FlagsOK
  <2>4. CodeOK' /\ UsedOK' /\ WatchedOK'
    BY DEF Types, CodeOK, UsedOK, WatchedOK
  <2> QED
    BY <2>2, <2>3, <2>4 DEF Types
<1>2. LoopLeft' /\ KillNeedsFlag' /\ LastIsFinal' /\ MeasuredIsUsed' /\ DebuggerLast'
  BY DEF LoopLeft, KillNeedsFlag, LastIsFinal, MeasuredIsUsed, DebuggerLast,
         Ended, Limited, Left
<1>3. VerdictIsClassified'
  BY <1>0 DEF VerdictIsClassified
<1> QED
  BY <1>1, <1>2, <1>3

-----------------------------------------------------------------------------
\* What every step of the watcher leaves alone.
WatchFrame == /\ time' = time /\ memory' = memory /\ events' = events
              /\ core' = core /\ status' = status /\ noError' = noError
              /\ verdict' = verdict

\* A step of the watcher leaves the steps of the others where they are, or ends
\* the program.
LEMMA WatcherStages ==
    ASSUME StagesOK, WatchFrame,
           prog' = prog \/ prog' = "exiting", event' = event \/ event' = "exit",
           watch' \in {"check", "time", "memory", "alive", "last", "ended"}
    PROVE  StagesOK'
<1>1. core' = core /\ status' = status /\ verdict' = verdict
  BY DEF WatchFrame
<1> QED
  BY <1>1, Zenon DEF StagesOK

\* A step before the watcher ends: no verdict has been given.
LEMMA NoVerdictYet ==
    ASSUME Inv, WatchFrame, watch # "ended"
    PROVE  VerdictIsClassified'
BY DEF Inv, VerdictIsClassified, WatchFrame

\* What is read of the memory was used.
LEMMA MemoryReadIsUsed ==
    ASSUME Inv, UpdateMemory
    PROVE  runMemory' \in Nat /\ runMemory' <= memory
<1>1. PICK m \in MemoryRead : runMemory' = IF m > runMemory THEN m ELSE runMemory
  BY DEF UpdateMemory
<1>2. m \in Nat /\ m <= memory
  BY ConstantsAreNat DEF MemoryRead, Inv, Types, UsedOK
<1> QED
  BY <1>1, <1>2 DEF Inv, Types, MeasuredIsUsed

LEMMA WatchCheckStep == Inv /\ WatchCheck => Inv'
<1> SUFFICES ASSUME Inv, WatchCheck PROVE Inv'
  OBVIOUS
<1> USE DEF Inv
<1>0. /\ WatchFrame /\ watch = "check"
      /\ UNCHANGED <<prog, event, code, runTime, runMemory, timeLimited, memoryLimited, killed>>
  BY DEF WatchCheck, WatchUnchanged, WatchFrame, coreVars
<1>1. watch' = "time" \/ (watch' = "alive" /\ Ended)
  BY DEF WatchCheck, IsRunning, Ended, Types
<1>2. Types'
  <2>1. StagesOK'
    BY <1>0, <1>1, WatcherStages DEF Types
  <2>2. FlagsOK'
    BY <1>0, <1>1 DEF Types, WatchFrame, FlagsOK
  <2>3. CodeOK'
    BY <1>0, <1>1 DEF Types, WatchFrame, CodeOK
  <2>4. UsedOK' /\ WatchedOK'
    BY <1>0, <1>1 DEF Types, WatchFrame, UsedOK, WatchedOK
  <2> QED
    BY <2>1, <2>2, <2>3, <2>4 DEF Types
<1>3. LoopLeft' /\ KillNeedsFlag' /\ LastIsFinal' /\ MeasuredIsUsed' /\ DebuggerLast'
  BY <1>0, <1>1 DEF LoopLeft, KillNeedsFlag, LastIsFinal, MeasuredIsUsed,
     DebuggerLast, Ended, Limited, Left, WatchFrame
<1> QED
  BY <1>0, <1>2, <1>3, NoVerdictYet

LEMMA WatchTimeStep == Inv /\ WatchTime => Inv'
<1> SUFFICES ASSUME Inv, WatchTime PROVE Inv'
  OBVIOUS
<1> USE DEF Inv
<1>0. /\ WatchFrame /\ watch = "time"
      /\ UNCHANGED <<prog, event, code, runMemory, memoryLimited, killed>>
      /\ runTime' = time
  BY DEF WatchTime, WatchUnchanged, WatchFrame, coreVars
<1>1. /\ timeLimited' \in BOOLEAN
      /\ timeLimited' => time > LimitTime
      /\ watch' = "memory" \/ (watch' = "alive" /\ timeLimited')
  <2>1. (time > LimitTime) \in BOOLEAN
    BY SMT
  <2> QED
    BY <2>1, <1>0, Zenon DEF WatchTime
<1>2. Types'
  <2>1. StagesOK'
    BY <1>0, <1>1, WatcherStages DEF Types
  <2>2. FlagsOK'
    BY <1>0, <1>1 DEF Types, WatchFrame, FlagsOK
  <2>3. CodeOK'
    BY <1>0, <1>1 DEF Types, WatchFrame, CodeOK
  <2>4. UsedOK' /\ WatchedOK'
    BY <1>0, <1>1, ConstantsAreNat DEF Types, WatchFrame, UsedOK, WatchedOK
  <2> QED
    BY <2>1, <2>2, <2>3, <2>4 DEF Types
<1>3. LoopLeft' /\ KillNeedsFlag' /\ LastIsFinal' /\ MeasuredIsUsed' /\ DebuggerLast'
  BY <1>0, <1>1 DEF LoopLeft, KillNeedsFlag, LastIsFinal, MeasuredIsUsed,
     DebuggerLast, Ended, Limited, Left, WatchFrame
<1> QED
  BY <1>0, <1>2, <1>3, NoVerdictYet

LEMMA WatchMemoryStep == Inv /\ WatchMemory => Inv'
<1> SUFFICES ASSUME Inv, WatchMemory PROVE Inv'
  OBVIOUS
<1> USE DEF Inv
<1>0. /\ WatchFrame /\ watch = "memory"
      /\ UNCHANGED <<prog, event, code, runTime, timeLimited, killed>>
      /\ UpdateMemory
  BY DEF WatchMemory, WatchUnchanged, WatchFrame, coreVars
<1>1. runMemory' \in Nat /\ runMemory' <= memory
  BY <1>0, MemoryReadIsUsed
<1>2. /\ memoryLimited' \in BOOLEAN
      /\ memoryLimited' => runMemory' > LimitMemory
      /\ watch' = "check" \/ (watch' = "alive" /\ memoryLimited')
  <2>1. (runMemory' > LimitMemory) \in BOOLEAN
    BY SMT
  <2> QED
    BY <2>1, Zenon DEF WatchMemory
<1>3. memoryLimited' => memory > LimitMemory
  BY <1>1, <1>2, ConstantsAreNat DEF Types, UsedOK
<1>4. Types'
  <2>1. StagesOK'
    BY <1>0, <1>1, <1>2, WatcherStages DEF Types
  <2>2. FlagsOK'
    BY <1>0, <1>1, <1>2 DEF Types, WatchFrame, FlagsOK
  <2>3. CodeOK'
    BY <1>0, <1>1, <1>2 DEF Types, WatchFrame, CodeOK
  <2>4. UsedOK' /\ WatchedOK'
    BY <1>0, <1>1, <1>2 DEF Types, WatchFrame, UsedOK, WatchedOK
  <2> QED
    BY <2>1, <2>2, <2>3, <2>4 DEF Types
<1>5. LoopLeft' /\ KillNeedsFlag' /\ LastIsFinal' /\ MeasuredIsUsed' /\ DebuggerLast'
  BY <1>0, <1>1, <1>2, <1>3 DEF LoopLeft, KillNeedsFlag, LastIsFinal, MeasuredIsUsed,
     DebuggerLast, Ended, Limited, Left, WatchFrame
<1> QED
  BY <1>0, <1>4, <1>5, NoVerdictYet

LEMMA WatchKillStep == Inv /\ WatchKill => Inv'
<1> SUFFICES ASSUME Inv, WatchKill PROVE Inv'
  OBVIOUS
<1> USE DEF Inv
<1>0. /\ WatchFrame /\ watch = "alive" /\ watch' = "last"
      /\ UNCHANGED <<runTime, runMemory, timeLimited, memoryLimited>>
  BY DEF WatchKill, WatchUnchanged, WatchFrame, coreVars
<1>1. \/ /\ ~Ended /\ prog # "gone"
         /\ prog' = "exiting" /\ event' = "exit" /\ code' = 0 /\ killed' = TRUE
      \/ UNCHANGED <<prog, event, code, killed>>
  BY DEF WatchKill, Ended
<1>2. Types'
  <2>1. StagesOK'
    BY <1>0, <1>1, WatcherStages DEF Types
  <2>2. FlagsOK'
    BY <1>0, <1>1 DEF Types, WatchFrame, FlagsOK
  <2>3. CodeOK'
    BY <1>0, <1>1 DEF Types, WatchFrame, CodeOK
  <2>4. UsedOK' /\ WatchedOK'
    BY <1>0, <1>1 DEF Types, WatchFrame, UsedOK, WatchedOK
  <2> QED
    BY <2>1, <2>2, <2>3, <2>4 DEF Types
<1>3. LoopLeft' /\ KillNeedsFlag' /\ LastIsFinal'
  BY <1>0, <1>1 DEF LoopLeft, KillNeedsFlag, LastIsFinal, Ended, Limited, Left
<1>4. MeasuredIsUsed' /\ DebuggerLast'
  BY <1>0, <1>1 DEF MeasuredIsUsed, DebuggerLast, WatchFrame
<1> QED
  BY <1>0, <1>2, <1>3, <1>4, NoVerdictYet

LEMMA WatchLastStep == Inv /\ WatchLast => Inv'
<1> SUFFICES ASSUME Inv, WatchLast PROVE Inv'
  OBVIOUS
<1> USE DEF Inv
<1>0. /\ WatchFrame /\ watch = "last" /\ watch' = "ended"
      /\ UNCHANGED <<prog, event, code, timeLimited, memoryLimited, killed>>
      /\ runTime' = time /\ UpdateMemory
  BY DEF WatchLast, WatchUnchanged, WatchFrame, coreVars
<1>1. runMemory' \in Nat /\ runMemory' <= memory
  BY <1>0, MemoryReadIsUsed
<1>2. Types'
  <2>1. StagesOK'
    BY <1>0, <1>1, WatcherStages DEF Types
  <2>2. FlagsOK'
    BY <1>0, <1>1 DEF Types, WatchFrame, FlagsOK
  <2>3. CodeOK'
    BY <1>0, <1>1 DEF Types, WatchFrame, CodeOK
  <2>4. UsedOK' /\ WatchedOK'
    BY <1>0, <1>1, ConstantsAreNat DEF Types, WatchFrame, UsedOK, WatchedOK
  <2> QED
    BY <2>1, <2>2, <2>3, <2>4 DEF Types
<1>3. LoopLeft' /\ KillNeedsFlag' /\ LastIsFinal' /\ MeasuredIsUsed' /\ DebuggerLast'
  BY <1>0, <1>1 DEF LoopLeft, KillNeedsFlag, LastIsFinal, MeasuredIsUsed,
     DebuggerLast, Ended, Limited, Left, WatchFrame
<1> QED
  BY <1>0, <1>2, <1>3, NoVerdictYet

-----------------------------------------------------------------------------
LEMMA Stutter == Inv /\ UNCHANGED vars => Inv'
<1> SUFFICES ASSUME Inv, UNCHANGED vars PROVE Inv'
  OBVIOUS
<1> USE DEF Inv, vars, progVars, coreVars, watchVars
<1>1. Types'
  <2>0. StagesOK
    BY DEF Types
  <2>1. StagesOK'
    <3>1. UNCHANGED <<prog, event, core, status, verdict, watch>>
      BY ONLY UNCHANGED vars DEF vars, progVars, coreVars, watchVars
    <3>2. prog' \in {"suspended", "running", "stopped", "exiting", "gone"}
      BY ONLY <2>0, <3>1 DEF StagesOK
    <3>3. event' \in {"none", "breakpoint", "first chance", "second chance", "exit"}
      BY ONLY <2>0, <3>1 DEF StagesOK
    <3>4. /\ core' \in {"resume", "debug", "join", "done"}
          /\ status' \in {"CONTINUE", "NOT_HANDLED"}
      BY ONLY <2>0, <3>1 DEF StagesOK
    <3>5. verdict' \in {"none", "ok", "MEMORY", "TIME", "RUNTIME"}
      BY ONLY <2>0, <3>1 DEF StagesOK
    <3>6. watch' \in {"check", "time", "memory", "alive", "last", "ended"}
      BY ONLY <2>0, <3>1 DEF StagesOK
    <3> QED
      BY ONLY <3>2, <3>3, <3>4, <3>5, <3>6 DEF StagesOK
  <2>2. FlagsOK'
    BY DEF Types, FlagsOK
  <2>3. CodeOK' /\ UsedOK' /\ WatchedOK'
    BY DEF Types, CodeOK, UsedOK, WatchedOK
  <2> QED
    BY <2>1, <2>2, <2>3 DEF Types
<1>2. LoopLeft' /\ KillNeedsFlag' /\ LastIsFinal' /\ MeasuredIsUsed' /\ DebuggerLast'
  BY DEF LoopLeft, KillNeedsFlag, LastIsFinal, MeasuredIsUsed, DebuggerLast,
         Ended, Limited, Left
<1>3. Classified' = Classified
  BY DEF Classified
<1>4. VerdictIsClassified'
  BY <1>3 DEF VerdictIsClassified
<1> QED
  BY <1>1, <1>2, <1>4

\* What holds of the program, the watcher and the core between any two of
\* their steps (ExeDebugRunner::exc, Watcher::_doWatch, ZProcessDebug::start).
THEOREM Invariance == Spec => []Inv
<1>1. Inv /\ [Next]_vars => Inv'
  BY ProgramStep, DebugStep, ClassifyStep, WatchCheckStep, WatchTimeStep,
     WatchMemoryStep, WatchKillStep, WatchLastStep, Stutter
     DEF Next, Core, Watch
<1> QED
  BY InitInv, <1>1, PTL DEF Spec

-----------------------------------------------------------------------------
\* The variables of a run keep their types, whatever the limits.
THEOREM TypeCorrect == Spec => []TypeOK
<1>1. Inv => TypeOK
  BY TypesAreOK DEF Inv
<1> QED
  BY Invariance, <1>1, PTL

\* A program the watcher killed, which leaves exit code 0 and no error of the
\* debugger, is reported as over its limit and never as a good run.
THEOREM KilledIsReported == Spec => []KilledIsLimited
<1>1. Inv => KilledIsLimited
  <2> SUFFICES ASSUME Inv, killed, verdict # "none" PROVE verdict \in {"TIME", "MEMORY"}
    BY DEF KilledIsLimited
  <2>1. Limited /\ verdict = Classified
    BY DEF Inv, KillNeedsFlag, VerdictIsClassified
  <2> QED
    BY <2>1, ClassifiedValue DEF Inv, Types, Limited
<1> QED
  BY Invariance, <1>1, PTL

\* Nobody is reported over a limit that what he used does not exceed.
THEOREM NoFalseLimit == Spec => []LimitVerdictIsEarned
<1>1. Inv => LimitVerdictIsEarned
  <2> SUFFICES ASSUME Inv, verdict \in {"TIME", "MEMORY"}
               PROVE  LimitVerdictIsEarned
    BY DEF LimitVerdictIsEarned
  <2>1. verdict = Classified
    BY DEF Inv, VerdictIsClassified
  <2>2. verdict = "TIME" => timeLimited
    BY <2>1, ClassifiedValue DEF Inv, Types, Limited
  <2>3. verdict = "MEMORY" => memoryLimited
    BY <2>1, ClassifiedValue DEF Inv, Types, Limited
  <2> QED
    BY <2>2, <2>3 DEF LimitVerdictIsEarned, Inv, MeasuredIsUsed
<1> QED
  BY Invariance, <1>1, PTL

\* The time reported of a program that was within its limits is all it used,
\* because the watcher updates it once more after the program has ended.
THEOREM FinalTimeIsReported == Spec => []RecordedTimeIsFinal
<1>1. Inv => RecordedTimeIsFinal
  <2> SUFFICES ASSUME Inv, verdict \in {"ok", "RUNTIME"} PROVE runTime = time
    BY DEF RecordedTimeIsFinal
  <2>1. watch = "ended" /\ verdict = Classified
    BY DEF Inv, VerdictIsClassified
  <2>2. ~Limited
    BY <2>1, ClassifiedValue DEF Inv, Types, Limited
  <2> QED
    BY <2>1, <2>2 DEF Inv, LastIsFinal
<1> QED
  BY Invariance, <1>1, PTL
=============================================================================
