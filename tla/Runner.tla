------------------------------- MODULE Runner -------------------------------
(***************************************************************************)
(* ExeDebugRunner::exc: one run of a judged program.  Three actors: the    *)
(* program; the core thread, which is its debugger (ZProcessDebug::start)  *)
(* and then waits for the watcher and decides the verdict; and the thread  *)
(* of the Watcher, which polls the time and the memory of the program and  *)
(* kills it, with exit code 0, when one is over its limit.                 *)
(* Whether a process runs is asked as GetExitCodeProcess = STILL_ACTIVE.   *)
(***************************************************************************)
EXTENDS Naturals

CONSTANTS LimitTime, LimitMemory,  \* the limits of the task
          MaxUse,                  \* bound on the time and memory used
          MaxEvents,               \* bound on breakpoints and exceptions
          ExitCodes,               \* what the program may pass to exit
          StillActive,             \* STILL_ACTIVE, 259
          Fault                    \* exit code of an unhandled exception

ASSUME LimitsAssumption == {LimitTime, LimitMemory, MaxUse, MaxEvents} \subseteq Nat
ASSUME CodesAssumption  ==
    /\ ExitCodes \cup {StillActive, Fault} \subseteq Nat
    /\ StillActive # 0
    /\ Fault \notin {0, StillActive}

VARIABLES
    prog,     \* the program: "suspended", "running", "stopped" at a debug
              \* event, "exiting" (its last event), "gone"
    event,    \* the debug event that stops it
    code,     \* its exit code, StillActive before it has one
    time,     \* its user time
    memory,   \* its peak memory
    events,   \* history: breakpoints and exceptions so far
    core,     \* the core thread's step
    status,   \* dwContinueStatus
    noError,  \* what start returned
    watch,    \* the watcher thread's step
    runTime, runMemory,         \* Watcher's members
    timeLimited, memoryLimited,
    killed,   \* history: TerminateProcess took effect
    verdict   \* the outcome of exc

progVars  == <<prog, event, code, time, memory, events>>
coreVars  == <<core, status, noError, verdict>>
watchVars == <<watch, runTime, runMemory, timeLimited, memoryLimited>>
vars      == <<progVars, coreVars, watchVars, killed>>

\* After the process was created suspended and the Watcher constructed.
Init == /\ prog = "suspended"
        /\ event = "none"
        /\ code = StillActive
        /\ time = 0 /\ memory = 0
        /\ events = 0
        /\ core = "resume"
        /\ status = "CONTINUE"
        /\ noError = FALSE
        /\ verdict = "none"
        /\ watch = "check"
        /\ runTime = 0 /\ runMemory = 0
        /\ timeLimited = FALSE /\ memoryLimited = FALSE
        /\ killed = FALSE

-----------------------------------------------------------------------------
(***************************************************************************)
(* The program.                                                            *)
(***************************************************************************)
ProgUnchanged == UNCHANGED <<coreVars, watchVars, killed>>

Compute ==
    /\ prog = "running"
    /\ time < MaxUse
    /\ time' = time + 1
    /\ UNCHANGED <<prog, event, code, memory, events>>
    /\ ProgUnchanged

Allocate ==
    /\ prog = "running"
    /\ memory < MaxUse
    /\ memory' = memory + 1
    /\ UNCHANGED <<prog, event, code, time, events>>
    /\ ProgUnchanged

Raise ==
    /\ prog = "running"
    /\ events < MaxEvents
    /\ events' = events + 1
    /\ event' \in {"breakpoint", "first chance"}
    /\ prog' = "stopped"
    /\ UNCHANGED <<code, time, memory>>
    /\ ProgUnchanged

ProgExit ==
    /\ prog = "running"
    /\ code' \in ExitCodes
    /\ prog' = "exiting"
    /\ event' = "exit"
    /\ UNCHANGED <<time, memory, events>>
    /\ ProgUnchanged

-----------------------------------------------------------------------------
(***************************************************************************)
(* The core thread: ZProcessDebug::start                                   *)
(***************************************************************************)
CoreUnchanged == UNCHANGED <<watchVars, killed>>

Resume ==
    /\ core = "resume"
    /\ core' = "debug"
    /\ prog' = IF prog = "suspended" THEN "running" ELSE prog
    /\ UNCHANGED <<event, code, time, memory, events, status, noError, verdict>>
    /\ CoreUnchanged

\* A breakpoint leaves dwContinueStatus as the last exception set it.
HandleBreakpoint ==
    /\ core = "debug"
    /\ prog = "stopped"
    /\ event = "breakpoint"
    /\ IF status = "CONTINUE"
         THEN prog' = "running" /\ event' = "none"
         ELSE \/ prog' = "running" /\ event' = "none"
              \/ prog' = "stopped" /\ event' = "second chance"
    /\ UNCHANGED <<code, time, memory, events, coreVars>>
    /\ CoreUnchanged

\* An exception goes back to the program, which handles it or gets its second
\* chance; after that it ends.
HandleException ==
    /\ core = "debug"
    /\ prog = "stopped"
    /\ event \in {"first chance", "second chance"}
    /\ status' = "NOT_HANDLED"
    /\ \/ /\ event = "first chance"
          /\ \/ prog' = "running" /\ event' = "none"
             \/ prog' = "stopped" /\ event' = "second chance"
          /\ UNCHANGED code
       \/ /\ event = "second chance"
          /\ prog' = "exiting" /\ event' = "exit" /\ code' = Fault
    /\ UNCHANGED <<time, memory, events, core, noError, verdict>>
    /\ CoreUnchanged

\* EXIT_PROCESS_DEBUG_EVENT: detach and return.
HandleExit ==
    /\ core = "debug"
    /\ event = "exit"
    /\ prog' = "gone"
    /\ event' = "none"
    /\ noError' = (code = 0)
    /\ core' = "join"
    /\ UNCHANGED <<code, time, memory, events, status, verdict>>
    /\ CoreUnchanged

Classified ==
    CASE memoryLimited                -> "MEMORY"
      [] timeLimited /\ ~memoryLimited -> "TIME"
      [] OTHER -> IF ~noError \/ code # 0 THEN "RUNTIME" ELSE "ok"

\* Variant of Classify: the flags are looked at after the exit code.
ClassifyCodeFirst ==
    /\ core = "join"
    /\ watch = "ended"
    /\ verdict' = IF noError /\ code = 0 THEN "ok" ELSE Classified
    /\ core' = "done"
    /\ UNCHANGED <<progVars, status, noError>>
    /\ CoreUnchanged

\* watcher.waitExit(), then the verdict.
Classify ==
    /\ core = "join"
    /\ watch = "ended"
    /\ verdict' = Classified
    /\ core' = "done"
    /\ UNCHANGED <<progVars, status, noError>>
    /\ CoreUnchanged

Core == Resume \/ HandleBreakpoint \/ HandleException \/ HandleExit \/ Classify

-----------------------------------------------------------------------------
(***************************************************************************)
(* Watcher::_doWatch                                                       *)
(***************************************************************************)
WatchUnchanged == UNCHANGED <<time, memory, events, coreVars>>

\* The answers isRunning may give: while the last debug event is pending the
\* exit code may or may not be visible, and a program whose exit code is 259
\* seems to run for ever.
IsRunning ==
    CASE prog = "gone"    -> {code = StillActive}
      [] prog = "exiting" -> {TRUE, code = StillActive}
      [] OTHER            -> {TRUE}

\* while (process->isRunning())
WatchCheck ==
    /\ watch = "check"
    /\ \E running \in IsRunning : watch' = IF running THEN "time" ELSE "alive"
    /\ UNCHANGED <<prog, event, code, runTime, runMemory, timeLimited, memoryLimited, killed>>
    /\ WatchUnchanged

\* Variant of WatchTime: the comparison is >=.
WatchTimeTooStrict ==
    /\ watch = "time"
    /\ runTime' = time
    /\ timeLimited' = (runTime' >= LimitTime)
    /\ watch' = IF timeLimited' THEN "alive" ELSE "memory"
    /\ UNCHANGED <<prog, event, code, runMemory, memoryLimited, killed>>
    /\ WatchUnchanged

WatchTime ==
    /\ watch = "time"
    /\ runTime' = time
    /\ timeLimited' = (runTime' > LimitTime)
    /\ watch' = IF timeLimited' THEN "alive" ELSE "memory"
    /\ UNCHANGED <<prog, event, code, runMemory, memoryLimited, killed>>
    /\ WatchUnchanged

\* What getProcessMemory may return: nothing is left of a program that ended.
MemoryRead == IF prog \in {"exiting", "gone"} THEN {0, memory} ELSE {memory}

UpdateMemory == \E m \in MemoryRead : runMemory' = IF m > runMemory THEN m ELSE runMemory

WatchMemory ==
    /\ watch = "memory"
    /\ UpdateMemory
    /\ memoryLimited' = (runMemory' > LimitMemory)
    /\ watch' = IF memoryLimited' THEN "alive" ELSE "check"
    /\ UNCHANGED <<prog, event, code, runTime, timeLimited, killed>>
    /\ WatchUnchanged

\* Variant of WatchKill: the program is left alone.
WatchNoKill ==
    /\ watch = "alive"
    /\ watch' = "last"
    /\ UNCHANGED <<prog, event, code, runTime, runMemory, timeLimited, memoryLimited, killed>>
    /\ WatchUnchanged

\* Variant of WatchKill: the program is given an exit code of its own.
WatchKillCode ==
    /\ watch = "alive"
    /\ watch' = "last"
    /\ IF prog \in {"suspended", "running", "stopped"}
         THEN prog' = "exiting" /\ event' = "exit" /\ code' = Fault + 1 /\ killed' = TRUE
         ELSE UNCHANGED <<prog, event, code, killed>>
    /\ UNCHANGED <<runTime, runMemory, timeLimited, memoryLimited>>
    /\ WatchUnchanged

\* if (process->isRunning()) process->kill(): exit code 0, without effect on
\* a program that is ending.
WatchKill ==
    /\ watch = "alive"
    /\ watch' = "last"
    /\ \/ /\ TRUE \in IsRunning
          /\ prog \in {"suspended", "running", "stopped"}
          /\ prog' = "exiting" /\ event' = "exit" /\ code' = 0 /\ killed' = TRUE
       \/ /\ FALSE \in IsRunning \/ prog \in {"exiting", "gone"}
          /\ UNCHANGED <<prog, event, code, killed>>
    /\ UNCHANGED <<runTime, runMemory, timeLimited, memoryLimited>>
    /\ WatchUnchanged

\* Variant of WatchLast: the last update is left out.
WatchNoLast ==
    /\ watch = "last"
    /\ watch' = "ended"
    /\ UNCHANGED <<prog, event, code, runTime, runMemory, timeLimited, memoryLimited, killed>>
    /\ WatchUnchanged

\* The last update, whose results nobody looks at.
WatchLast ==
    /\ watch = "last"
    /\ runTime' = time
    /\ UpdateMemory
    /\ watch' = "ended"
    /\ UNCHANGED <<prog, event, code, timeLimited, memoryLimited, killed>>
    /\ WatchUnchanged

Watch == WatchCheck \/ WatchTime \/ WatchMemory \/ WatchKill \/ WatchLast

-----------------------------------------------------------------------------
Next == Compute \/ Allocate \/ Raise \/ ProgExit \/ Core \/ Watch

Spec == Init /\ [][Next]_vars

(***************************************************************************)
(* Both threads of the judger run, and the program computes.  A program    *)
(* that only waits uses no user time and is waited for for ever.           *)
(***************************************************************************)
FairSpec == Spec /\ WF_vars(Core) /\ WF_vars(Watch) /\ WF_vars(Compute)

-----------------------------------------------------------------------------
TypeOK ==
    /\ prog \in {"suspended", "running", "stopped", "exiting", "gone"}
    /\ event \in {"none", "breakpoint", "first chance", "second chance", "exit"}
    /\ code \in ExitCodes \cup {0, Fault, StillActive}
    /\ time \in 0 .. MaxUse /\ memory \in 0 .. MaxUse /\ events \in 0 .. MaxEvents
    /\ core \in {"resume", "debug", "join", "done"}
    /\ status \in {"CONTINUE", "NOT_HANDLED"}
    /\ noError \in BOOLEAN /\ killed \in BOOLEAN
    /\ verdict \in {"none", "ok", "MEMORY", "TIME", "RUNTIME"}
    /\ watch \in {"check", "time", "memory", "alive", "last", "ended"}
    /\ runTime \in Nat /\ runMemory \in Nat
    /\ timeLimited \in BOOLEAN /\ memoryLimited \in BOOLEAN

\* A program the watcher killed is never taken for one that ended well,
\* although its exit code is 0 and start reported no error.
KilledIsLimited == killed /\ verdict # "none" => verdict \in {"TIME", "MEMORY"}

\* A program judged to be over a limit was over it: what was measured is what
\* it used, and the right flag is reported.
LimitVerdictIsEarned ==
    /\ verdict = "TIME" => time > LimitTime
    /\ verdict = "MEMORY" => memory > LimitMemory

\* The time reported of a program that ended by itself is all it used: the
\* last update comes after its end.
RecordedTimeIsFinal == verdict \in {"ok", "RUNTIME"} => runTime = time

\* The run of a program that computes ends: over its limit it is killed
\* (Watcher.h:15), and the core gets past waitExit (Watcher.h:25).
RunEnds == <>(core = "done")

\* timeLimited says whether the time ran out, memoryLimited whether the memory
\* did (Watcher.h:51-52).
OverLimitIsFlagged ==
    verdict # "none" => /\ runTime > LimitTime => timeLimited \/ memoryLimited
                        /\ runMemory > LimitMemory => timeLimited \/ memoryLimited
=============================================================================
