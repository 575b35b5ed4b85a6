CONSTANTS
    Producers = {p1, p2}
    Consumers = {c1, c2}
    Testers = {e1}
    Tasks = {k1, k2, k3}
    NoTask = NoTask
    SemMax = 2

SPECIFICATION FairSpec

ACTION_CONSTRAINT TestOnce

INVARIANTS
    TypeOK
    MutualExclusion
    TokenAccounting
    FrontIsSafe
    NoDuplication

PROPERTIES
    ReleaseFailsOnlyWhenFull
    ImplementsTaskQueue
    TaskIsTaken

\* Every task taken and both consumers blocked in get is how a run ends.
CHECK_DEADLOCK FALSE
