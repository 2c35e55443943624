SPECIFICATION ThreadsSpec
CONSTANTS
    Parts = {"worker", "executor", "system"}
    Callers = {c1, c2}
    MaxThunks = 3
    MaxLowLevel = 2
    Threads = {t1, t2, t3}
    Schedulers = {s1, s2}
    Killers = {k1, k2}
    MaxTasks = 3
    Clients = {c1, c2}
    Owned = {w1}
    Procs = {p1}
    MaxFailures = 1
    InitFirst = TRUE
INVARIANTS
    ThunksInOrder
    NoLostWakeup
    PoolSound
    SystemSound
PROPERTIES
    WorkerServes
    EverybodyServed
    CallsReturn
    AwaitersResume
CHECK_DEADLOCK FALSE
