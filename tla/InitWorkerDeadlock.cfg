SPECIFICATION ThreadsSpec
CONSTANTS
    Parts = {"system"}
    Callers = {c1, c2}
    MaxThunks = 3
    MaxLowLevel = 2
    Threads = {t1, t2, t3}
    Schedulers = {s1, s2}
    Killers = {k1, k2}
    MaxTasks = 3
    Clients = {c1, c2}
    Owned = {w1}
    Procs = {p1}
    MaxFailures = 1
    InitFirst = FALSE
PROPERTIES
    CallsReturn
CHECK_DEADLOCK FALSE
