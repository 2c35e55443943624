SPECIFICATION FairSpec
CONSTANTS
    Queues = {0, 1}
    Allocated = {"x", "y"}
    ResultBuffers = {"r", "s"}
    HomeOf <- MCHome
    Isolations = {"PER_FIBER", "PER_CALL"}
    Arguments = {{"x", "y"}}
    MaxFaults = 1
    MaxOps = 3
    MaxSyncs = 1
INVARIANTS
    ConflictsInOrder
CHECK_DEADLOCK FALSE
