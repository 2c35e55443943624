SPECIFICATION FairSpec
CONSTANTS
    Queues = {0, 1}
    Allocated = {"x", "y"}
    ResultBuffers = {"r", "s"}
    HomeOf <- MCHome
    Isolations = {"PER_FIBER", "PER_CALL"}
    Arguments = {{"x"}, {"r"}}
    MaxFaults = 1
    MaxOps = 3
    MaxSyncs = 1
INVARIANTS
    DeviceOrder
    ContextsExclusive
PROPERTIES
    SyncsReturn
CHECK_DEADLOCK FALSE
