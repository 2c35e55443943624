SPECIFICATION FairSpec
CONSTANTS
    Clients = {"a", "b"}
    Bodies <- MCBodies
    MaxImages = 2
    Topologies <- MCTopologies
    PerFiber = TRUE
    IdealBatch = 2
    BatchSizes = {1}
    MaxStrobes = 1
    MaxFaults = 1
INVARIANTS
    DispatchSound
    RespondedOnce
PROPERTIES
    ClientsAnswered
CHECK_DEADLOCK FALSE
