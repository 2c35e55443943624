SPECIFICATION FairSpec
CONSTANTS
    Requests = {q1, q2}
    PageCount = 3
    SeqStride = 2
    MaxPrompt = 3
    MaxCompletion = 2
    IdealBatch = 2
    DecodeBatch = 1
    MaxStrobes = 1
    Failures = {"invoke"}
    MayShutdown = TRUE
INVARIANTS
    PagesSound
    OnePlace
    ResponseComplete
PROPERTIES
    RequestsAnswered
CHECK_DEADLOCK FALSE
