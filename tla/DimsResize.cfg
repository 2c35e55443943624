SPECIFICATION DimsSpec
CONSTANTS
    DimsObjects = {a, b}
    MaxInlineRank = 2
    Counts = {0, 1, 2, 3, 4}
    MaxRank = 3
    DimValues = {0, 7}
INVARIANTS
    VectorAlike
