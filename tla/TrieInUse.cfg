SPECIFICATION SequentialSpec
CONSTANTS
    Parts = {"trie"}
    u = u
    v = v
    a1 = a1
    a2 = a2
    Allocs <- MCAllocs
    AllocPageCount = 3
    TokensPerPage = 2
    MaxTokens = 5
    MaxExtraSlots = 1
    PoolPages = 3
    TrieAllocs <- MCAllocs
    Token <- MCToken
    Prompts <- MCPrompts
    Generated <- MCGenerated
    BlockTokens = 2
    MaxNodes = 4
    MaxExtended = 4
    MaxGrown = 6
    MaxRefs = 2
    Dispatches <- MCDispatches
    AllIntrinsics <- MCAllIntrinsics
    TargetMma <- MCTargetMma
    NumSubgroups = 1
    GenLimit = 3
    DimsObjects = {a, b}
    MaxInlineRank = 2
    Counts = {0, 1, 2, 3}
    MaxRank = 3
    DimValues = {0, 7}
SYMMETRY MCSymmetry
INVARIANT InUsePagesNotEvicted
