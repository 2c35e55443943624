INIT SharktankInit
NEXT SharktankNext
CONSTANTS
    Units = {"registry", "sharded", "paged", "quantized", "theta"}
    TypeSpecs <- MCSpecs
    Calls <- MCCalls
    MaxOverrides = 2
    ShardCount = 2
    Shapes <- MCShapes
    Perms <- MCPerms
    MaxShardOps = 4
    Rows = 2
    PromptLens = {1, 2, 3, 5, 7}
    BlockSeqStride = 2
    BlockCount = 2
    PageCount = 6
    Archs = {"llama", "mixtral", "grok"}
    Evaluators = {"torch", "iree", "prefill"}
    ContextLength = 6
    MaxTokens = 3
    RawBlocks <- MCRawBlocks
    Inputs <- MCInputs
    Quantizers <- MCQuantizers
    Weights <- MCWeights
    MaxQuantOps = 3
    GgufFiles <- MCGgufFiles
    PopPaths <- MCPopPaths
    StrPrefixes <- MCStrPrefixes
    RankNames <- MCRankNames
    ImportLayers <- MCImportLayers
    MaxThetaOps = 4
INVARIANTS
    MostSalientRuns
    ShardingTransparent
    BatchedAsAlone
    QuantTransparent
    ParametersKept
CHECK_DEADLOCK FALSE
