SPECIFICATION Spec
CONSTANTS
    b1 = b1
    b2 = b2
    b3 = b3
    b4 = b4
    b5 = b5
    s1 = s1
    s2 = s2
    s3 = s3
    s4 = s4
    Blocks = {b1, b2, b3, b4, b5}
    Seqs = {s1, s2, s3, s4}
    BlockSize = 2
    MinTokens = 1
    MaxEntries = 2
    MaxBatch = 3
    EnableCache = TRUE
    Tokens <- MCTokens
    PromptOf <- MCPromptOf
    MaxTokensOf <- MCMaxTokensOf
    SamplingOf <- MCSamplingOf
    StopTokens <- MCStopTokens
    Prob <- MCProb
SYMMETRY Symmetry
INVARIANTS
    TypeOK
    CacheHoldsText
    DrawsTheLikely
PROPERTY NaiveSpec
CHECK_DEADLOCK FALSE
