SPECIFICATION Spec
CONSTANTS
    s1 = s1
    s2 = s2
    s3 = s3
    Blocks = {b1, b2, b3}
    Seqs = {s1, s2, s3}
    BlockSize = 2
    MinTokens = 1
    MaxEntries = 2
    EnableCache = FALSE
    MaxWaiting = 3
    MaxBatch = 2
    Policies = {"fcfs", "memory_fit"}
    Tokens <- MCTokens
    PromptOf <- MixedPromptOf
    MaxTokensOf <- MixedMaxTokensOf
PROPERTIES
    EveryRequestEnds
    ShutdownDrains
