SPECIFICATION Spec
CONSTANTS
    s1 = s1
    s2 = s2
    s3 = s3
    Blocks = {b1, b2}
    Seqs = {s1, s2, s3}
    BlockSize = 2
    MinTokens = 1
    MaxEntries = 2
    EnableCache = TRUE
    MaxWaiting = 2
    MaxBatch = 2
    Policies = {"fcfs"}
    Tokens <- MCTokens
    PromptOf <- TightPromptOf
    MaxTokensOf <- TightMaxTokensOf
INVARIANTS
    TypeOK
PROPERTIES
    AccountingSpec
    FirstComeFirstServed
    OnlyHitsStarve
    ShutdownDrains
