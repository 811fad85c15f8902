SPECIFICATION Spec
CONSTANTS
    MaxTokens = 4
INVARIANT EveryTextDelivered
CHECK_DEADLOCK FALSE
