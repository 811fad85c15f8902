SPECIFICATION Spec
CONSTANTS
    MaxTokens = 4
INVARIANTS
    TypeOK
    TextDelivered
    ToldTheOutcome
    AbandonedIsAborted
PROPERTY ClientIsServed
CHECK_DEADLOCK FALSE
