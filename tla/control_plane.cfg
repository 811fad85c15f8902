SPECIFICATION ControlSpec
CONSTANTS
    Limit = 2
    MaxCount = 4
    MaxStatus = 2
INVARIANTS
    LimitHolds
PROPERTIES
    LimitIsLifted
    JobMovesForward
