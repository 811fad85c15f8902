SPECIFICATION Spec
CONSTANTS
    Reqs = {r1, r2, r3}
    MaxWaiting = 2
INVARIANTS
    TypeOK
    CountedOnce
    RecordTellsTheTruth
PROPERTY LockIsPassedOn
CHECK_DEADLOCK FALSE
