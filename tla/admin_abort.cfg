SPECIFICATION Spec
CONSTANTS
    Seqs = {s1, s2, s3}
    Admins = {a1, a2}
    Loop = Loop
    MaxWaiting = 2
    MaxBatch = 2
SYMMETRY Symmetry
INVARIANTS
    TypeOK
    OnePlace
    AbortIsKept
    EventTellsTheQueue
PROPERTIES
    CrossingsAreRare
CHECK_DEADLOCK FALSE
