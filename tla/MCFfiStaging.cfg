SPECIFICATION SSpec
CONSTANTS
    Txn = {t1, t2}
    Old = Old
    Kind = {"proxy"}
    Instant = {0, 1}
    MaxStaged = 4
    MaxCalls = 4
    MaxOther = 1
SYMMETRY Symmetry
CHECK_DEADLOCK FALSE
INVARIANTS
    NeverLockedOut
    CommitTellsTheTruth
    StagedMeansCalls
