SPECIFICATION LiveCallSpec
CONSTANTS
    Null = Null
    Revision <- MCRevision
    Filter <- MCFilter
    Limit = 2
    MaxRevisions = 3
    Call <- MCCall
    History <- MCHistory
    MaxNesting = 3
    MaxScale = 3
    Width = 4
    Written <- MCWritten
CHECK_DEADLOCK FALSE
INVARIANTS
    PageIsExact
    NothingSkipped
    ScanIsComplete
    ReadsAreWhole
    AnswersSurvive
PROPERTIES
    ImplementsSubscription
    ObserverServes
