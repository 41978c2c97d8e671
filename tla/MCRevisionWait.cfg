SPECIFICATION LiveSpec
CONSTANTS
    Waiter = {w1}
    Nobody = Nobody
    MaxVersion = 2
INVARIANTS
    NoLostWakeup
    TerminalForever
    NothingHidden
PROPERTIES
    CommitsAreFound
    EndsAreSeen
