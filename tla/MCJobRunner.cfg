SPECIFICATION Spec
CONSTANTS
    Runner = {p1, p2}
    Job = {j1, j2}
    Claim = {c1, c2, c3}
    None = None
SYMMETRY Symmetry
CHECK_DEADLOCK FALSE
INVARIANTS
    TempsAreOwned
    NoStrayOutput
    LoneOutputIsKept
PROPERTIES
    LoneNeverOverwrites
