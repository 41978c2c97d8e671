SPECIFICATION Spec
CONSTANTS
    Runner = {p1, p2}
    Job = {j1}
    Claim = {c1, c2}
    None = None
SYMMETRY Symmetry
CHECK_DEADLOCK FALSE
INVARIANTS
    SucceededHasOutput
