SPECIFICATION Spec
CONSTANTS
    Handle = {h1, h2}
    NoHandle = NoHandle
    Job = {j1, j2}
    Claim = {c1, c2}
    NoClaim = NoClaim
    Repr = {r1, r2}
    NoRepr = NoRepr
    MaxTime = 2
    MaxEvents = 6
SYMMETRY Symmetry
INVARIANTS
    JournalExplainsJobs
    NoOrphanOutputs
    SuccessCarriesOutput
PROPERTIES
    TakeoverOnlyAfterExpiry
    ImplementsLedger
