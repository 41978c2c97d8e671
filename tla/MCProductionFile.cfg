SPECIFICATION LiveSpec
CONSTANTS
    old = old
    new1 = new1
    new2 = new2
    None = None
    Process = {old, new1, new2}
    Newest <- MCNewest
    MaxFaults = 3
INVARIANTS
    CreatedIsOpenable
PROPERTIES
    OpenersGetThrough
