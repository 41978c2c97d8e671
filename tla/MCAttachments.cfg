SPECIFICATION AttSpec
CONSTANTS
    Handle = {h1, h2}
    NoHandle = NoHandle
    Root = {r1}
    MaxEvents = 4
    Target = {1, 2}
    Identifiable = {2}
    Given = {1}
    Property = {p1}
    Value = {v1, v2}
    Unencodable = Unencodable
    Name = {n1}
    Qualifier = {"none", "reel"}
    Limit = 1
    MaxValues = 2
SYMMETRY Symmetry
INVARIANTS
    RootsAreKnown
    FeedTellsAttachments
    AssertionsAreFound
