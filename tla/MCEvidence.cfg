SPECIFICATION Spec
CONSTANTS
    scene = scene
    plate = plate
    grade = grade
    film = film
    x = x
    y = y
    z = z
    g = g
    w = w
    nothing = nothing
    None = nothing
    full = full
    part = part
    same = same
    Domain = {full, part}
    View <- MCView
    Reads <- MCReads
    Domains <- MCDomains
    Rep = {scene, plate, grade, film}
    Resource = {x, y, z, g, w}
    Owner <- MCOwner
    Extractions <- MCExtractions
    Works <- MCWorks
    Value = {v1, v2}
    Activity = {a1, a2, a3}
    Late = {film}
    Caller = {c1}
    MaxDepth = 1
    MaxDependencies = 1
    MaxRevisions = 3
    Depths = {1, 4}
    Counts = {2, 5}
    Ids <- MCIds
    Reaches <- MCReaches
SYMMETRY Alike
CHECK_DEADLOCK FALSE
INVARIANTS
    ProvenanceIsAcyclic
    EvidenceIsOfNow
    CurrentIsTrue
    LimitedIsSound
    TraversalIsHonest
    StaleAreFound
