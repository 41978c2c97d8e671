CONSTANTS
    File = {"a", "b", "c"}
    Folder = {"d", "e", "f"}
    Gone = "gone"
    FileVersion = {"x", "y", "z", "long", "late"}
    FolderVersion = {"take", "torso", "reel"}
    HashedInFull = {"x", "y", "z"}
    SizeOf <- MCSizeOf
    DigestOf <- MCDigestOf
    Frame = {1, 2, 3, 4, 5, 6, 7, 8, 9}
    FramesIn <- MCFramesIn
    Declared <- MCDeclared
    Sampled <- MCSampled
    MaxExceptions = 4
    Resource = {"clip", "seq", "one", "two", "reel"}
    SequenceResource = {"seq", "reel"}
    Representation = {"clip", "seq", "span", "reel"}
    MembersOf <- MCMembersOf
    Required = {"clip", "seq", "one", "reel"}
    Root = {"vol", "day"}
    Under <- MCUnder
    PlaceOrder <- MCPlaceOrder
    FirstDisk <- MCFirstDisk
    FirstPlaces <- MCFirstPlaces
    Searcher = {p1, p2}
    ResourceOrder <- MCResourceOrder
    RootOrder <- MCRootOrder
    Mappings <- MCMappings
    MaxEntries = 5
    MaxEvents = 3
SYMMETRY Identical
SPECIFICATION ResolverSpec
INVARIANTS
    ScanIsTruthful
    RelinkIsTruthful
CHECK_DEADLOCK FALSE
