SPECIFICATION CatSpec
CONSTANTS
    Handle = {h1}
    NoHandle = NoHandle
    Root = {r1}
    MaxEvents = 2
    Asset = {1}
    Rep = {1, 2}
    Resource = {1, 2, 3}
    Locator = {1, 2, 3, 4}
    NoRoot = NoRoot
    Absent = Absent
    AssetOf <- MCAssetOf
    RepOf <- MCRepOf
    ResourceOf <- MCResourceOf
    Uri <- MCUri
    Optional = {3}
    Limit = 1
    MaxChanges = 3
CHECK_DEADLOCK FALSE
INVARIANTS
    DerivedTablesFollow
    FeedTellsCatalogue
    TraversalIsComplete
