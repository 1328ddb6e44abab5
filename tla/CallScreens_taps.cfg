CONSTANTS
    h1 = h1
    h2 = h2
    Handlers = {h1, h2}
    MaxPages = 2
    MaxMessages = 2
    Keys <- ListKeys
    Types <- ListTypes
    PerPage = 2
    MaxListPages = 3
    MaxListEntries = 3
    MaxChanges = 1
    v1 = v1
    v2 = v2
    v3 = v3
    Ids = {v1, v2, v3}
    MaxAliases = 2
    MaxDraws = 5
SPECIFICATION ScreensSpec
INVARIANTS
    PageExists
    ReturnPreserves
    KeysComplete
    DoorsOfKeys
    FoundIfThere
    NeverAnother
    RecentWork
SYMMETRY Symmetry
