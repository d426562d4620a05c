SPECIFICATION TuiSpec
CONSTANTS
    config = config
    store = store
    p1 = p1
    p2 = p2
    LoginKinds <- MCLoginKinds
    Labels <- MCLabels
    Plugins <- MCPlugins
    MaxCalls = 2
    MaxApplies = 2
    Types <- TwoTypes
    Versions <- TwoVersions
    NameRank <- Alphabetical
    None = None
    Torn = Torn
CHECK_DEADLOCK FALSE
SYMMETRY Symmetric
INVARIANTS
    NothingLost
    Described
    ScreensConsistent
PROPERTIES
    KeysDoNoHarm
