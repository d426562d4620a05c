SPECIFICATION LaunchingSpec
CONSTANTS
    app = app
    cache = cache
    db = db
    log = log
    Component <- ChainComponent
    Workspaces <- EditedWorkspaces
    Procs = {p1, p2}
    Absent = Absent
    Empty = Empty
    Garbage = Garbage
    Panic = Panic
    Directory <- MCDirectory
    Name <- MCName
    Builtin <- MCBuiltin
    Listings <- MCListings
    References <- MCReferences
    Frontends <- MCFrontends
    Calls = {"call"}
    Chains = {{}, {"cas", "auth"}, {"auth"}, {"access", "unsupported"}}
    MaxLines = 3
    Window = 1
    Caller = {"one", "other"}
    Judge = {"one"}
    Segment = {"a", "b", "host"}
    Mounts <- MCMounts
    Directories <- MCFiles
    Edits <- MCEdits
    Val = {"x", "y"}
    MaxCalls = 2
INVARIANTS
    MandatoryOn
    PluginsAccountedFor
    AnswersTrue
PROPERTIES
    NeverBreaksMore
    CallsEnd
CHECK_DEADLOCK FALSE
