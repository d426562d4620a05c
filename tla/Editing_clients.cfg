SPECIFICATION PublishingSpec
CONSTANTS
    Publishers = {u1, u2}
    Builds = {"old", "new", "config", "space"}
    About <- MCAbout
    Earlier = {"old", "config", "space"}
    Path <- MCPath
    Policies <- MCPolicies
    Host = "linux"
    Hidden = {".git/head"}
    Ignored = {"out"}
    Links = {"link"}
    Tags = {"v1", "latest"}
    VersionTag <- MCVersionTag
    Ways <- MCWays
    Flags <- MCFlags
    MaxPushes = 2
    MaxCommands = 3
    Process = {"p", "q"}
    Registry = {"ghcr.io", "quay.io"}
    User = {"ann", "bob"}
    MaxLogins = 4
    None = None
    starter = starter
    name = name
    Nothing = Nothing
    Idle = Idle
    Session = Session
    Paths <- OnePath
    Values <- MCValues
    Defaults <- OneDefaults
    Clients = {c1, c2}
    Commands = {k1}
    Requests <- LoadingKinds
    WriteOnly = {}
    Blocking <- TheBlocking
    BeforeDisplay <- OneEvolves
    AfterSave <- OneTurnsBack
    Validated = FALSE
    PartialWrites <- AllOrNothing
    Faults = {"set", "validate", "transform"}
SYMMETRY Alike
CHECK_DEADLOCK FALSE
INVARIANTS
    EditsSurvive
    BlockingNeverStored
    PublishersServed
    InstallsTrue
PROPERTIES
    SavePersistsEdits
