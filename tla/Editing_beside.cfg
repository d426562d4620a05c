SPECIFICATION WebSpec
CONSTANTS
    starter = starter
    name = name
    Served = {r1, r2}
    Tabs = {t1, t2}
    MaxTokens = 3
    MaxStarts = 2
    MaxChanges = 1
    Nothing = Nothing
    Idle = Idle
    Session = Session
    Paths <- MCPaths
    Values <- MCValues
    Defaults <- MCDefaults
    Clients = {c1}
    Commands = {k1}
    Requests <- WebKinds
    WriteOnly = {}
    Blocking <- TheBlocking
    BeforeDisplay <- Evolves
    AfterSave <- TurnsBack
    Validated = TRUE
    PartialWrites <- AnyOfThem
    Faults = {"transform"}
CHECK_DEADLOCK FALSE
INVARIANTS
    FrontendsConsistent
PROPERTIES
    FreshWritersOnlySet
    FrontendsSettle
