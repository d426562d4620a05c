SPECIFICATION Spec
CONSTANTS
    p1 = p1
    p2 = p2
    a = a
    b = b
    c1 = c1
    c2 = c2
    Client = {c1, c2}
    Path = {p1, p2}
    Value = {a, b}
    Primary = primary
    Mirror = {mirror}
    None = None
    Destroyed = Destroyed
    NotYet = NotYet
    Start <- MCStart
    Offered <- MCOffered
    Keep <- MCKeep
    MaxVersion = 3
    MaxCalls = 3
SYMMETRY Symmetry
CHECK_DEADLOCK FALSE
INVARIANTS
    VersionMeansValue
    MirrorsFollow
PROPERTIES
    WritesMindOthers
