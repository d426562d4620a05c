SPECIFICATION SerialSpec
CONSTANTS
    app = app
    cache = cache
    db = db
    log = log
    Component <- MCComponent
    Workspaces <- FloorWorkspace
    Procs = {p1, p2}
    Absent = Absent
    Empty = Empty
    Garbage = Garbage
    Panic = Panic
INVARIANTS
    DependenciesOn
PROPERTIES
    ImplementsLedger
