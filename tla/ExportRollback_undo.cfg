SPECIFICATION OutputsSpec
CONSTANTS
    app = app
    env = env
    Files <- TwoFiles
    Texts = {"one", "two"}
    Missing = Missing
    Unreadable = Unreadable
    Torn = Torn
    Nothing = Nothing
    Kinds <- Snapshots
    RemovalFails = FALSE
    Templates <- MCTemplates
    Children <- MCChildren
    Iterates = {"hosts"}
    Prints = {"print"}
    Text = {"one", "two"}
    MaxChanges = 2
    Line = {"a", "b"}
    MaxLines = 5
    Context = 1
    Width = 5
    Mantissa = 3
INVARIANTS
    VerdictTrue
    AlgorithmsRight
PROPERTIES
    RollbackRestores
    RollbackUndoesLastExport
    DriftIsNoticed
