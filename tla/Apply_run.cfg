SPECIFICATION Spec
CONSTANTS
    sh = sh
    child = child
    Processes <- Two
    Shell <- sh
    Cases <- Mixed
    PipeSize = 1
    ChannelSize = 1
    BatchSize = 2
CHECK_DEADLOCK FALSE
INVARIANTS
    AllOutputShown
PROPERTIES
    ChecksDoNotMix
    RunsEnd
    CancelEnds
