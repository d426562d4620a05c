SPECIFICATION ServersSpec
CONSTANTS
    Worker = {w1, w2}
    Tag = {latest}
    Digest = {m1, m2, layer}
    Top = {m1, m2}
    Plugin = {p}
    Refs <- MCRefs
    Chosen <- MCRefs
    Absent = Absent
    TTL = 1
    Patience = 1
    MaxTime = 3
    Mixes <- MCMixes
    MaxWork = 4
    User = {alice, bob}
    Artifact = {config, store}
    Owner <- MCOwner
    Version = {v1}
    Contents = {d1, d2}
    Score = {5}
    MaxWrites = 5
SYMMETRY Symmetry
CHECK_DEADLOCK FALSE
INVARIANTS
    SharingConsistent
    FreshAnswers
