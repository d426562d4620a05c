SPECIFICATION Spec
CONSTANTS
    first = first
    second = second
    t1 = t1
    t2 = t2
    g1 = g1
    g2 = g2
    Logins <- OneLogin
    Tokens <- TwoTokens
    BadToken = BadToken
    NoToken = NoToken
    Loops <- TwoLoops
    NoLoop = NoLoop
    Leases = {0, 2}
    MaxLease = 4
    Lag = 0
    MaxNow = 5
SYMMETRY Symmetric
INVARIANTS
    OneRenewal
    StaysAlive
    SessionHasToken
    SessionWithinLease
