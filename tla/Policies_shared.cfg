SPECIFICATION Spec
CONSTANTS
    m1 = m1
    m2 = m2
    Manager = {m1, m2}
    Granter = {g}
    Named <- TwoWorkspaces
    App = {"web", "worker"}
    TokenApp = {"worker"}
    Tree <- MCTree
    User = "ann"
    Path = {"p1", "p2"}
    Action = {"read", "write"}
    Labelled <- MCLabelled
    Grants <- MCGrants
    None = None
    MaxCalls = 2
CHECK_DEADLOCK FALSE
INVARIANTS
    PoliciesInPlace
    AccessAsGranted
PROPERTIES
    RolesKeepPolicies
