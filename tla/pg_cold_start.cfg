SPECIFICATION Spec
CONSTANTS
    None = None
    g1 = g1
    g2 = g2
    a = a
    b = b
    h1 = h1
    h2 = h2
    Groups = {g1, g2}
    MaxServices = 1
    Names = {a}
    OpsNetwork = "ops"
    Requests = {h1, h2}
    Ops <- Starters
    CanFail = {}
    MayAbort = FALSE
INVARIANTS
    SharedReachable
CHECK_DEADLOCK FALSE
