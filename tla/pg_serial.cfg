SPECIFICATION Spec
CONSTANTS
    None = None
    g1 = g1
    g2 = g2
    a = a
    b = b
    h1 = h1
    h2 = h2
    Groups = {g1, g2}
    MaxServices = 2
    Names = {a, b}
    OpsNetwork = "ops"
    Requests = {h1}
    Ops <- OneClient
    CanFail = {"ready"}
    MayAbort = TRUE
SYMMETRY Symmetry
INVARIANTS
    RunningMeansServed
    SharedReachable
CHECK_DEADLOCK FALSE
