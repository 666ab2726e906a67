SPECIFICATION Spec
CONSTANTS
    None = None
    g1 = g1
    g2 = g2
    a = a
    b = b
    h1 = h1
    h2 = h2
    Groups = {g1, g2}
    MaxServices = 2
    Names = {a}
    OpsNetwork = "ops"
    Requests = {h1, h2}
    Ops <- Operators
    CanFail <- DockerSteps
    MayAbort = TRUE
SYMMETRY Symmetry
INVARIANTS
    ServiceStatusOwned
    PointersResolve
PROPERTIES
    TeardownIsLocal
CHECK_DEADLOCK FALSE
