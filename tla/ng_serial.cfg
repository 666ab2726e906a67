SPECIFICATION NodesSpec
CONSTANTS
    None = None
    g1 = g1
    g2 = g2
    h1 = h1
    h2 = h2
    r1 = r1
    r2 = r2
    f1 = f1
    f2 = f2
    j1 = j1
    j2 = j2
    i1 = i1
    i2 = i2
    i3 = i3
    i4 = i4
    o1 = o1
    o2 = o2
    ProjectIds = {j1, j2}
    PeerOrgs = {o1, o2}
    ProjectCalls = {r1, r2}
    RunnerPorts = {1, 2}
    Containers = {i1, i2, i3, i4}
    Configs = {f1, f2}
    PeerCalls = {r1, r2}
    MaxIds = 2
    MaxCerts = 3
    Groups = {g1}
    Committers = {}
    NameOf <- SameName
    Roles <- ThreeRoles
    InitRoles <- ThreeInit
    MaxNodes = 4
    Requests = {h1}
    Ops <- OneClient
    MayFail = TRUE
    MayAbort = TRUE
INVARIANTS
    RunningMeansUp
    DependencyOrder
    PeerStatusServed
    StatusIsContainer
    ContainerIsRow
    ProjectIsServed
