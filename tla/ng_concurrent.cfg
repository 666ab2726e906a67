SPECIFICATION Spec
CONSTANTS
    None = None
    g1 = g1
    g2 = g2
    h1 = h1
    h2 = h2
    Groups = {g1}
    Committers = {}
    NameOf <- SameName
    Roles <- TwoRoles
    InitRoles <- TwoInit
    MaxNodes = 2
    Requests = {h1, h2}
    Ops <- TwoClients
    MayFail = TRUE
    MayAbort = TRUE
INVARIANTS
    GroupStatusOwned
    NodeStatusOwned
    LinkedChildComplete
    OneChildPerRole
PROPERTIES
    NoResurrection
CHECK_DEADLOCK FALSE
