SPECIFICATION MCSpec
CONSTANTS
    p1 = p1
    p2 = p2
    c1 = c1
    c2 = c2
    n1 = n1
    n2 = n2
    k1 = k1
    k2 = k2
    d1 = d1
    d2 = d2
    r1 = r1
    r2 = r2
    pe1 = pe1
    e1 = e1
    e2 = e2
    e3 = e3
    e4 = e4
    pl1 = pl1
    v1 = v1
    v2 = v2
    Providers = {p1, p2}
    Topics = {"NODE_DOWNTIME", "DISK_SPACE_WARNING"}
    Wanted <- AllOrNothing
    Clients = {c1, c2}
    Watchable = {n1, n2}
    BesuNodes = {n2}
    Workers = {k1, k2}
    Threshold = 2
    Definitions = {d1, d2}
    LabelOf <- OneLabel
    PortRange = {1, 2}
    Peers = {pe1}
    CcRequests = {r1, r2}
    Events = {e1, e2, e3, e4}
    Capacity = 1
    AuditWorkers = {k1, k2}
    PluginNames = {pl1}
    Calls = {r1, r2}
    FxNodes = {n1, n2}
    Joins = {r1, r2}
    Verifiers = {v1, v2}
    MaxRecords = 1
    FxFaults = {"genesis", "start", "cut", "insert", "sidecar", "broadcast", "finality", "query"}
INVARIANTS
    ServerTypeOK
    StatusServed
    ReportIsCurrent
    ReportedAfterThreshold
    OneDefault
    PortsApart
    InstalledIsOfRow
    DeploymentIsExact
    DeployingIsServed
    StatusIsProject
    LastJoinVerifies
    OneTransactionPerRecord
PROPERTIES
    DownIsReported
    FailedWarningIsRetried
    ImplementsAuditEvents
CHECK_DEADLOCK FALSE
