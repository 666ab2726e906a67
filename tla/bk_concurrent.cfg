SPECIFICATION RecordsSpec
CONSTANTS
    None = None
    s1 = s1
    t1 = t1
    hourly = hourly
    daily = daily
    bad = bad
    h1 = h1
    h2 = h2
    o1 = o1
    o2 = o2
    m1 = m1
    x1 = x1
    x2 = x2
    r1 = r1
    r2 = r2
    OrgIds = {o1, o2}
    MspIds = {m1}
    Serials = {x1, x2}
    OrgCalls = {r1, r2}
    Schedules = {s1}
    Targets = {t1}
    MaxBackups = 2
    Exprs = {hourly, daily, bad}
    BadExprs = {bad}
    Requests = {h1, h2}
    Ops <- TwoClients
    ResticFails = TRUE
    MayCrash = TRUE
SYMMETRY Symmetry
INVARIANTS
    BackupStatusOwned
    ScheduleInSync
    RowsResolve
    StatusIsTruth
    NoOrphanMember
    PublishedIsRevoked
PROPERTIES
    ImplementsBackupLife
