SPECIFICATION Spec
CONSTANTS
    None = None
    s1 = s1
    t1 = t1
    hourly = hourly
    daily = daily
    bad = bad
    h1 = h1
    h2 = h2
    Schedules = {s1}
    Targets = {t1}
    MaxBackups = 2
    Exprs = {hourly}
    BadExprs = {}
    Requests = {h1}
    Ops <- OneClient
    ResticFails = FALSE
    MayCrash = FALSE
INVARIANTS
    CompletedRestorable
CHECK_DEADLOCK FALSE
