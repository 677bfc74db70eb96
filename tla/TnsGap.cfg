\* One failed download, or one refresh that never ran.
SPECIFICATION Spec
CONSTANTS
    Pods = {p1, p2}
    Migrations <- MCMigrations
    PeriodOf <- MCPeriodOf
    MaxConnects = 2
    MaxHits = 2
    DaskWorkers = {w1, w2}
    Timeout = 3
    BackoffMax = 2
    ConnectTime = 1
    MaxChanges = 2
    TnsNames = {n1, n2}
    Day = 3
    MaxAge = 2
    Attempts = 2
    MaxVersion = 1
    MaxTrouble = 1
    Payloads = {r1, r2, r3}
    Sweeps = {s1, s2}
    Grace = 1
    MaxRows = 1
    MaxReopens = 1
INVARIANTS
    OlderNamesAreThere
CHECK_DEADLOCK FALSE
