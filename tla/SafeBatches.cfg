\* Safe schedule, three alerts in batches of at most two, every kind of fault.
SPECIFICATION Spec
CONSTANTS
    Alerts = {a1, a2, a3}
    Catalogs = {c1}
    Tasks = {t1, t2}
    Dispatchers = {d1}
    Notifiers = {n1}
    MaxWait = 1
    Stuck = 4
    PickupBound = 1
    SoftLimit = 1
    TimeLimit = 2
    SoftAfterCommit = FALSE
    MaxSize = 2
    FetchLimit = 2
    MaxRounds = 2
    Faults = {"fail", "kill", "lose", "reject", "crash"}
    MaxFaults = 2
SYMMETRY Symmetry
INVARIANTS
    TypeOK
    CrossmatchedOnce
    PendingMeansMatched
    Ownership
    MarkingIsSafe
PROPERTIES
    KeepsPromise
