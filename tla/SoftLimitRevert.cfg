\* The soft time limit strikes after the MATCHED commit.
SPECIFICATION Spec
CONSTANTS
    Alerts = {a1, a2}
    Catalogs = {c1}
    Tasks = {t1, t2}
    Dispatchers = {d1}
    Notifiers = {n1}
    MaxWait = 0
    Stuck = 4
    PickupBound = 1
    SoftLimit = 1
    TimeLimit = 2
    SoftAfterCommit = TRUE
    MaxSize = 2
    FetchLimit = 2
    MaxRounds = 2
    Faults = {}
    MaxFaults = 0
SYMMETRY Symmetry
INVARIANTS
    PendingMeansMatched
