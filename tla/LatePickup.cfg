\* The startup check of settings.py passes, and a message waits longer than
\* the time between the hard limit and the stuck threshold.
SPECIFICATION Spec
CONSTANTS
    Alerts = {a1, a2}
    Catalogs = {c1}
    Tasks = {t1, t2}
    Dispatchers = {d1}
    Notifiers = {n1}
    MaxWait = 0
    Stuck = 3
    PickupBound = 3
    SoftLimit = 1
    TimeLimit = 2
    SoftAfterCommit = FALSE
    MaxSize = 2
    FetchLimit = 2
    MaxRounds = 2
    Faults = {}
    MaxFaults = 0
SYMMETRY Symmetry
INVARIANTS
    LiveBatchKept
