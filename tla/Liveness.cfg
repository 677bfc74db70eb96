\* Safe schedule, three catalogs and two overlapping notification runs, fair
\* scheduling, finitely many faults of every kind.
SPECIFICATION FairSpec
CONSTANTS
    Alerts = {a1}
    Catalogs = {c1, c2, c3}
    Tasks = {t1, t2}
    Dispatchers = {d1}
    Notifiers = {n1, n2}
    MaxWait = 1
    Stuck = 2
    PickupBound = 0
    SoftLimit = 0
    TimeLimit = 1
    SoftAfterCommit = FALSE
    MaxSize = 2
    FetchLimit = 2
    MaxRounds = 1
    Faults = {"fail", "kill", "lose", "reject", "crash"}
    MaxFaults = 2
INVARIANTS
    NotifiedMeansAllSent
PROPERTIES
    EveryAlertCrossmatched
    EveryNotificationSettled
    MarkedUnlessForgotten
    KeepsPromise
