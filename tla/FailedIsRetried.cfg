\* The least the documented retry needs: one alert, one notification, a broker that
\* refuses a message once, and every dispatch task run again and again.
SPECIFICATION FairSpec
CONSTANTS
    Alerts = {a1}
    Catalogs = {c1}
    Tasks = {t1}
    Dispatchers = {d1}
    Notifiers = {n1}
    MaxWait = 1
    Stuck = 2
    PickupBound = 0
    SoftLimit = 0
    TimeLimit = 1
    SoftAfterCommit = FALSE
    MaxSize = 1
    FetchLimit = 1
    MaxRounds = 1
    Faults = {"reject"}
    MaxFaults = 1
PROPERTIES
    FailedIsRetried
