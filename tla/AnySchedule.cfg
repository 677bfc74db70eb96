\* Two dispatchers, a message may be picked up after its batch counts as stuck,
\* and the soft limit may strike after the commit.
SPECIFICATION Spec
CONSTANTS
    Alerts = {a1}
    Catalogs = {c1}
    Tasks = {t1, t2}
    Dispatchers = {d1, d2}
    Notifiers = {n1, n2}
    MaxWait = 0
    Stuck = 2
    PickupBound = 3
    SoftLimit = 0
    TimeLimit = 1
    SoftAfterCommit = TRUE
    MaxSize = 1
    FetchLimit = 1
    MaxRounds = 2
    Faults = {"fail", "kill", "lose", "reject", "crash"}
    MaxFaults = 1
SYMMETRY Symmetry
INVARIANTS
    OutcomesAreBacked
PROPERTIES
    OutcomeIsFinal
