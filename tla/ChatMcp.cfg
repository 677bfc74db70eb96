\* Messages of every kind, three calls at once, and limits of one or two calls;
\* time, the cache and the database may do anything within the bounds.
SPECIFICATION Spec
CONSTANTS
    c1 = c1
    c2 = c2
    c3 = c3
    Calls = {c1, c2, c3}
    Budget = 2
    StatusTimeout = 1
    MaxTime = 6
    Keys <- MCKeys
    Rate <- MCRate
    Second = 2
    PerKey = 1
    MaxConcurrent = 1
    Margin = 0
    MaxFaults = 1
    Conversations <- MCConversations
    InitRates <- MCInitRates
    StartTime = 4
    MaxAge = 1
    PlanOf <- MCPlanOf
INVARIANTS
    OutcomeMeansInTime
    AdmittedAreBounded
    NothingIsKept
    RateIsFair
    AnswersAreRight
CHECK_DEADLOCK FALSE
