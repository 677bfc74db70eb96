\* The documented promise of api/status, which the code does not keep: an
\* InterfaceError of the driver is not a DatabaseError and ends in a 500.
SPECIFICATION Spec
CONSTANTS
    c1 = c1
    c2 = c2
    c3 = c3
    Calls = {c1, c2, c3}
    Budget = 2
    StatusTimeout = 1
    MaxTime = 6
    Keys <- MCKeys
    Rate <- MCRate
    Second = 2
    PerKey = 1
    MaxConcurrent = 1
    Margin = 0
    MaxFaults = 1
    Conversations <- MCConversations
    InitRates <- MCInitRates
    StartTime = 4
    MaxAge = 1
    PlanOf <- MCPlanOf
INVARIANT
    StatusAlwaysAnswers
CHECK_DEADLOCK FALSE
