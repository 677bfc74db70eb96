\* Every read query, over three objects, while the pipeline commits between
\* any two of its statements.
SPECIFICATION Spec
CONSTANTS
    Objects = {1, 2, 3}
    Catalogs = {"A", "B"}
    Brokers = {"antares", "lasair"}
    EventTime <- MCEventTime
    Versions = {1, 2}
    Unbuildable <- MCUnbuildable
    StartTime = 6
    MaxTime = 7
    MaxWrites = 2
    MaxPage = 2
    DefaultPage = 2
    MaxWindow = 9
    DefaultWindow = 9
    Requests <- MCRequests
    Reliable = {2}
    Cones = {"c1", "c2"}
    Separation <- MCSeparation
    Radius = 2
    MaxIds = 3
    MaxPositions = 2
    MaxPerCone = 2
    MaxListed = 3
    TnsPlace <- MCTnsPlace
    Lookups <- MCLookups
    ConePages = 2
    ConePagesMax = 2
    ConeAsks <- MCConeAsks
    ChatIds = 5
    ChatObjects = 2
    ChatSize = 5
    ChatAsks <- MCChatAsks
    ChatCentres = {"c1"}
    Day = 4
    Rollover = 3
    MaxNights = 2
    MaxTop = 3
    DefaultTop = 1
    Bins = 10
    Score <- MCScore
    Basis <- MCBasis
    Summaries <- MCSummaries
    Omitted = Omitted
    Garbled = Garbled
    InitRows <- MCInitRows
INVARIANTS
    WalkIsExact
    AnswerWasTrue
    NumbersAgree
    ConeWalkIsExact
    NothingIsHidden
    SummaryIsConsistent
    ReplayIsTheSame
CHECK_DEADLOCK FALSE
