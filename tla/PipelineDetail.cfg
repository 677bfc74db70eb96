\* A loop and two callback threads, fair, with errors, deaths and duplicates; or a
\* batch of three over two catalogs, with two read attempts.
SPECIFICATION FairSpec
CONSTANTS
    antares = antares
    pittgoogle = pittgoogle
    loop = loop
    thread1 = thread1
    thread2 = thread2
    obj = obj
    Brokers = {antares, pittgoogle}
    Acking = {pittgoogle}
    Objects = {obj}
    Copies = {1, 2}
    Consumers = {loop, thread1, thread2}
    Reads <- MCReads
    Malformed <- LoopMalformed
    Unstorable <- OneUnstorable
    MaxFaults = 2
    a1 = a1
    a2 = a2
    lost = lost
    Alerts = {a1, a2, lost}
    Valid = {a1, a2}
    NCatalogs = 2
    Footprint <- MCFootprint
    Retries = 2
INVARIANTS
    NothingForgotten
    RecordsAreTrue
    PayloadsAgreeWithRecords
    FailuresAreNotSkips
PROPERTIES
    KeepsGate
    EveryMessageCredited
