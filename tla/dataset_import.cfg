SPECIFICATION Spec
CONSTANTS
    p1 = p1
    p2 = p2
    g1 = g1
    g2 = g2
    Workers = {w1}
    NoWorker = NoWorker
    IMPORT_ATTEMPTS = 1
    IMPORT_MAX_STALLED = 1
    Groups = {g1,g2}
    Paths = {p1,p2}
    GroupOf <- TwoGroups
    BadPaths = {p2}
    Mappings <- OneOrAll
    Refs = {r1}
    Clients = {c1}
    Ops = {"start", "resume", "cancel"}
    DeleteJob = DeleteJob
    Sweeper = Sweeper
    Zip = Zip
    CONCURRENCY = 2
    MaxIds = 2
    MaxFaults = 1
INVARIANTS
    DoneIsComplete
    RowsHaveFiles
PROPERTIES
    LifecycleSpec
CHECK_DEADLOCK FALSE
