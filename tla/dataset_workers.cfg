SPECIFICATION Spec
CONSTANTS
    p1 = p1
    p2 = p2
    g1 = g1
    g2 = g2
    Workers = {w1,w2}
    NoWorker = NoWorker
    IMPORT_ATTEMPTS = 2
    IMPORT_MAX_STALLED = 1
    Groups = {g1}
    Paths = {p1}
    GroupOf <- OneEntry
    BadPaths = {}
    Mappings <- AllGroups
    Refs = {r1}
    Clients = {c1}
    Ops = {"start", "cancel"}
    DeleteJob = DeleteJob
    Sweeper = Sweeper
    Zip = Zip
    CONCURRENCY = 2
    MaxIds = 1
    MaxFaults = 2
INVARIANTS
    IInv
PROPERTIES
    LifecycleSpec
CHECK_DEADLOCK FALSE
