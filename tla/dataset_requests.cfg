SPECIFICATION Spec
CONSTANTS
    p1 = p1
    p2 = p2
    g1 = g1
    g2 = g2
    Workers = {w1}
    NoWorker = NoWorker
    IMPORT_ATTEMPTS = 1
    IMPORT_MAX_STALLED = 0
    Groups = {g1}
    Paths = {p1}
    GroupOf <- OneEntry
    BadPaths = {}
    Mappings <- AllGroups
    Refs = {r1}
    Clients = {c1,c2}
    Ops = {"start", "cancel", "removeGroup", "trash", "restore", "purge", "hold"}
    DeleteJob = DeleteJob
    Sweeper = Sweeper
    Zip = Zip
    CONCURRENCY = 2
    MaxIds = 1
    MaxFaults = 1
INVARIANTS
    HeldInPeace
    DoneIsComplete
    NoOrphans
PROPERTIES
    LifecycleSpec
CHECK_DEADLOCK FALSE
