SPECIFICATION FairSpec
CONSTANTS
    Workers = {w1}
    NoWorker = NoWorker
    IMPORT_ATTEMPTS = 1
    IMPORT_MAX_STALLED = 0
    Ops = {"rescan", "trash", "scan", "sweep", "legacy"}
    Clients = {c1}
    Sweeper = Sweeper
    MaxFiles = 1
    MaxScans = 1
    MaxFaults = 1
PROPERTIES
    ScanVerdictStays
    ScansSettle
CHECK_DEADLOCK FALSE
