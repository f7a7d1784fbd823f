SPECIFICATION Spec
CONSTANTS
    Workers = {w1}
    NoWorker = NoWorker
    IMPORT_ATTEMPTS = 1
    IMPORT_MAX_STALLED = 0
    Ops = {"upload", "discard", "complete", "rescan", "use", "scan"}
    Clients = {c1, c2}
    Sweeper = Sweeper
    MaxFiles = 2
    MaxScans = 2
    MaxFaults = 1
SYMMETRY ClientSymmetry
INVARIANTS
    ReferencedStored
    NothingForgotten
    ContentsOfArchive
    IInv
PROPERTIES
    UsedArchiveStays
CHECK_DEADLOCK FALSE
