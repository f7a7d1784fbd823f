SPECIFICATION ServicesSpec
CONSTANTS
    c1 = c1
    c2 = c2
    u1 = u1
    u2 = u2
    UploadFiles = {f1}
    UploadClients = {c1, c2}
    UploadOps = {"reserve", "chunk", "whole", "internal", "delete", "bulk", "read"}
    Contents = {1}
    Plain = 0
    Sizes = {2}
    MAX_BYTES = 2
    BulkStalls = FALSE
    MaxOwners = 3
    MaxLapses = 1
    OAuthCallers = {c1, c2}
    MaxClients = 1
    MaxCodes = 2
    MaxTokens = 3
    GroupIds = {g1}
    GroupUsers = {u1, u2}
    Invitations = {i1}
    GroupCallers = {c1, c2}
    MAX_PENDING = 1
    MaxVersion = 4
    Questions = {1, 2}
    Conversations = {k1}
    Replicas = {c1, c2}
    LIMIT = 1
    RESERVATION = 1
    WorkersStall = FALSE
    MaxChatFaults = 0
    ChatOps = {"cancel"}
    Deleters = {c1, c2}
    Recoverers = {r1}
    CallsLinger = FALSE
    RequestsPause = FALSE
    Builders = {c1, c2}
    MaxBuilds = 2
    Batches = 2
    MaxJobFaults = 1
    Frames = {f1}
    Annotators = {c1, c2}
    Submissions = {c1, c2}
    REDUNDANCY = 2
    MaxLost = 1
INVARIANTS
    ServicesTypeOK
    CommittedIsStored
    ReadersFind
    ExchangedOnce
    ReplayIsNoticed
    NoFalseAlarm
    AlwaysOwned
    SpentStaysSpent
    DroppedNeverAnswered
    WithinDailyLimit
    HoldEndsWithJob
    PublishedIsWhole
    CompletedMeansAnswered
PROPERTIES
    FileLifeSpec
    OwnersMakeOwners
    JoinsAreInvited
    TurnsInOrder
VIEW View
SYMMETRY Interchangeable
CHECK_DEADLOCK FALSE
