SPECIFICATION BackgroundSpec
CONSTANTS
    Questions = {1, 2}
    Conversations = {k1}
    Replicas = {w1}
    LIMIT = 1
    RESERVATION = 1
    WorkersStall = FALSE
    MaxChatFaults = 1
    ChatOps = {"members"}
    Deleters = {d1}
    Recoverers = {r1}
    CallsLinger = TRUE
    RequestsPause = TRUE
    Builders = {b1}
    MaxBuilds = 1
    Batches = 1
    MaxJobFaults = 2
INVARIANT
    HoldFollowsJob
PROPERTIES
    EveryQuestionSettles
    LifecycleEnds
    RetiredAreRemoved
CHECK_DEADLOCK FALSE
