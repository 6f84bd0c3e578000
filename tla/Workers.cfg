SPECIFICATION MCSpec
CONSTANTS
    ReviewDevices = {"d1"}
    NoDevice = NoDevice
    MediaKinds = {"live_face"}
    ReviewCalls = {1, 2, 3, 4, 5}
    ReviewMixes <- MCReviewMixes
    CleanupLimit = 1
    PushSessions = {"s1", "s2"}
    PushWorkers = {"w1", "w2"}
    MaxPushAttempts = 2
    PushLimit = 3
    MapPolls = {"p1", "p2"}
    NoPoll = NoPoll
    MapVotes = {1, 2}
    MapWorkers = {"w1", "w2"}
    VotePageSize = 1
    PendingVoteThreshold = 2
    MaxPollsPerCycle = 2
    MapFaultLimit = 1
CHECK_DEADLOCK FALSE
INVARIANTS
    WorkersTypesOK
    ApprovalsAreEarnedAndSpentOnce
    OnlyTroubleDoublesOrLoses
PROPERTIES
    ReviewImplementsGrant
    OldestMediaIsDeleted
    DeliveriesEnd
    QueuedPollsAreRefreshed
