SPECIFICATION Spec
CONSTANTS
    e1 = e1
    e2 = e2
    e3 = e3
    e4 = e4
    poll1 = poll1
    poll2 = poll2
    Calls = {e1, e2, e3, e4}
    Streams = {poll1, poll2}
    StreamOf <- TwoStreams
    MaxAttempts = 2
CHECK_DEADLOCK FALSE
INVARIANTS TypeOK ChainsAreLinked AnswersMatchChain ConflictsMeanProgress
PROPERTY ImplementsAuditLog
