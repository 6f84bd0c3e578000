SPECIFICATION Spec
CONSTANTS
    Polls = {p1}
    Workers = {w1, w2}
    NoWorker = NoWorker
    NoPoll = NoPoll
    AttemptLimits = {2}
    MaxRestarts = 1
CHECK_DEADLOCK FALSE
INVARIANTS TypeOK SucceededHasProof AttemptsWithinLimit LockIsLatestClaim
PROPERTIES OnlyLatestClaimSettles ImplementsLeaseQueue ClaimableJobsAreServed
