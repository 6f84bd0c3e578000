SPECIFICATION Spec
CONSTANTS
    Polls = {p1}
    Workers = {w1}
    NoWorker = NoWorker
    NoPoll = NoPoll
    AttemptLimits = {2}
    MaxRestarts = 1
CHECK_DEADLOCK FALSE
INVARIANT QueuedJobCanBeClaimed
