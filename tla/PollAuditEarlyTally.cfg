SPECIFICATION Spec
CONSTANTS
    r1 = r1
    r2 = r2
    r3 = r3
    Requests = {r1, r2}
    VoterOf <- ThreeVoters
    Publishers = {x1}
    Provers = {}
    Submitters = {s1}
    AutoOnClose = TRUE
    NoResult = NoResult
    BatchSize = 2
    ProverMode = "worker"
    MaxFailures = 0
CHECK_DEADLOCK FALSE
INVARIANT EarlyTalliesMatchRoots
