SPECIFICATION Spec
CONSTANTS
    r1 = r1
    r2 = r2
    r3 = r3
    Requests = {r1, r2}
    VoterOf <- ThreeVoters
    Publishers = {x1, x2}
    Provers = {}
    Submitters = {}
    AutoOnClose = FALSE
    NoResult = NoResult
    BatchSize = 2
    ProverMode = "inline"
    MaxFailures = 0
CHECK_DEADLOCK FALSE
SYMMETRY Alike
INVARIANTS RootRowsMatchChain AnchoredBatchesAreImmutable AnnouncedResultIsOnChain FinalResultIsLast
