SPECIFICATION Spec
CONSTANTS
    r1 = r1
    r2 = r2
    r3 = r3
    Requests = {r1, r2, r3}
    VoterOf <- TwoVoters
    Publishers = {x1}
    Provers = {}
    Submitters = {s1}
    AutoOnClose = FALSE
    NoResult = NoResult
    BatchSize = 2
    ProverMode = "disabled"
    MaxFailures = 0
CHECK_DEADLOCK FALSE
SYMMETRY SameVoterAlike
INVARIANTS AnswersAreTrue ResultCountsEveryVote
PROPERTY ImplementsElection
