SPECIFICATION MCSpec
CONSTANTS
    Identities = {"i1", "i2"}
    Materials = {"m1", "m2"}
    IssueCalls = {1, 2, 3}
    IssueRequests <- MCIssueRequests
    PageLimit = 1
    NoCredential = NoCredential
    PublishCalls = {1}
    RootLimit = 1
    Devices = {"d1", "d2", "d3"}
    FirstDevice = "d1"
    LoginChallenges = {1, 2}
    AuthRequests = {1, 2, 3}
    RequestMixes <- MCRequestMixes
    SessionLimit = 1
    QrTransactions = {1}
    NoBrowser = NoBrowser
    OidcCalls = {1, 2, 3, 4, 5}
    OidcMixes <- MCOidcMixes
    Writers = {"u1", "u2", "u3"}
    PostAuthor = "u1"
    DiscussionCalls = {1, 2, 3, 4, 5, 6}
    DiscussionMixes <- MCDiscussionMixes
    DraftCalls = {1, 2, 3}
    Persons = {"i1", "i2", "i3"}
    FirstPerson = "i1"
    Nicknames = {"n1", "n2"}
    NoName = NoName
    AccountCalls = {1, 2, 3, 4}
    AccountMixes <- MCAccountMixes
    ZkPolls = {"zk1", "zk2"}
    DevPolls = {"dev", "id", "open"}
    Rules <- MCRules
    KeyIds <- MCKeyIds
    NoPoll = NoPoll
    Voters = {1, 2, 3}
    PollChoices = {"yes", "no"}
    Unbound = {3}
    VotingCalls = {1, 2, 3, 4}
    VotingMixes <- MCVotingMixes
    PlacedVotes = {1, 2, 3, 4}
    MarkerWorlds <- MCMarkerWorlds
    DisplayOrder <- MCDisplayOrder
    OptionIdOrder <- MCOptionIdOrder
    LatestVote = 3
    MarkerPageSize = 2
    PrivacyThresholdK = 3
    MediaUsers = {1, 2}
    MediaPosts = {"p", "q"}
    MediaCalls = {1, 2, 3, 4, 5, 6}
    MediaMixes <- MCMediaMixes
    CommentIds = {1, 2, 3, 4, 5}
    CommentWorlds <- MCCommentWorlds
    ThreadLimit = 1
    PreviewLimit = 1
    ReplyLimit = 1
CHECK_DEADLOCK FALSE
INVARIANTS
    ServicesTypesOK
    CredentialAnswersHold
    SignInsHold
    DeletionIsFinal
    UsersAreShownTheTruth
    OnlyClearedIsPublic
    CountsAreExact
    VotesHold
    ReadersSeeTheTruth
PROPERTIES
    QrImplementsGrant
    PublishedPollsAreFrozen
