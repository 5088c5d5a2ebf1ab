CONSTANTS
    Users <- MCUsers
    Nobody <- none
    Absent <- absent
    Keys <- MCKeys
    Empty = ""
    TooLong <- MCTooLong
    PageSize = 2
    DefaultPageSize = 3
    Queries <- MCQueries
    Requests <- MCRequests
    Seeds <- MCSeeds
    FirstKey = "k1"
    Walker = "ann"
    Wanted <- MCWanted
    MaxRequests = 2
    MaxDeploys = 1
    MaxBefore = 0
SPECIFICATION Spec
INVARIANT ReadsShowWhatWasGiven
INVARIANT WalksAreComplete
PROPERTY SecretsAreSealed
PROPERTY AnswersTellTheOutcome
PROPERTY RetriesChangeNothing
PROPERTY ImplementsPagedWalk
PROPERTY WalksEnd
CHECK_DEADLOCK FALSE
