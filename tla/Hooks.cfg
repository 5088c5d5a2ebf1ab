SPECIFICATION Spec
CONSTANTS
    User = User
    Post = Post
    posts = posts
    users = users
    Models <- MCModels
    ForeignKeys <- MCForeignKeys
    BaseTypes <- MCBaseTypes
    Queries = {posts}
    Query <- MCQuery
    Clicks = {m1, m2}
    Calls <- CoveredCalls
    NoCall = NoCall
    Adapters = {"react-v5", "other"}
CHECK_DEADLOCK FALSE
INVARIANTS
    TypeOK
    QuiescentFresh
    AffectedQueriesAreRefreshed
PROPERTIES
    GuessesYieldToNewerFetches
    EveryMutationSettles
