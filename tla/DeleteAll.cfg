SPECIFICATION Spec
CONSTANTS
    User = User
    Post = Post
    posts = posts
    users = users
    Models <- MCModels
    ForeignKeys <- MCForeignKeys
    BaseTypes <- MCBaseTypes
    Queries = {posts, users}
    Query <- MCQuery
    Clicks = {m1}
    Calls <- DeleteAllCalls
    NoCall = NoCall
    Adapters = {"react-v5", "other"}
CHECK_DEADLOCK FALSE
INVARIANT AffectedQueriesAreRefreshed
