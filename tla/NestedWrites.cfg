SPECIFICATION ReadSpec
CONSTANTS
    p1 = p1
    p2 = p2
    p3 = p3
    k1 = k1
    k2 = k2
    None = None
    Parents = {p1, p2, p3}
    Kids = {k1, k2}
    Policies <- MCPolicies
    Starts <- MCStarts
    Calls <- MCCalls
    Unusable = Unusable
    Numbers = {0, 1}
    Questions <- MCQuestions
    NoFilter = NoFilter
    Opaque = {"val", "guard"}
    ReadStarts <- MCReadStarts
    Reads <- MCReads
CHECK_DEADLOCK FALSE
PROPERTIES
    ChangesObeyRules
    EachWriteAppliesOnce
    RefusalsHaveReason
    ChecksTellThePossible
    ReadsShowWhatIsReadable
    CountsMatchReads
