SPECIFICATION Spec
CONSTANTS
    i1 = i1
    i2 = i2
    fa = fa
    fb = fb
    Ids = {i1, i2}
    Fields = {fa, fb}
    Vals = {0, 1}
    NoRow = NoRow
    Slots = {1, 2}
    PolicyOf <- MCPolicyOf
    Clients = {c1, c2}
    Requests <- MCCompared
    InitialStates <- MCInitialStates
    CompoundId = TRUE
    NoReq = NoReq
    Clean = Clean
PROPERTY UpdateManyIgnoresRejected
CHECK_DEADLOCK FALSE
