SPECIFICATION Spec
CONSTANTS
    i1 = i1
    i2 = i2
    fa = fa
    fb = fb
    Ids = {i1, i2}
    Fields = {fa, fb}
    Vals = {0, 1}
    NoRow = NoRow
    Slots = {1, 2}
    PolicyOf <- MCPolicyOf
    Clients = {c1, c2}
    Requests <- MCWeakRequests
    InitialStates <- MCInitialStates
    CompoundId = FALSE
    NoReq = NoReq
    Clean = Clean
PROPERTY RefusedLeavesNoTrace SingleStatementObeysPolicy
PROPERTY SnapshotObeysRowPolicy WrittenRowsPassChecks
CHECK_DEADLOCK FALSE
