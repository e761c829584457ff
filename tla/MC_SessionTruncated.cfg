CONSTANTS
    MaxLabel = 10
    ConstOffset = 1
    InitLabel = 99
    MaxDepth = 500
    Offsets = {0, 1, 2, 3}
    Table <- MCTable
    BranchLabels = {}
    Tids = {0, 1, 2}
    InitialSeeds = {0, 1}
    TraceOf <- BridgeTraceOf
    BrcFlips = {0, 1}
    SnapshotLoss = FALSE
    MaxRequests = 2
    ReconnectInWindow = FALSE
    Pcs = {1, 2, 3, 4}
    Ctxs = {0}
SPECIFICATION Spec
CHECK_DEADLOCK FALSE
INVARIANT
    SnapshotCoversRecords
