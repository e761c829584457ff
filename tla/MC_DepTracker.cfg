CONSTANTS
    MaxLabel = 14
    ConstOffset = 1
    InitLabel = 99
    MaxDepth = 500
    Offsets <- MCOffsets
    Table <- MCTable
    BranchLabels <- MCBranchLabels
INIT DepInit
NEXT DepNext
INVARIANTS
    DepTypeOK
    RecordsClosed
PROPERTIES
    ImplementsDepTrackerSpec
CONSTRAINT SessionBound
