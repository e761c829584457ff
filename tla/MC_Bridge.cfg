CONSTANT
    Traces <- MCTraces
SPECIFICATION Spec
INVARIANTS
    BridgeTypeOK
    NoStrandedReader
CHECK_DEADLOCK FALSE
