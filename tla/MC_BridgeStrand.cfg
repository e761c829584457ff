CONSTANT
    Traces <- StrandTraces
SPECIFICATION Spec
INVARIANT
    NoStrandedReader
CHECK_DEADLOCK FALSE
