CONSTANT
    Traces <- MCTraces
SPECIFICATION Spec
INVARIANT
    SessionIsOneTrace
CHECK_DEADLOCK FALSE
