CONSTANT
    Traces <- MCTraces
SPECIFICATION Spec
INVARIANT
    EventsDeliveredInOrder
CHECK_DEADLOCK FALSE
