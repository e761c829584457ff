CONSTANTS
    Pcs = {1, 2}
    Ctxs = {0}
    Traces <- MCTraces
    MaxRuns = 4
SPECIFICATION Spec
CHECK_DEADLOCK FALSE
INVARIANT
    FirstVisitJudgedFresh
