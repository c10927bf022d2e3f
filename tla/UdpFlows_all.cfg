SPECIFICATION Spec
CONSTANTS
    Keys = {k1, k2}
    Conns = {n1, n2, n3}
    Workers = {w1, w2}
    MaxFlows = 1
    None = None
CHECK_DEADLOCK FALSE
INVARIANTS FlowHasReader DeletesOwn NothingAfterSweep FlowsBounded
PROPERTIES CloseReturns AllReleased
