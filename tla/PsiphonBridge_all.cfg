SPECIFICATION MCSpec
CONSTANTS
    t1 = t1 t2 = t2 t3 = t3 c1 = c1 c2 = c2
    Tunnels = {t1, t2, t3}
    Server <- MCServer
    Workers = {w1}
    Sizes = {1, 2}
    ConnectedCap = 1
    FailedCap = 2
    Callers = {c1, c2}
    None = None
INVARIANTS NoTunnelLeak EstablishesWhileShort PoolOfOne StatusTruthful
PROPERTIES CallsReturn
CHECK_DEADLOCK FALSE
