SPECIFICATION MCSpec
CONSTANTS
    Calls = {c1, c2}
    Ids = {t1, t2}
    Probes = {p1, p2}
    Parallel = 1
    MaxHosts = 3
    None = None
INVARIANTS NoLeak
PROPERTIES ExitsByInner CallsReturn
