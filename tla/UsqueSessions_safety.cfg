SPECIFICATION Spec
CONSTANTS
    Callers = {c1, c2}
    Sess = {s1, s2}
    Relays = {r1, r2}
    Default = Default
    None = None
SYMMETRY Perms
INVARIANTS NoOrphan OneCloser RelayOwned IdLeadsToOwn
