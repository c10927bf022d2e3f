SPECIFICATION Spec
CONSTANTS
    Calls = {c1, c2}
    Accounts = {k1, k2, k3}
    Partial = {k3}
    Inodes = {i1, i2, i3, i4}
    None = None
INVARIANTS ConfigWhole OKMeansSaved
PROPERTIES NeverWithoutAccount
