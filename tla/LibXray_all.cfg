SPECIFICATION MCSpec
CONSTANTS
    NItems = 2
    NOutbounds = 3
    Tags = {"proxy", "b"}
    Calls = {c1, c2}
    Servers = {s1, s2, s3, "batch"}
    None = None
INVARIANTS DependenciesExact BatchComplete NoServerLeak OwnDialer
PROPERTIES BatchReturns
