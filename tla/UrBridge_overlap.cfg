SPECIFICATION Spec
CONSTANTS
    Callers = {a1, a2}
    Sessions = {s1, s2}
    Proxies = {p1}
    Direct = Direct
    None = None
INVARIANTS DialsFollowUpstream
