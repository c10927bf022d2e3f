SPECIFICATION Spec
CONSTANTS
    Callers = {c1, c2}
    Sess = {s1}
    Relays = {r1, r2}
    Default = Default
    None = None
PROPERTIES CallsReturn
