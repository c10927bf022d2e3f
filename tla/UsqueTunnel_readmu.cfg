SPECIFICATION Spec
CONSTANTS
    Slots = {s1, s2}
    NoSlot = NoSlot
    AlwaysReconnect = TRUE
    Transports = {"h3"}
    MaxPackets = 1
CHECK_DEADLOCK FALSE
INVARIANTS OneDeviceReader
