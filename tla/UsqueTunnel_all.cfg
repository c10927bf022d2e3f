SPECIFICATION Spec
CONSTANTS
    Slots = {s1, s2}
    NoSlot = NoSlot
    AlwaysReconnect = FALSE
    Transports = {"h2", "h3"}
    MaxPackets = 1
CHECK_DEADLOCK FALSE
INVARIANTS OneConnection StaleCannotForward ErrorsFit
PROPERTIES ImplementsLink LossLeadsToReconnect StopReleasesStream LateReadyIsTakenBack
