CONSTANTS
    Clients = {own, other}
    Owner = own
    Adders <- OwnerOnly
    Requests = {r1}
    NoRequest = none
    MaxSteps = 2
    MaxControls = 2
    MaxSpurious = 1
SPECIFICATION Spec
INVARIANTS ChecksHold NoLostWakeup NothingLost
PROPERTY EverythingEnds
CHECK_DEADLOCK FALSE
