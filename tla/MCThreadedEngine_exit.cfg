CONSTANTS
    Clients = {own, other}
    Owner = own
    Adders <- OwnerOnly
    Requests = {r1}
    NoRequest = none
    MaxSteps = 2
    MaxControls = 0
    MaxSpurious = 0
SPECIFICATION Spec
PROPERTY BothExit
CHECK_DEADLOCK FALSE
