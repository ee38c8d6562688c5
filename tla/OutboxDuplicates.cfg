SPECIFICATION Spec
CONSTANTS
    Events = {1}
    Relays = {w1, w2}
    Subscribers = 2
    BatchLimit = 2
    LeaseTicks = 1
    Poison = {}
    MaxFaults = 1
SYMMETRY RelaySymmetry
INVARIANT HandlersDedupe
CHECK_DEADLOCK FALSE
