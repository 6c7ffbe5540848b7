SPECIFICATION Spec
CONSTANTS
    Keys = {k1, k2, k3}
    None = None
    MaxFaults = 1
CHECK_DEADLOCK FALSE
INVARIANTS
    SupersededIsKicked
PROPERTY
    LeavingStaysOut
