SPECIFICATION Spec
CONSTANTS
    Keys = {k1, k2}
    None = None
    MaxFaults = 0
CHECK_DEADLOCK FALSE
INVARIANT
    SingleLogin
