SPECIFICATION Spec
CONSTANTS
    N = 1
    Cpe = {FALSE}
    MaxExt = 1
    MaxDuplicates = 0
    MaxFaults = 3
    MayRefuse = FALSE
INVARIANT
    TeardownBeforeOffline
