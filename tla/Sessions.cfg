SPECIFICATION MCSpec
CONSTANTS
    N = 2
    Cpe = {TRUE, FALSE}
    MaxExt = 2
    MaxDuplicates = 0
    MaxFaults = 3
    MayRefuse = TRUE
INVARIANTS
    WaitingIsQueued
    
    
