SPECIFICATION FairSpec
CONSTANTS
    N = 1
    Cpe = {TRUE, FALSE}
    MaxExt = 1
    MaxDuplicates = 0
    MaxFaults = 2
    MayRefuse = TRUE
PROPERTIES
    GoneGoesOffline
    LoggedInSpawns
