SPECIFICATION Spec
CONSTANTS
    MaxConnections = 2
    Threads = {"accept", "io"}
    Acceptor = "accept"
    SecureDeletion = 3
    Expire = 3
    CleanPeriod = 3
    TickModulus = 4
    MaxStall = 1
    MaxHold = 0
    StartTime = 3
    MaxTime = 7
    MaxBorn = 2
CHECK_DEADLOCK FALSE
INVARIANTS
    CountMatchesSlots
    WalkFindsObject
    TaskPointerIsAlive
    KeyFindsItsConnection
    OnlineStaysReachable
PROPERTY
    ImplementsLife
