SPECIFICATION Spec
CONSTANTS
    MaxConnections = 1
    Threads = {"accept", "io"}
    Acceptor = "accept"
    SecureDeletion = 2
    Expire = 2
    CleanPeriod = 0
    TickModulus = 16
    MaxStall = 0
    MaxHold = 1
    StartTime = 2
    MaxTime = 3
    MaxBorn = 2
CHECK_DEADLOCK FALSE
INVARIANT
    OnlineIsReachable
