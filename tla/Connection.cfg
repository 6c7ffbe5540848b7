SPECIFICATION ConnectionSpec
CONSTANTS
    Writers = {"w1", "w2"}
    Capacity = 4
    Sizes = {1, 3}
    MaxBytes = 7
    Posters = {"block", "chat"}
    Leveler = "block"
    Events = {"e1"}
    MaxPosts = 2
    MaxEofs = 1
    Kinds = {"hello", "ping", "info", "entry", "junk"}
    Size <- SizeOf
    Room = 2
    Counts <- CountValues
    CountMod = 8
    MaxPackets = 3
    MaxFailures = 1
CHECK_DEADLOCK FALSE
INVARIANTS
    NothingLost
    PoolIsConsistent
    NothingVanishes
    HandledInOrder
    
    SyncedWhenAnnounced
PROPERTIES
    EverythingSent
    EventComesBack
    EverythingHandled
