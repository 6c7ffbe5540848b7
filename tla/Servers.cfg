SPECIFICATION ServersSpec
CONSTANTS
    Game = "game"
    Others <- Fetched
    MaxChanges = 1
    Threads = {"t1", "t2"}
    Clients = {"c1", "c2"}
    Requests = {"r1", "r2"}
    MaxResults = 2
    MaxThrows = 1
    MaxRefusals = 1
    Base = 4
    ChunkSize = 3
    Numbers <- SampleNumbers
    Strings <- SampleStrings
    MaxLevel = 9
    Letters = {"d", "a"}
    CommandSize = 6
    NameSize = 2
    PacketSize <- ShortPackets
    Cut = 4
    MaxExtra = 2
CHECK_DEADLOCK FALSE
INVARIANTS
    LearnedWasAnnounced
    RoundTrip
    
    
    AnsweredOnce
    OneNotification
    OneAccept
PROPERTIES
    ServersStart
    RouterKnowsAll
    
