SPECIFICATION FairSpec
CONSTANTS
    Sizes <- MCSizes
    Small = 1
    BufSize = 4
    Useful = 1
    MaxInput = 2
    MaxWorldSend = 1
    MaxSession = 2
CHECK_DEADLOCK FALSE
INVARIANTS
    TypeOK
    StreamInOrder
    RefsExact
    SessionUsable
PROPERTIES
    SocketFreed
