SPECIFICATION Spec
CONSTANTS
    Sizes <- MCSizes
    Small = 1
    BufSize = 4
    Useful = 2
    MaxInput = 2
    MaxWorldSend = 2
    MaxSession = 1
CHECK_DEADLOCK FALSE
INVARIANT
    OutActiveRegistered
