SPECIFICATION Spec
CONSTANTS
    s1 = s1
    s2 = s2
    s3 = s3
    s4 = s4
    NoSession = NoSession
    InitLimit = 2
    PLimits <- UpAndDown
    Levels = {1}
    Tolerance = 0
    TimeOut = 1
    Diffs <- SomeTime
    Packets <- NoPackets
    MaxPackets = 0
    MaxNow = 0
    RealmSecurity = 0
    Session <- FourSessions
    AccountOf <- FourAccountOf
    Account <- MCAccount
    Security <- OneGM
INVARIANTS
    TypeOK
    ListsConsistent
    NobodyWaitsInVain
PROPERTIES
    LimitRespected
    FirstComeFirstServed
