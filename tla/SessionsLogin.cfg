SPECIFICATION FairSpec
CONSTANTS
    s1 = s1
    s2 = s2
    s3 = s3
    s4 = s4
    NoSession = NoSession
    InitLimit = 1
    PLimits <- NoPLimits
    Levels <- NoLevels
    Tolerance = 1
    TimeOut = 1
    Diffs <- NoTime
    Packets <- AllPackets
    MaxPackets = 2
    MaxNow = 1
    RealmSecurity = 0
    Session <- TwoSessions
    AccountOf <- TwoAccountOf
    Account <- MCAccount
    Security <- Players
INVARIANTS
    PlayerRecordedOnline
    HaltUnloadsPlayers
PROPERTIES
    LoadingNotReplaced
    ClosedSessionsGo
    
    StopEnds
