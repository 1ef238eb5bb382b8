SPECIFICATION Spec
CONSTANTS
    s1 = s1
    s2 = s2
    s3 = s3
    s4 = s4
    NoSession = NoSession
    InitLimit = 0
    PLimits <- NoPLimits
    Levels <- NoLevels
    Tolerance = 0
    TimeOut = 1
    Diffs <- NoTime
    Packets <- LoginOnly
    MaxPackets = 1
    MaxNow = 0
    RealmSecurity = 0
    Session <- TwoSessions
    AccountOf <- TwoAccountOf
    Account <- MCAccount
    Security <- Players
INVARIANTS
    OneOnlineCharacter
