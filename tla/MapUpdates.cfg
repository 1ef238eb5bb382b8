SPECIFICATION FairSpec
CONSTANTS
    w1 = w1
    w2 = w2
    w3 = w3
    m1 = m1
    m2 = m2
    m3 = m3
    NoMap = NoMap
    Worker <- MCWorker
    Map <- MCMap
    Links <- MCLinks
    Capacity = 1
INVARIANTS
    TypeOK
    PendingExact
    WorldAlone
    EachMapOnce
PROPERTIES
    WaitsEnd
