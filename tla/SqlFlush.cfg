SPECIFICATION Spec
CONSTANTS
    world = world
    net = net
    NoThread = NoThread
    Threads <- MCThreads
    Readers <- MCReaders
    Capacity = 1
    MaxWrites <- WorldTwo
    MaxTrans <- WorldTwo
    MaxDirect <- None
    MaxQueries <- None
    HolderSize = 1
    Refusable = {}
INVARIANTS
    FlushedAtHalt
