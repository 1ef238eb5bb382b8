SPECIFICATION Spec
CONSTANTS
    world = world
    net = net
    NoThread = NoThread
    Threads <- MCThreads
    Readers <- MCReaders
    Capacity = 2
    MaxWrites <- Two
    MaxTrans <- Two
    MaxDirect <- None
    MaxQueries <- None
    HolderSize = 1
    Refusable <- Commands
INVARIANTS
    TypeOK
    ThreadOrder
    TransactionAtomic
    NothingForgotten
