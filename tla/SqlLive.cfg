SPECIFICATION FairSpec
CONSTANTS
    world = world
    net = net
    NoThread = NoThread
    Threads <- MCThreads
    Readers <- MCReaders
    Capacity = 2
    MaxWrites <- WorldTwo
    MaxTrans <- WorldTwo
    MaxDirect <- NetOne
    MaxQueries <- WorldTwo
    HolderSize = 2
    Refusable <- Commands
INVARIANTS
    QueryReadsOwnWrites
    DirectWriteFate
PROPERTIES
    AnswersInOrder
    WritesSettle
    QueriesAnswered
    HaltEnds
