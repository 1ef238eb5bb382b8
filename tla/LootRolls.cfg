SPECIFICATION FairSpec
CONSTANTS
    Player <- MCPlayer
    Corpse <- MCCorpse
    Near <- MCNear
    Usable <- MCUsable
    MapOf <- MCMapOf
    MapThreads = 2
    MaxEvent = 1
CHECK_DEADLOCK FALSE
INVARIANTS
    TypeOK
    TotalsExact
    GivenOnce
PROPERTIES
    RollsDecided
