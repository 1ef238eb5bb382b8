SPECIFICATION Spec
CONSTANTS
    Player = {ann, ben, cid}
    Nobody = Nobody
    Item = {sword}
    NoItem = NoItem
    LogTrade = TRUE
    Purse = 3
    MaxMoney = 3
    Deposit = 1
    CutPercent = 50
    MailCost = 1
    Word = 8
    Starts = {1}
    Buyouts = {0, 2}
    Gifts = {0, 1}
    MaxAuction = 1
    MaxEvent = 2
SYMMETRY Symmetry
CHECK_DEADLOCK FALSE
INVARIANTS
    TypeOK
    
    
    BidBelowBuyout
PROPERTIES
    PaidForItem
