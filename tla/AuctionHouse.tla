---------------------------- MODULE AuctionHouse ----------------------------
(***************************************************************************)
(* The auction house and the mailboxes through which it pays and delivers. *)
(* Items and money leave a player at once, when he sells, bids or mails,   *)
(* and reach a player only by mail.  Every handler runs on the world       *)
(* thread as one step; what is hard is the long sequences: outbidding,     *)
(* raising an own bid, a bid after the time is up, buyout, cancelling,     *)
(* cash on delivery, returned and expired mail, players that are offline.  *)
(*                                                                         *)
(* A mail holds at most one item, and each player has an account of his    *)
(* own.  The rows of a mail and its copy in the mailbox of a player who    *)
(* has opened it are one record: the writes wait in the queue of SqlDelay. *)
(* Mails without item and money, sent so or emptied since, are left out.   *)
(*                                                                         *)
(* The handlers are written for any input, but Next gives them what the    *)
(* game's client sends: an item to take is one the list of mails showed    *)
(* for that mail, and an amount to mail is one a purse can hold.  What a   *)
(* handler does with other ids and amounts is not examined.                *)
(***************************************************************************)
EXTENDS Integers, FiniteSets, Sequences, FiniteSetsExt

CONSTANTS Player, Item, Nobody, NoItem,
          LogTrade,       \* GM.LogTrade
          Purse,          \* what each player has at first
          MaxMoney,       \* MAX_MONEY_AMOUNT
          Deposit, MailCost,
          CutPercent,     \* the cut of the house, by its data and Rate.Auction.Cut
          Word,           \* uint32 arithmetic is modulo Word
          Starts,         \* first bids sellers ask for
          Buyouts,        \* buyout prices, 0 for none
          Gifts,          \* amounts mailed or asked for on delivery
          MaxAuction,     \* bound on auctions
          MaxEvent        \* bound on mails sent or sent back by players, and logouts

ASSUME AuctionConstants ==
    /\ IsFiniteSet(Player) /\ Nobody \notin Player /\ NoItem \notin Item
    /\ LogTrade \in BOOLEAN
    /\ {Purse, MaxMoney, Deposit, MailCost, MaxAuction, MaxEvent} \subseteq Nat
    /\ Purse <= MaxMoney
    /\ Starts \subseteq Nat \ {0} /\ Buyouts \subseteq Nat /\ Gifts \subseteq Nat

\* The configured rate of the cut is not checked: above 100 in all, the profit of the
\* seller would be negative.
ASSUME CutAtMostAll == CutPercent \in 0 .. 100

\* The amounts that are mailed or asked for are amounts of money, and with the postage
\* they fit in a uint32.
ASSUME AmountsFit == Gifts \subseteq 0 .. MaxMoney /\ Word \in Nat /\ MailCost + MaxMoney < Word

VARIABLES
    online,
    opened,    \* players whose mailbox is loaded: m_mailsLoaded
    money,     \* PLAYER_FIELD_COINAGE
    bag,       \* items of each player
    auction,   \* of each item: its AuctionEntry, or NoAuction
    mail,      \* the table mail, by id
    nextMail,  \* GenerateMailID
    ruined,    \* items deleted with a mail
    sold, events

people == <<online, opened>>
vars == <<people, money, bag, auction, mail, nextMail, ruined, sold, events>>

NoAuction == [owner |-> Nobody]

Init ==
    /\ online = Player /\ opened = {}
    /\ money = [p \in Player |-> Purse]
    /\ \E p \in Player : bag = [q \in Player |-> IF q = p THEN Item ELSE {}]
    /\ auction = [i \in Item |-> NoAuction]
    /\ mail = [n \in {} |-> 0] /\ nextMail = 1
    /\ ruined = {} /\ sold = 0 /\ events = 0
-----------------------------------------------------------------------------
(* Mails.                                                                  *)

\* A mail of the auction house; late: its deliver_time is still to come.
AuctionMail(to, coins, item, late) ==
    [to |-> to, from |-> Nobody, normal |-> FALSE, coins |-> coins, cod |-> 0, item |-> item,
     late |-> late, deleted |-> FALSE, returned |-> FALSE]

\* A mail of a player.
PlayerMail(to, from, coins, cod, item, late, returned) ==
    [to |-> to, from |-> from, normal |-> TRUE, coins |-> coins, cod |-> cod, item |-> item,
     late |-> late, deleted |-> FALSE, returned |-> returned]

\* SendMailTo() for each of the mails in ms; those in gone are removed before.
SendAll(gone, ms) ==
    LET kept == DOMAIN mail \ gone
        new  == nextMail .. nextMail + Len(ms) - 1
    IN  /\ mail' = [n \in kept \cup new |-> IF n \in kept THEN mail[n] ELSE ms[n - nextMail + 1]]
        /\ nextMail' = nextMail + Len(ms)

Inbox(p) == {n \in DOMAIN mail : mail[n].to = p}

\* Mutated: no limit.
GainedAll(p, coins) == money[p] + coins

\* ModifyMoney(): a gain stops at the limit, a payment at 0.
Gained(p, coins) == IF money[p] + coins < MaxMoney THEN money[p] + coins ELSE MaxMoney
Paid(p, coins) == IF money[p] > coins THEN money[p] - coins ELSE 0
-----------------------------------------------------------------------------
(* Auctions.                                                               *)

\* HandleAuctionSellItem().
SellItem(p, i, start, buyout) ==
    /\ p \in online /\ i \in bag[p] /\ auction[i] = NoAuction
    /\ money[p] >= Deposit
    /\ sold < MaxAuction /\ sold' = sold + 1
    /\ money' = [money EXCEPT ![p] = Paid(p, Deposit)]
    /\ auction' = [auction EXCEPT ![i] = [owner |-> p, start |-> start, buyout |-> buyout,
                                          bidder |-> Nobody, bid |-> 0, timeUp |-> FALSE]]
    /\ bag' = [bag EXCEPT ![p] = @ \ {i}]
    /\ UNCHANGED <<people, mail, nextMail, ruined, events>>

\* GetAuctionCut() and GetAuctionOutBid().
AuctionCut(a) == (CutPercent * a.bid) \div 100
AuctionOutBid(a) == IF a.bid < 100 THEN 1 ELSE (a.bid \div 100) * 5

\* Mutated: an outbid player gets his money back only if he is online to be told.
OutbiddedMailOnline(a, p) ==
    IF a.bidder \notin {Nobody, p} /\ a.bidder \in online
    THEN <<AuctionMail(a.bidder, a.bid, NoItem, FALSE)>> ELSE <<>>

\* Mutated: one who raises his own bid gets the old one back by mail as well.
OutbiddedMailOwn(a, p) ==
    IF a.bidder # Nobody THEN <<AuctionMail(a.bidder, a.bid, NoItem, FALSE)>> ELSE <<>>

\* SendAuctionOutbiddedMail(), when p bids over another.
OutbiddedMail(a, p) ==
    IF a.bidder \notin {Nobody, p} THEN <<AuctionMail(a.bidder, a.bid, NoItem, FALSE)>> ELSE <<>>

\* SendAuctionSuccessfulMail(): the profit, an hour later.
SuccessfulMail(a) == <<AuctionMail(a.owner, a.bid + Deposit - AuctionCut(a), NoItem, TRUE)>>

\* SendAuctionWonMail(): the account of an offline winner is looked up only for the log
\* of trades, and without it the mail is not sent.
WonMail(a, i) ==
    IF a.bidder \in online \/ LogTrade THEN <<AuctionMail(a.bidder, 0, i, FALSE)>> ELSE <<>>

\* What p pays to make price his bid: the difference if it is his bid that he raises.
PriceFor(p, a, price) == IF a.bidder = p THEN price - a.bid ELSE price

\* Mutated: a price above the buyout is an ordinary bid.
IsBuyoutExact(a, price) == a.buyout # 0 /\ price = a.buyout

IsBuyout(a, price) == a.buyout # 0 /\ price >= a.buyout

\* HandleAuctionPlaceBid(), a bid below the buyout.
PlaceBid(p, i, price) ==
    LET a == auction[i] IN
    /\ p \in online /\ a # NoAuction /\ a.owner # p
    /\ price > a.bid /\ price >= a.start /\ price <= money[p]
    /\ ~IsBuyout(a, price) /\ price >= a.bid + AuctionOutBid(a)
    /\ SendAll({}, OutbiddedMail(a, p))
    /\ money' = [money EXCEPT ![p] = Paid(p, PriceFor(p, a, price))]
    /\ auction' = [auction EXCEPT ![i].bidder = p, ![i].bid = price]
    /\ UNCHANGED <<people, bag, ruined, sold, events>>

\* HandleAuctionPlaceBid(), a buyout.
Buyout(p, i, price) ==
    LET a == auction[i]
        b == [a EXCEPT !.bidder = p, !.bid = a.buyout]
    IN
    /\ p \in online /\ a # NoAuction /\ a.owner # p
    /\ price > a.bid /\ price >= a.start /\ price <= money[p]
    /\ IsBuyout(a, price)
    /\ SendAll({}, OutbiddedMail(a, p) \o SuccessfulMail(b) \o WonMail(b, i))
    /\ money' = [money EXCEPT ![p] = Paid(p, PriceFor(p, a, a.buyout))]
    /\ auction' = [auction EXCEPT ![i] = NoAuction]
    /\ UNCHANGED <<people, bag, ruined, sold, events>>

\* HandleAuctionRemoveItem(): the owner pays the cut of a bid that he refuses.
RemoveItem(p, i) ==
    LET a == auction[i] IN
    /\ p \in online /\ a # NoAuction /\ a.owner = p
    /\ money[p] >= AuctionCut(a)
    /\ SendAll({}, OutbiddedMail(a, p) \o <<AuctionMail(p, 0, i, FALSE)>>)
    /\ money' = [money EXCEPT ![p] = Paid(p, AuctionCut(a))]
    /\ auction' = [auction EXCEPT ![i] = NoAuction]
    /\ UNCHANGED <<people, bag, ruined, sold, events>>

\* expire_time comes; Update() finds the auction later, and bids are taken until then.
TimeUp(i) ==
    /\ auction[i] # NoAuction /\ ~auction[i].timeUp
    /\ auction' = [auction EXCEPT ![i].timeUp = TRUE]
    /\ UNCHANGED <<people, money, bag, mail, nextMail, ruined, sold, events>>

\* Mutated: the item goes back to an owner who is online, sold or not.
UpdateMailsToOwner(a, i) ==
    (IF a.bidder = Nobody \/ a.owner \in online THEN <<AuctionMail(a.owner, 0, i, FALSE)>> ELSE <<>>)
    \o (IF a.bidder # Nobody THEN SuccessfulMail(a) \o WonMail(a, i) ELSE <<>>)

\* What Update() sends for an auction whose time is up.
UpdateMails(a, i) ==
    IF a.bidder = Nobody THEN <<AuctionMail(a.owner, 0, i, FALSE)>>
    ELSE SuccessfulMail(a) \o WonMail(a, i)

\* AuctionHouseObject::Update().
Update(i) ==
    /\ auction[i] # NoAuction /\ auction[i].timeUp
    /\ SendAll({}, UpdateMails(auction[i], i))
    /\ auction' = [auction EXCEPT ![i] = NoAuction]
    /\ UNCHANGED <<people, money, bag, ruined, sold, events>>
-----------------------------------------------------------------------------
(* Mailboxes.                                                              *)

\* reqmoney of HandleSendMail(), a uint32.
PostageAnd(coins) == (MailCost + coins) % Word

\* HandleSendMail(): an item for another account arrives later.  A mail that is refused
\* because the mailbox is full is not sent.
SendMail(p, q, coins, cod, item) ==
    /\ p \in online /\ q # p
    /\ events < MaxEvent /\ events' = events + 1
    /\ money[p] >= PostageAnd(coins)
    /\ item \in bag[p] \cup {NoItem} /\ (item = NoItem => coins > 0)
    /\ money' = [money EXCEPT ![p] = Paid(p, PostageAnd(coins))]
    /\ bag' = [bag EXCEPT ![p] = @ \ {item}]
    /\ SendAll({}, <<PlayerMail(q, p, coins, cod, item, item # NoItem, FALSE)>>)
    /\ UNCHANGED <<people, auction, ruined, sold>>

\* deliver_time comes.
Deliver(n) ==
    /\ mail[n].late /\ mail' = [mail EXCEPT ![n].late = FALSE]
    /\ UNCHANGED <<people, money, bag, auction, nextMail, ruined, sold, events>>

\* HandleGetMail() of a player who has not opened the mailbox yet: _LoadMail().
GetMail(p) ==
    /\ p \in online \ opened /\ opened' = opened \cup {p}
    /\ UNCHANGED <<online, money, bag, auction, mail, nextMail, ruined, sold, events>>

\* _SaveMail(): the deleted mails of p go, with their items.
Discarded(p) == {n \in Inbox(p) : mail[n].deleted}
ItemsOf(S) == {mail[n].item : n \in S} \ {NoItem}

SaveMail(p) ==
    /\ p \in opened /\ Discarded(p) # {}
    /\ SendAll(Discarded(p), <<>>) /\ ruined' = ruined \cup ItemsOf(Discarded(p))
    /\ UNCHANGED <<people, money, bag, auction, sold, events>>

\* The guard of the mail handlers.
Readable(p, n) == p \in opened /\ mail[n].to = p /\ ~mail[n].deleted /\ ~mail[n].late

\* The mailbox after mail n of p has become m and _SaveMail() has run.
SaveWith(p, n, m, ms) ==
    LET empty == m.coins = 0 /\ m.item = NoItem
        gone  == Discarded(p) \cup (IF empty THEN {n} ELSE {})
        kept  == DOMAIN mail \ gone
    IN  /\ mail' = [k \in kept \cup (nextMail .. nextMail + Len(ms) - 1) |->
                      IF k = n THEN m ELSE IF k \in kept THEN mail[k] ELSE ms[k - nextMail + 1]]
        /\ nextMail' = nextMail + Len(ms)
        /\ ruined' = ruined \cup ItemsOf(Discarded(p))

\* HandleTakeMoney().
TakeMoney(p, n) ==
    /\ Readable(p, n) /\ mail[n].coins > 0
    /\ money' = [money EXCEPT ![p] = Gained(p, mail[n].coins)]
    /\ SaveWith(p, n, [mail[n] EXCEPT !.coins = 0], <<>>)
    /\ UNCHANGED <<people, bag, auction, sold, events>>

Taken(m, i) == [m EXCEPT !.item = IF m.item = i THEN NoItem ELSE @, !.cod = 0]

\* The items that HandleGetMail() lists for mail n.
Listed(n) == ItemsOf({n})

\* HandleTakeItem(): the item is looked up in mMitems, the items of all mails of p.  Cash on
\* delivery is paid by mail to the sender.
TakeItem(p, n, i) ==
    LET m   == mail[n]
        pay == IF m.cod > 0 THEN <<PlayerMail(m.from, p, m.cod, 0, NoItem, FALSE, FALSE)>> ELSE <<>>
    IN
    /\ Readable(p, n) /\ i \in ItemsOf(Inbox(p)) /\ money[p] >= m.cod
    /\ money' = [money EXCEPT ![p] = Paid(p, m.cod)]
    /\ bag' = [bag EXCEPT ![p] = @ \cup {i}]
    /\ SaveWith(p, n, Taken(m, i), pay)
    /\ UNCHANGED <<people, auction, sold, events>>

\* HandleMailDelete().
MailDelete(p, n) ==
    /\ p \in opened /\ mail[n].to = p /\ mail[n].cod = 0 /\ ~mail[n].deleted
    /\ mail' = [mail EXCEPT ![n].deleted = TRUE]
    /\ UNCHANGED <<people, money, bag, auction, nextMail, ruined, sold, events>>

\* HandleMarkAsRead() sets the state of the mail to changed, whatever it was.
MarkAsRead(p, n) ==
    /\ p \in opened /\ mail[n].to = p /\ mail[n].deleted
    /\ mail' = [mail EXCEPT ![n].deleted = FALSE]
    /\ UNCHANGED <<people, money, bag, auction, nextMail, ruined, sold, events>>

\* HandleReturnToSender(): a new mail without cash on delivery; mail of the auction
\* house is dropped.
ReturnToSender(p, n) ==
    LET m == mail[n] IN
    /\ Readable(p, n) /\ events < MaxEvent /\ events' = events + 1
    /\ IF m.normal
       THEN /\ SendAll({n}, <<PlayerMail(m.from, p, m.coins, 0, m.item, m.item # NoItem, TRUE)>>)
            /\ UNCHANGED ruined
       ELSE SendAll({n}, <<>>) /\ ruined' = ruined \cup ItemsOf({n})
    /\ UNCHANGED <<people, money, bag, auction, sold>>

\* ReturnOrDeleteOldMails() for a mail whose expire_time has passed.
OldMail(n) ==
    LET m == mail[n] IN
    /\ m.to \notin opened /\ ~m.late
    /\ IF m.item # NoItem /\ m.normal /\ ~m.returned
       THEN /\ mail' = [mail EXCEPT ![n] = PlayerMail(m.from, m.to, m.coins, 0, m.item, FALSE, TRUE)]
            /\ UNCHANGED <<nextMail, ruined>>
       ELSE SendAll({n}, <<>>) /\ ruined' = ruined \cup ItemsOf({n})
    /\ UNCHANGED <<people, money, bag, auction, sold, events>>

\* The player is saved and leaves.
Logout(p) ==
    /\ p \in online /\ events < MaxEvent /\ events' = events + 1
    /\ online' = online \ {p} /\ opened' = opened \ {p}
    /\ IF p \in opened
       THEN SendAll(Discarded(p), <<>>) /\ ruined' = ruined \cup ItemsOf(Discarded(p))
       ELSE UNCHANGED <<mail, nextMail, ruined>>
    /\ UNCHANGED <<money, bag, auction, sold>>

Login(p) ==
    /\ p \notin online /\ online' = online \cup {p}
    /\ UNCHANGED <<opened, money, bag, auction, mail, nextMail, ruined, sold, events>>
-----------------------------------------------------------------------------
Next ==
    \/ \E p \in Player :
          \/ \E i \in Item : \/ RemoveItem(p, i)
                             \/ \E s \in Starts, b \in Buyouts : SellItem(p, i, s, b)
                             \/ \E price \in 1 .. MaxMoney : PlaceBid(p, i, price) \/ Buyout(p, i, price)
          \/ \E q \in Player, coins, cod \in Gifts, item \in bag[p] \cup {NoItem} :
                SendMail(p, q, coins, cod, item)
          \/ GetMail(p) \/ SaveMail(p) \/ Logout(p) \/ Login(p)
          \/ \E n \in DOMAIN mail : \/ TakeMoney(p, n) \/ MailDelete(p, n)
                                    \/ MarkAsRead(p, n) \/ ReturnToSender(p, n)
                                    \/ \E i \in Listed(n) : TakeItem(p, n, i)
    \/ \E i \in Item : TimeUp(i) \/ Update(i)
    \/ \E n \in DOMAIN mail : Deliver(n) \/ OldMail(n)

Spec == Init /\ [][Next]_vars
-----------------------------------------------------------------------------
\* Type invariant.
TypeOK ==
    /\ online \subseteq Player /\ opened \subseteq online
    /\ money \in [Player -> 0 .. MaxMoney] /\ bag \in [Player -> SUBSET Item]
    /\ \A i \in Item : auction[i] # NoAuction =>
         /\ auction[i].owner \in Player /\ auction[i].bidder \in Player \cup {Nobody}
         /\ auction[i].bid \in 0 .. MaxMoney
    /\ DOMAIN mail \subseteq 1 .. nextMail - 1
    /\ \A n \in DOMAIN mail :
         /\ mail[n].to \in Player /\ mail[n].from \in Player \cup {Nobody}
         /\ mail[n].coins \in Nat /\ mail[n].cod \in Nat /\ mail[n].item \in Item \cup {NoItem}
    /\ ruined \subseteq Item

\* An item is in one bag, in one mail, in an auction or deleted, never in two of them and
\* never nowhere, along all the ways by which it is sold, won, returned and taken out of the
\* mail that lists it.
ItemOnce ==
    \A i \in Item :
        Cardinality({p \in Player : i \in bag[p]}) + Cardinality({n \in DOMAIN mail : mail[n].item = i})
        + (IF auction[i] # NoAuction THEN 1 ELSE 0) + (IF i \in ruined THEN 1 ELSE 0) = 1

CoinsOf(S) == MapThenSumSet(LAMBDA n : mail[n].coins, S)
BidsOf(p) ==
    MapThenSumSet(LAMBDA i : auction[i].bid,
                  {i \in Item : auction[i] # NoAuction /\ auction[i].bidder = p})

\* What p has: the purse, the money in his mail, and the bids he may get back.
Worth(p) == money[p] + CoinsOf(Inbox(p)) + BidsOf(p)

\* Bids, refunds, profits, deposits and cash on delivery never make money, as long as the
\* amounts mailed are amounts a purse can hold and the cut is at most the bid.
NoMoneyMade ==
    MapThenSumSet(Worth, Player) + Deposit * Cardinality({i \in Item : auction[i] # NoAuction})
        <= Purse * Cardinality(Player)

\* A standing bid is below the buyout and at least what was asked: the uint32 difference
\* paid by one who buys out over his own bid does not wrap, and nobody bids for himself.
BidBelowBuyout ==
    \A i \in Item : LET a == auction[i] IN
        a # NoAuction /\ a.bidder # Nobody =>
            a.bid >= a.start /\ (a.buyout = 0 \/ a.bid < a.buyout) /\ a.bidder # a.owner

\* Whatever changes in an auction, nobody but its owner is poorer for it, unless the item
\* is on its way to him: who is outbid, bought out or refused has his bid again, and who
\* raises his own bid pays the difference.
PaidForItem ==
    [][\A i \in Item : auction'[i] # auction[i] =>
         \A p \in Player :
            \/ Worth(p)' >= Worth(p)
            \/ p \in {auction[i].owner, auction'[i].owner}
            \/ \E n \in DOMAIN mail' : mail'[n].item = i /\ mail'[n].to = p]_vars

\* When an auction with a bid ends, its item is mailed: to the winner, as the comment in
\* Update() says, or back to an owner who removes it.
WinnerGetsItem ==
    [][\A i \in Item :
         (auction[i] # NoAuction /\ auction'[i] = NoAuction /\ auction[i].bidder # Nobody)
            => \E n \in DOMAIN mail' : mail'[n].item = i]_vars
=============================================================================
