------------------------- MODULE AuctionHouseProofs -------------------------
(***************************************************************************)
(* The invariants and action properties of AuctionHouse, for any number of *)
(* players, items, auctions and mails and any prices: types, bids below    *)
(* the buyout, where an item is, and, with sums over all mails and         *)
(* auctions, that no money is made, that a bid is spent only on its item   *)
(* and that a winner is sent his.                                          *)
(***************************************************************************)
EXTENDS AuctionHouse, DataLemmas

AuctionEntry ==
    [owner : Player, start : Nat \ {0}, buyout : Nat, bidder : Player \cup {Nobody},
     bid : 0 .. MaxMoney, timeUp : BOOLEAN]

MailRow ==
    [to : Player, from : Player \cup {Nobody}, normal : BOOLEAN, coins : Nat, cod : Nat,
     item : Item \cup {NoItem}, late : BOOLEAN, deleted : BOOLEAN, returned : BOOLEAN]

\* A mail that can go back, or be paid for, was sent by a player.
Rows == {m \in MailRow : (m.normal \/ m.cod > 0) => m.from \in Player}

PurseTypes ==
    /\ online \subseteq Player /\ opened \subseteq online
    /\ money \in [Player -> 0 .. MaxMoney] /\ bag \in [Player -> SUBSET Item]
    /\ ruined \subseteq Item
AuctionTypes == auction \in [Item -> AuctionEntry \cup {NoAuction}]
MailTypes ==
    /\ nextMail \in Nat \ {0}
    /\ mail \in [DOMAIN mail -> Rows] /\ DOMAIN mail \subseteq 1 .. nextMail - 1

\* The inductive invariant.
IInv == PurseTypes /\ AuctionTypes /\ MailTypes /\ BidBelowBuyout
-----------------------------------------------------------------------------
(* Mails and money.                                                        *)

\* SendMailTo() keeps the table a table of mails, whatever is removed first.
LEMMA SendAllTyped ==
    ASSUME MailTypes, NEW gone, NEW ms \in Seq(Rows), SendAll(gone, ms)
    PROVE  MailTypes'
<1> DEFINE kept == DOMAIN mail \ gone
           new  == nextMail .. nextMail + Len(ms) - 1
<1>1. Len(ms) \in Nat /\ \A k \in 1 .. Len(ms) : ms[k] \in Rows
  OBVIOUS
<1>2. \A n \in kept : mail[n] \in Rows
  BY DEF MailTypes
<1>3. \A n \in new \ kept : n - nextMail + 1 \in 1 .. Len(ms)
  BY <1>1 DEF MailTypes
<1>4. mail' = [n \in kept \cup new |-> IF n \in kept THEN mail[n] ELSE ms[n - nextMail + 1]]
  BY DEF SendAll
<1>5. nextMail' = nextMail + Len(ms)
  BY DEF SendAll
<1>6. mail' \in [kept \cup new -> Rows] /\ DOMAIN mail' = kept \cup new
  BY <1>1, <1>2, <1>3, <1>4
<1>7. kept \cup new \subseteq 1 .. nextMail' - 1 /\ nextMail' \in Nat \ {0}
  BY <1>1, <1>5 DEF MailTypes
<1> QED
  BY <1>6, <1>7 DEF MailTypes

\* _SaveMail() after a mail has changed does so too.
LEMMA SaveWithTyped ==
    ASSUME MailTypes, NEW p \in Player, NEW n \in DOMAIN mail, NEW m \in Rows,
           NEW ms \in Seq(Rows), SaveWith(p, n, m, ms)
    PROVE  MailTypes'
<1> DEFINE gone == Discarded(p) \cup (IF m.coins = 0 /\ m.item = NoItem THEN {n} ELSE {})
           kept == DOMAIN mail \ gone
           new  == nextMail .. nextMail + Len(ms) - 1
<1>1. Len(ms) \in Nat /\ \A k \in 1 .. Len(ms) : ms[k] \in Rows
  OBVIOUS
<1>2. \A k \in kept : mail[k] \in Rows
  BY DEF MailTypes
<1>3. \A k \in new \ kept : k - nextMail + 1 \in 1 .. Len(ms)
  BY <1>1 DEF MailTypes
<1>4. mail' = [k \in kept \cup new |->
                 IF k = n THEN m ELSE IF k \in kept THEN mail[k] ELSE ms[k - nextMail + 1]]
  BY DEF SaveWith
<1>5. nextMail' = nextMail + Len(ms)
  BY DEF SaveWith
<1>6. mail' \in [kept \cup new -> Rows] /\ DOMAIN mail' = kept \cup new
  BY <1>1, <1>2, <1>3, <1>4
<1>7. kept \cup new \subseteq 1 .. nextMail' - 1 /\ nextMail' \in Nat \ {0}
  BY <1>1, <1>5 DEF MailTypes
<1> QED
  BY <1>6, <1>7 DEF MailTypes

\* ModifyMoney() keeps a purse within its limits.
LEMMA PurseBounds ==
    ASSUME money \in [Player -> 0 .. MaxMoney], NEW p \in Player, NEW c \in Nat
    PROVE  Gained(p, c) \in 0 .. MaxMoney /\ Paid(p, c) \in 0 .. MaxMoney
BY AuctionConstants DEF Gained, Paid

\* The cut is at most the price: the seller's profit is not negative.
LEMMA CutBound ==
    ASSUME NEW b \in Nat
    PROVE  (CutPercent * b) \div 100 \in 0 .. b
<1> DEFINE x == CutPercent * b
<1>1. CutPercent \in 0 .. 100
  BY CutAtMostAll
<1>2. x \in Nat /\ x <= 100 * b
  BY <1>1, SMT
<1> HIDE DEF x
<1>3. x \div 100 \in 0 .. b
  BY <1>2, SMT
<1> QED
  BY <1>3 DEF x

\* What _SaveMail() deletes are items.
LEMMA ItemsOfTyped ==
    ASSUME MailTypes, NEW S \in SUBSET DOMAIN mail
    PROVE  ItemsOf(S) \subseteq Item
BY DEF ItemsOf, MailTypes, Rows, MailRow
-----------------------------------------------------------------------------
(* What the auction house mails.                                           *)

\* One mail, or none, is a sequence of mails.
LEMMA OneOrNone ==
    ASSUME NEW S, NEW x
    PROVE  <<>> \in Seq(S) /\ (x \in S => <<x>> \in Seq(S))
OBVIOUS

LEMMA BothTyped ==
    ASSUME NEW S, NEW s \in Seq(S), NEW t \in Seq(S)
    PROVE  s \o t \in Seq(S)
OBVIOUS

\* Each kind of mail is a row of the table.
LEMMA AuctionMailTyped ==
    ASSUME NEW to \in Player, NEW c \in Nat, NEW i \in Item \cup {NoItem}, NEW l \in BOOLEAN
    PROVE  AuctionMail(to, c, i, l) \in Rows
BY DEF AuctionMail, Rows, MailRow

LEMMA PlayerMailTyped ==
    ASSUME NEW to \in Player, NEW from \in Player, NEW c \in Nat, NEW cod \in Nat,
           NEW i \in Item \cup {NoItem}, NEW l \in BOOLEAN, NEW r \in BOOLEAN
    PROVE  PlayerMail(to, from, c, cod, i, l, r) \in Rows
BY DEF PlayerMail, Rows, MailRow

LEMMA OutbiddedTyped ==
    ASSUME NEW a \in AuctionEntry, NEW p \in Player
    PROVE  OutbiddedMail(a, p) \in Seq(Rows)
<1>1. a.bidder \in Player \cup {Nobody} /\ a.bid \in Nat
  BY AuctionConstants DEF AuctionEntry
<1>2. CASE a.bidder \in {Nobody, p}
  BY <1>2, OneOrNone DEF OutbiddedMail
<1>3. CASE a.bidder \notin {Nobody, p}
  <2>1. AuctionMail(a.bidder, a.bid, NoItem, FALSE) \in Rows
    BY <1>1, <1>3, AuctionMailTyped
  <2> QED
    BY <1>3, <2>1, OneOrNone DEF OutbiddedMail
<1> QED
  BY <1>2, <1>3

LEMMA SuccessfulTyped ==
    ASSUME NEW a, a.owner \in Player, a.bid \in Nat
    PROVE  SuccessfulMail(a) \in Seq(Rows)
<1>1. AuctionCut(a) \in 0 .. a.bid
  BY CutBound DEF AuctionCut
<1>2. a.bid + Deposit - AuctionCut(a) \in Nat
  BY <1>1, AuctionConstants
<1>3. AuctionMail(a.owner, a.bid + Deposit - AuctionCut(a), NoItem, TRUE) \in Rows
  BY <1>2, AuctionMailTyped
<1> QED
  BY <1>3, OneOrNone DEF SuccessfulMail

LEMMA WonTyped ==
    ASSUME NEW a, a.bidder \in Player, NEW i \in Item
    PROVE  WonMail(a, i) \in Seq(Rows)
<1>1. AuctionMail(a.bidder, 0, i, FALSE) \in Rows
  BY AuctionMailTyped
<1> QED
  BY <1>1, OneOrNone DEF WonMail
-----------------------------------------------------------------------------
(* The initial states.                                                     *)

LEMMA InitIInv == Init => IInv
<1> SUFFICES ASSUME Init PROVE IInv
  OBVIOUS
<1>1. PurseTypes
  BY AuctionConstants DEF Init, PurseTypes
<1>2. AuctionTypes
  BY DEF Init, AuctionTypes
<1>3. MailTypes
  BY DEF Init, MailTypes
<1>4. BidBelowBuyout
  BY DEF Init, BidBelowBuyout
<1> QED
  BY <1>1, <1>2, <1>3, <1>4 DEF IInv
-----------------------------------------------------------------------------
(* The steps that change an auction.                                       *)

\* An entry in the table, and what its fields are.
LEMMA EntryTyped ==
    ASSUME AuctionTypes, NEW i \in Item, auction[i] # NoAuction
    PROVE  auction[i] \in AuctionEntry
BY DEF AuctionTypes

LEMMA SellItemStep ==
    ASSUME IInv, NEW p \in Player, NEW i \in Item, NEW s \in Starts, NEW b \in Buyouts,
           SellItem(p, i, s, b)
    PROVE  IInv'
<1> DEFINE a == [owner |-> p, start |-> s, buyout |-> b, bidder |-> Nobody, bid |-> 0,
                 timeUp |-> FALSE]
<1>1. a \in AuctionEntry
  BY AuctionConstants DEF AuctionEntry
<1>2. auction' = [auction EXCEPT ![i] = a]
  BY DEF SellItem
<1>3. AuctionTypes'
  BY <1>1, <1>2 DEF IInv, AuctionTypes
<1>4. BidBelowBuyout'
  <2> SUFFICES ASSUME NEW j \in Item, auction'[j] # NoAuction, auction'[j].bidder # Nobody
               PROVE  /\ auction'[j].bid >= auction'[j].start
                      /\ auction'[j].buyout = 0 \/ auction'[j].bid < auction'[j].buyout
                      /\ auction'[j].bidder # auction'[j].owner
    BY DEF BidBelowBuyout
  <2>1. j # i
    BY <1>2 DEF IInv, AuctionTypes
  <2>2. auction'[j] = auction[j]
    BY <1>2, <2>1 DEF IInv, AuctionTypes
  <2> QED
    BY <2>2 DEF IInv, BidBelowBuyout
<1>5. Paid(p, Deposit) \in 0 .. MaxMoney
  BY PurseBounds, AuctionConstants DEF IInv, PurseTypes
<1>6. PurseTypes'
  BY <1>5 DEF SellItem, people, IInv, PurseTypes
<1>7. MailTypes'
  BY DEF SellItem, IInv, MailTypes
<1> QED
  BY <1>3, <1>4, <1>6, <1>7 DEF IInv

LEMMA PlaceBidStep ==
    ASSUME IInv, NEW p \in Player, NEW i \in Item, NEW price \in 1 .. MaxMoney,
           PlaceBid(p, i, price)
    PROVE  IInv'
<1> DEFINE a == auction[i]
           b == [a EXCEPT !.bidder = p, !.bid = price]
<1>1. a \in AuctionEntry /\ a # NoAuction /\ a.owner # p
  BY EntryTyped DEF PlaceBid, IInv
<1>2. price \in 0 .. MaxMoney /\ price \in Nat /\ price > a.bid /\ price >= a.start /\ ~IsBuyout(a, price)
  BY AuctionConstants DEF PlaceBid
<1>3. b \in AuctionEntry /\ b.bidder = p /\ b.bid = price /\ b.owner = a.owner
      /\ b.start = a.start /\ b.buyout = a.buyout
  BY <1>1, <1>2 DEF AuctionEntry
<1>4. auction' = [auction EXCEPT ![i] = b]
  BY <1>1 DEF PlaceBid, IInv, AuctionTypes
<1>5. AuctionTypes'
  BY <1>3, <1>4 DEF IInv, AuctionTypes
<1>6. BidBelowBuyout'
  <2> SUFFICES ASSUME NEW j \in Item, auction'[j] # NoAuction, auction'[j].bidder # Nobody
               PROVE  /\ auction'[j].bid >= auction'[j].start
                      /\ auction'[j].buyout = 0 \/ auction'[j].bid < auction'[j].buyout
                      /\ auction'[j].bidder # auction'[j].owner
    BY DEF BidBelowBuyout
  <2>1. CASE j = i
    <3>1. auction'[j] = b
      BY <1>4, <2>1 DEF IInv, AuctionTypes
    <3>2. a.buyout \in Nat
      BY <1>1 DEF AuctionEntry
    <3>3. a.buyout = 0 \/ price < a.buyout
      BY <1>2, <3>2 DEF IsBuyout
    <3> QED
      BY <1>1, <1>2, <1>3, <3>1, <3>3
  <2>2. CASE j # i
    <3>1. auction'[j] = auction[j]
      BY <1>4, <2>2 DEF IInv, AuctionTypes
    <3> QED
      BY <3>1 DEF IInv, BidBelowBuyout
  <2> QED
    BY <2>1, <2>2
<1>7. PriceFor(p, a, price) \in Nat
  <2>1. a.bid \in Nat
    BY <1>1, AuctionConstants DEF AuctionEntry
  <2> QED
    BY <1>2, <2>1 DEF PriceFor
<1>8. Paid(p, PriceFor(p, a, price)) \in 0 .. MaxMoney
  BY <1>7, PurseBounds DEF IInv, PurseTypes
<1>9. PurseTypes'
  BY <1>8 DEF PlaceBid, people, IInv, PurseTypes
<1>10. MailTypes'
  BY <1>1, OutbiddedTyped, SendAllTyped DEF PlaceBid, IInv
<1> QED
  BY <1>5, <1>6, <1>9, <1>10 DEF IInv

\* An auction that ends leaves the others as they are.
LEMMA AuctionEnds ==
    ASSUME AuctionTypes, BidBelowBuyout, NEW i \in Item,
           auction' = [auction EXCEPT ![i] = NoAuction]
    PROVE  AuctionTypes' /\ BidBelowBuyout'
<1>1. AuctionTypes'
  BY DEF AuctionTypes
<1>2. ASSUME NEW j \in Item, auction'[j] # NoAuction
      PROVE  auction'[j] = auction[j]
  BY <1>2 DEF AuctionTypes
<1>3. BidBelowBuyout'
  BY <1>2 DEF BidBelowBuyout
<1> QED
  BY <1>1, <1>3

LEMMA BuyoutStep ==
    ASSUME IInv, NEW p \in Player, NEW i \in Item, NEW price \in 1 .. MaxMoney,
           Buyout(p, i, price)
    PROVE  IInv'
<1> DEFINE a == auction[i]
           b == [a EXCEPT !.bidder = p, !.bid = a.buyout]
           ms == OutbiddedMail(a, p) \o SuccessfulMail(b) \o WonMail(b, i)
<1>1. a \in AuctionEntry /\ a # NoAuction /\ a.owner # p
  BY EntryTyped DEF Buyout, IInv
<1>2. b.owner \in Player /\ b.bidder \in Player /\ b.bid \in Nat
  BY <1>1 DEF AuctionEntry
<1>3. OutbiddedMail(a, p) \in Seq(Rows) /\ SuccessfulMail(b) \in Seq(Rows)
      /\ WonMail(b, i) \in Seq(Rows)
  BY <1>1, <1>2, OutbiddedTyped, SuccessfulTyped, WonTyped
<1>4. ms \in Seq(Rows)
  BY <1>3
<1>5. MailTypes'
  BY <1>4, SendAllTyped DEF Buyout, IInv
<1>6. PriceFor(p, a, a.buyout) \in Nat
  <2>1. a.bid \in Nat /\ a.buyout \in Nat /\ (a.bidder = p => a.bidder # Nobody)
    BY <1>1, AuctionConstants DEF AuctionEntry
  <2>2. a.buyout # 0
    BY DEF Buyout, IsBuyout
  <2>3. a.bidder = p => a.bid < a.buyout
    BY <1>1, <2>1, <2>2 DEF IInv, BidBelowBuyout
  <2> QED
    BY <2>1, <2>3 DEF PriceFor
<1>7. Paid(p, PriceFor(p, a, a.buyout)) \in 0 .. MaxMoney
  BY <1>6, PurseBounds DEF IInv, PurseTypes
<1>8. PurseTypes'
  BY <1>7 DEF Buyout, people, IInv, PurseTypes
<1> QED
  BY <1>5, <1>8, AuctionEnds DEF Buyout, IInv

LEMMA RemoveItemStep ==
    ASSUME IInv, NEW p \in Player, NEW i \in Item, RemoveItem(p, i)
    PROVE  IInv'
<1> DEFINE a == auction[i]
           ms == OutbiddedMail(a, p) \o <<AuctionMail(p, 0, i, FALSE)>>
<1>1. a \in AuctionEntry
  BY EntryTyped DEF RemoveItem, IInv
<1>2. OutbiddedMail(a, p) \in Seq(Rows)
  BY <1>1, OutbiddedTyped
<1>3. <<AuctionMail(p, 0, i, FALSE)>> \in Seq(Rows)
  BY AuctionMailTyped, OneOrNone
<1>4. ms \in Seq(Rows)
  BY <1>2, <1>3, BothTyped
<1>5. MailTypes'
  BY <1>4, SendAllTyped DEF RemoveItem, IInv
<1>6. AuctionCut(a) \in Nat
  <2>1. a.bid \in Nat
    BY <1>1, AuctionConstants DEF AuctionEntry
  <2> QED
    BY <2>1, CutBound DEF AuctionCut
<1>7. Paid(p, AuctionCut(a)) \in 0 .. MaxMoney
  BY <1>6, PurseBounds DEF IInv, PurseTypes
<1>8. PurseTypes'
  BY <1>7 DEF RemoveItem, people, IInv, PurseTypes
<1> QED
  BY <1>5, <1>8, AuctionEnds DEF RemoveItem, IInv

LEMMA TimeUpStep ==
    ASSUME IInv, NEW i \in Item, TimeUp(i)
    PROVE  IInv'
<1> DEFINE a == auction[i]
           b == [a EXCEPT !.timeUp = TRUE]
<1>1. a \in AuctionEntry /\ a # NoAuction
  BY EntryTyped DEF TimeUp, IInv
<1>2. b \in AuctionEntry /\ b.bidder = a.bidder /\ b.bid = a.bid /\ b.owner = a.owner
      /\ b.start = a.start /\ b.buyout = a.buyout
  BY <1>1 DEF AuctionEntry
<1>3. auction' = [auction EXCEPT ![i] = b]
  BY DEF TimeUp
<1>4. AuctionTypes'
  BY <1>2, <1>3 DEF IInv, AuctionTypes
<1>5. \A j \in Item : auction'[j] = IF j = i THEN b ELSE auction[j]
  BY <1>3 DEF IInv, AuctionTypes
<1>6. BidBelowBuyout'
  BY <1>1, <1>2, <1>5 DEF IInv, BidBelowBuyout
<1>7. PurseTypes' /\ MailTypes'
  BY DEF TimeUp, people, IInv, PurseTypes, MailTypes
<1> QED
  BY <1>4, <1>6, <1>7 DEF IInv

LEMMA UpdateStep ==
    ASSUME IInv, NEW i \in Item, Update(i)
    PROVE  IInv'
<1> DEFINE a == auction[i]
<1>1. a \in AuctionEntry
  BY EntryTyped DEF Update, IInv
<1>2. a.owner \in Player /\ a.bidder \in Player \cup {Nobody} /\ a.bid \in Nat
  BY <1>1, AuctionConstants DEF AuctionEntry
<1>3. UpdateMails(a, i) \in Seq(Rows)
  <2>1. CASE a.bidder = Nobody
    <3>1. AuctionMail(a.owner, 0, i, FALSE) \in Rows
      BY <1>2, AuctionMailTyped
    <3> QED
      BY <2>1, <3>1, OneOrNone DEF UpdateMails
  <2>2. CASE a.bidder # Nobody
    <3>1. SuccessfulMail(a) \in Seq(Rows) /\ WonMail(a, i) \in Seq(Rows)
      BY <1>2, <2>2, SuccessfulTyped, WonTyped
    <3>2. SuccessfulMail(a) \o WonMail(a, i) \in Seq(Rows)
      BY <3>1
    <3> QED
      BY <2>2, <3>2 DEF UpdateMails
  <2> QED
    BY <2>1, <2>2
<1>4. MailTypes'
  BY <1>3, SendAllTyped DEF Update, IInv
<1>5. PurseTypes'
  BY DEF Update, people, IInv, PurseTypes
<1> QED
  BY <1>4, <1>5, AuctionEnds DEF Update, IInv
-----------------------------------------------------------------------------
(* The steps of the mailboxes.                                             *)

\* The auctions are as they were.
LEMMA AuctionsKept ==
    ASSUME AuctionTypes, BidBelowBuyout, UNCHANGED auction
    PROVE  AuctionTypes' /\ BidBelowBuyout'
BY DEF AuctionTypes, BidBelowBuyout

LEMMA RowTyped ==
    ASSUME MailTypes, NEW n \in DOMAIN mail
    PROVE  mail[n] \in Rows /\ mail[n] \in MailRow
BY DEF MailTypes, Rows

\* One mail is changed in place.
LEMMA RowChanged ==
    ASSUME MailTypes, NEW n \in DOMAIN mail, NEW m \in Rows,
           mail' = [mail EXCEPT ![n] = m], UNCHANGED nextMail
    PROVE  MailTypes'
BY DEF MailTypes

\* The amounts that are mailed fit in a uint32: the sum does not wrap.
LEMMA PostageExact ==
    ASSUME NEW coins \in Gifts
    PROVE  PostageAnd(coins) = MailCost + coins /\ coins \in Nat /\ MailCost \in Nat
<1>1. coins \in 0 .. MaxMoney /\ MailCost \in Nat /\ MaxMoney \in Nat /\ Word \in Nat
      /\ MailCost + MaxMoney < Word
  BY AuctionConstants, AmountsFit
<1>. DEFINE c == MailCost + coins
<1>2. c \in Nat /\ c < Word /\ Word > 0
  BY <1>1
<1>. HIDE DEF c
<1>3. c % Word = c
  BY <1>1, <1>2, SMT
<1>. QED BY <1>1, <1>3 DEF c, PostageAnd

LEMMA SendMailStep ==
    ASSUME IInv, NEW p \in Player, NEW q \in Player, NEW coins \in Gifts, NEW cod \in Gifts,
           NEW item \in bag[p] \cup {NoItem}, SendMail(p, q, coins, cod, item)
    PROVE  IInv'
<1>1. item \in Item \cup {NoItem} /\ coins \in Nat /\ cod \in Nat /\ MailCost + coins \in Nat
  BY AuctionConstants DEF IInv, PurseTypes
<1>2. PlayerMail(q, p, coins, cod, item, item # NoItem, FALSE) \in Rows
  BY <1>1, PlayerMailTyped
<1>3. <<PlayerMail(q, p, coins, cod, item, item # NoItem, FALSE)>> \in Seq(Rows)
  BY <1>2, OneOrNone
<1>4. MailTypes'
  BY <1>3, SendAllTyped DEF SendMail, IInv
<1>5. Paid(p, PostageAnd(coins)) \in 0 .. MaxMoney
  BY <1>1, PostageExact, PurseBounds DEF IInv, PurseTypes
<1>6. PurseTypes'
  BY <1>5 DEF SendMail, people, IInv, PurseTypes
<1> QED
  BY <1>4, <1>6, AuctionsKept DEF SendMail, IInv

\* The mails that a save removes are mails, and what goes with them are items.
LEMMA DiscardedTyped ==
    ASSUME MailTypes, NEW p
    PROVE  Discarded(p) \subseteq DOMAIN mail /\ ItemsOf(Discarded(p)) \subseteq Item
BY ItemsOfTyped DEF Discarded, Inbox

LEMMA DeliverStep ==
    ASSUME IInv, NEW n \in DOMAIN mail, Deliver(n)
    PROVE  IInv'
<1>1. [mail[n] EXCEPT !.late = FALSE] \in Rows
  BY RowTyped DEF IInv, Rows, MailRow
<1>2. MailTypes'
  BY <1>1, RowChanged DEF Deliver, IInv
<1>3. PurseTypes'
  BY DEF Deliver, people, IInv, PurseTypes
<1> QED
  BY <1>2, <1>3, AuctionsKept DEF Deliver, IInv

LEMMA MailDeleteStep ==
    ASSUME IInv, NEW p \in Player, NEW n \in DOMAIN mail,
           MailDelete(p, n) \/ MarkAsRead(p, n)
    PROVE  IInv'
<1>1. [mail[n] EXCEPT !.deleted = TRUE] \in Rows /\ [mail[n] EXCEPT !.deleted = FALSE] \in Rows
  BY RowTyped DEF IInv, Rows, MailRow
<1>2. MailTypes'
  BY <1>1, RowChanged DEF MailDelete, MarkAsRead, IInv
<1>3. PurseTypes'
  BY DEF MailDelete, MarkAsRead, people, IInv, PurseTypes
<1> QED
  BY <1>2, <1>3, AuctionsKept DEF MailDelete, MarkAsRead, IInv

LEMMA TakeMoneyStep ==
    ASSUME IInv, NEW p \in Player, NEW n \in DOMAIN mail, TakeMoney(p, n)
    PROVE  IInv'
<1>1. mail[n].coins \in Nat /\ [mail[n] EXCEPT !.coins = 0] \in Rows
  BY RowTyped DEF IInv, Rows, MailRow
<1>2. MailTypes'
  BY <1>1, SaveWithTyped, OneOrNone DEF TakeMoney, IInv
<1>3. Gained(p, mail[n].coins) \in 0 .. MaxMoney
  BY <1>1, PurseBounds DEF IInv, PurseTypes
<1>4. ruined' \subseteq Item
  BY DiscardedTyped DEF TakeMoney, SaveWith, IInv, PurseTypes
<1>5. PurseTypes'
  BY <1>3, <1>4 DEF TakeMoney, people, IInv, PurseTypes
<1> QED
  BY <1>2, <1>5, AuctionsKept DEF TakeMoney, IInv

\* The item that is taken is the one that was listed for the mail.
LEMMA TakeItemStep ==
    ASSUME IInv, NEW p \in Player, NEW n \in DOMAIN mail, NEW i \in Listed(n),
           TakeItem(p, n, i)
    PROVE  IInv'
<1> DEFINE m == mail[n]
           pay == IF m.cod > 0 THEN <<PlayerMail(m.from, p, m.cod, 0, NoItem, FALSE, FALSE)>>
                  ELSE <<>>
<1>0. i = m.item /\ m.item # NoItem
  BY DEF Listed, ItemsOf
<1>1. m \in MailRow /\ m.cod \in Nat /\ m.item \in Item /\ (m.cod > 0 => m.from \in Player)
  BY <1>0, RowTyped DEF TakeItem, IInv, Rows, MailRow
<1>2. Taken(m, i) \in Rows
  <2>1. Taken(m, i) \in MailRow
    BY <1>1 DEF Taken, MailRow
  <2>2. Taken(m, i).normal = m.normal /\ Taken(m, i).from = m.from /\ Taken(m, i).cod = 0
    BY <1>1 DEF Taken, MailRow
  <2>3. m.normal => m.from \in Player
    BY RowTyped DEF IInv, Rows
  <2> QED
    BY <2>1, <2>2, <2>3 DEF Rows
<1>3. pay \in Seq(Rows)
  <2>1. CASE m.cod > 0
    <3>1. PlayerMail(m.from, p, m.cod, 0, NoItem, FALSE, FALSE) \in Rows
      BY <1>1, <2>1, PlayerMailTyped
    <3> QED
      BY <2>1, <3>1, OneOrNone
  <2>2. CASE ~(m.cod > 0)
    BY <2>2, OneOrNone
  <2> QED
    BY <2>1, <2>2
<1>4. SaveWith(p, n, Taken(m, i), pay)
  BY DEF TakeItem
<1>5. MailTypes'
  BY <1>2, <1>3, <1>4, SaveWithTyped DEF IInv
<1>6. Paid(p, m.cod) \in 0 .. MaxMoney
  BY <1>1, PurseBounds DEF IInv, PurseTypes
<1>7. ruined' \subseteq Item
  BY <1>4, DiscardedTyped DEF SaveWith, IInv, PurseTypes
<1>8. PurseTypes'
  BY <1>0, <1>1, <1>6, <1>7 DEF TakeItem, people, IInv, PurseTypes
<1> QED
  BY <1>5, <1>8, AuctionsKept DEF TakeItem, IInv

LEMMA ReturnStep ==
    ASSUME IInv, NEW p \in Player, NEW n \in DOMAIN mail, ReturnToSender(p, n)
    PROVE  IInv'
<1> DEFINE m == mail[n]
           back == PlayerMail(m.from, p, m.coins, 0, m.item, m.item # NoItem, TRUE)
<1>1. m \in Rows /\ m \in MailRow
  BY RowTyped DEF IInv
<1>2. m.normal => back \in Rows
  BY <1>1, PlayerMailTyped DEF Rows, MailRow
<1>3. MailTypes'
  BY <1>2, SendAllTyped, OneOrNone DEF ReturnToSender, IInv
<1>4. ItemsOf({n}) \subseteq Item
  BY ItemsOfTyped DEF IInv
<1>5. PurseTypes'
  BY <1>4 DEF ReturnToSender, people, IInv, PurseTypes
<1> QED
  BY <1>3, <1>5, AuctionsKept DEF ReturnToSender, IInv

LEMMA OldMailStep ==
    ASSUME IInv, NEW n \in DOMAIN mail, OldMail(n)
    PROVE  IInv'
<1> DEFINE m == mail[n]
           back == PlayerMail(m.from, m.to, m.coins, 0, m.item, FALSE, TRUE)
<1>1. m \in Rows /\ m \in MailRow
  BY RowTyped DEF IInv
<1>2. m.normal => back \in Rows
  BY <1>1, PlayerMailTyped DEF Rows, MailRow
<1>3. MailTypes'
  BY <1>2, SendAllTyped, RowChanged, OneOrNone DEF OldMail, IInv
<1>4. ItemsOf({n}) \subseteq Item
  BY ItemsOfTyped DEF IInv
<1>5. PurseTypes'
  BY <1>4 DEF OldMail, people, IInv, PurseTypes
<1> QED
  BY <1>3, <1>5, AuctionsKept DEF OldMail, IInv

LEMMA PeopleStep ==
    ASSUME IInv, NEW p \in Player, GetMail(p) \/ SaveMail(p) \/ Logout(p) \/ Login(p)
    PROVE  IInv'
<1>1. UNCHANGED auction
  BY DEF GetMail, SaveMail, Logout, Login
<1>2. ItemsOf(Discarded(p)) \subseteq Item
  BY DiscardedTyped DEF IInv
<1>3. PurseTypes'
  BY <1>2 DEF GetMail, SaveMail, Logout, Login, people, IInv, PurseTypes
<1>4. MailTypes'
  <2>1. CASE UNCHANGED <<mail, nextMail>>
    BY <2>1 DEF IInv, MailTypes
  <2>2. CASE SendAll(Discarded(p), <<>>)
    BY <2>2, SendAllTyped, OneOrNone DEF IInv
  <2> QED
    BY <2>1, <2>2 DEF GetMail, SaveMail, Logout, Login
<1> QED
  BY <1>1, <1>3, <1>4, AuctionsKept DEF IInv
-----------------------------------------------------------------------------
(* The theorems.                                                           *)

LEMMA NextIInv == IInv /\ [Next]_vars => IInv'
<1> SUFFICES ASSUME IInv, [Next]_vars PROVE IInv'
  OBVIOUS
<1>1. ASSUME NEW p \in Player, NEW i \in Item, RemoveItem(p, i) PROVE IInv'
  BY <1>1, RemoveItemStep
<1>2. ASSUME NEW p \in Player, NEW i \in Item, NEW s \in Starts, NEW b \in Buyouts,
             SellItem(p, i, s, b)
      PROVE  IInv'
  BY <1>2, SellItemStep
<1>3. ASSUME NEW p \in Player, NEW i \in Item, NEW price \in 1 .. MaxMoney,
             PlaceBid(p, i, price) \/ Buyout(p, i, price)
      PROVE  IInv'
  BY <1>3, PlaceBidStep, BuyoutStep
<1>4. ASSUME NEW p \in Player, NEW q \in Player, NEW coins \in Gifts, NEW cod \in Gifts,
             NEW item \in bag[p] \cup {NoItem}, SendMail(p, q, coins, cod, item)
      PROVE  IInv'
  BY <1>4, SendMailStep
<1>5. ASSUME NEW p \in Player, GetMail(p) \/ SaveMail(p) \/ Logout(p) \/ Login(p) PROVE IInv'
  BY <1>5, PeopleStep
<1>6. ASSUME NEW p \in Player, NEW n \in DOMAIN mail,
             TakeMoney(p, n) \/ (\E i \in Listed(n) : TakeItem(p, n, i)) \/ MailDelete(p, n)
             \/ MarkAsRead(p, n) \/ ReturnToSender(p, n)
      PROVE  IInv'
  BY <1>6, TakeMoneyStep, TakeItemStep, MailDeleteStep, ReturnStep
<1>7. ASSUME NEW i \in Item, TimeUp(i) \/ Update(i) PROVE IInv'
  BY <1>7, TimeUpStep, UpdateStep
<1>8. ASSUME NEW n \in DOMAIN mail, Deliver(n) \/ OldMail(n) PROVE IInv'
  BY <1>8, DeliverStep, OldMailStep
<1>9. CASE UNCHANGED vars
  BY <1>9 DEF vars, people, IInv, PurseTypes, AuctionTypes, MailTypes, BidBelowBuyout
<1>10. CASE Next
  BY <1>10, <1>1, <1>2, <1>3, <1>4, <1>5, <1>6, <1>7, <1>8 DEF Next
<1> QED
  BY <1>9, <1>10

LEMMA Invariance == Spec => []IInv
BY InitIInv, NextIInv, PTL DEF Spec

\* Whatever players sell, bid and mail, the tables of auctions and mails keep their
\* types and no purse leaves 0 .. MAX_MONEY_AMOUNT (ModifyMoney() clamps both ways).
THEOREM TypeCorrect == Spec => []TypeOK
<1>1. IInv => TypeOK
  <2> SUFFICES ASSUME IInv PROVE TypeOK
    OBVIOUS
  <2>1. \A i \in Item : auction[i] # NoAuction =>
          auction[i].owner \in Player /\ auction[i].bidder \in Player \cup {Nobody}
          /\ auction[i].bid \in 0 .. MaxMoney
    BY EntryTyped DEF IInv, AuctionEntry
  <2>2. \A n \in DOMAIN mail : mail[n] \in MailRow
    BY RowTyped DEF IInv
  <2> QED
    BY <2>1, <2>2 DEF TypeOK, IInv, PurseTypes, MailTypes, MailRow
<1> QED
  BY <1>1, Invariance, PTL

\* A standing bid is at least the first price, below the buyout and not the owner's own,
\* for any prices: HandleAuctionPlaceBid() never subtracts a bid from a smaller buyout.
THEOREM BidsBelowBuyout == Spec => []BidBelowBuyout
<1>1. IInv => BidBelowBuyout
  BY DEF IInv
<1> QED
  BY <1>1, Invariance, PTL
-----------------------------------------------------------------------------
(* Where an item is.                                                       *)

Bags(i) == {p \in Player : i \in bag[p]}
Carries(i) == {n \in DOMAIN mail : mail[n].item = i}

\* The strengthening: an item is in exactly one place, and of one kind.
Bagged(i) ==
    (\E p : Bags(i) = {p}) /\ Carries(i) = {} /\ auction[i] = NoAuction /\ i \notin ruined
Mailed(i) ==
    Bags(i) = {} /\ (\E n : Carries(i) = {n}) /\ auction[i] = NoAuction /\ i \notin ruined
Auctioned(i) ==
    Bags(i) = {} /\ Carries(i) = {} /\ auction[i] # NoAuction /\ i \notin ruined
Ruined(i) ==
    Bags(i) = {} /\ Carries(i) = {} /\ auction[i] = NoAuction /\ i \in ruined
Alone(i) == Bagged(i) \/ Mailed(i) \/ Auctioned(i) \/ Ruined(i)

\* Mails without items, and mails of which the last one brings item i.
Silent(ms) == \A k \in 1 .. Len(ms) : ms[k].item = NoItem
Brings(ms, i) ==
    /\ Len(ms) > 0 /\ ms[Len(ms)].item = i
    /\ \A k \in 1 .. Len(ms) - 1 : ms[k].item = NoItem

LEMMA SilentBoth ==
    ASSUME NEW s \in Seq(Rows), NEW t \in Seq(Rows), Silent(s)
    PROVE  /\ Silent(t) => Silent(s \o t)
           /\ \A i : Brings(t, i) => Brings(s \o t, i)
<1>1. /\ Len(s \o t) = Len(s) + Len(t) /\ Len(s) \in Nat /\ Len(t) \in Nat
      /\ \A k \in 1 .. Len(s) : (s \o t)[k] = s[k]
      /\ \A k \in 1 .. Len(t) : (s \o t)[Len(s) + k] = t[k]
  OBVIOUS
<1>2. ASSUME NEW k \in 1 .. Len(s) + Len(t), k > Len(s)
      PROVE  k - Len(s) \in 1 .. Len(t) /\ (s \o t)[k] = t[k - Len(s)]
  BY <1>1, <1>2
<1>. DEFINE r == s \o t
<1>. HIDE DEF r
<1>3. /\ Len(r) = Len(s) + Len(t)
      /\ \A k \in 1 .. Len(s) : r[k] = s[k]
      /\ \A k \in 1 .. Len(t) : r[Len(s) + k] = t[k]
      /\ \A k \in 1 .. Len(s) + Len(t) : k > Len(s) =>
            k - Len(s) \in 1 .. Len(t) /\ r[k] = t[k - Len(s)]
  BY <1>1, <1>2 DEF r
<1>4. ASSUME Silent(t) PROVE Silent(r)
  BY <1>1, <1>3, <1>4 DEF Silent
<1>5. ASSUME NEW i, Brings(t, i) PROVE Brings(r, i)
  <2>1. Len(r) > 0 /\ r[Len(r)] = t[Len(t)]
    BY <1>1, <1>3, <1>5 DEF Brings
  <2>2. ASSUME NEW k \in 1 .. Len(r) - 1 PROVE r[k].item = NoItem
    <3>1. CASE k <= Len(s)
      BY <1>1, <1>3, <3>1 DEF Silent
    <3>2. CASE k > Len(s)
      <4>1. k - Len(s) \in 1 .. Len(t) - 1 /\ r[k] = t[k - Len(s)]
        BY <1>1, <1>3, <3>2
      <4>. QED BY <4>1, <1>5 DEF Brings
    <3>. QED BY <1>1, <1>3, <3>1, <3>2
  <2>. QED BY <2>1, <2>2, <1>5 DEF Brings
<1>. QED BY <1>4, <1>5 DEF r

\* What SendMailTo() does to the mails that hold an item.
LEMMA SendAllCarries ==
    ASSUME MailTypes, NEW gone \in SUBSET DOMAIN mail, NEW ms \in Seq(Rows), SendAll(gone, ms),
           NEW j \in Item
    PROVE  /\ (\A k \in 1 .. Len(ms) : ms[k].item # j) => Carries(j)' = Carries(j) \ gone
           /\ Brings(ms, j) /\ Carries(j) \ gone = {} => \E n : Carries(j)' = {n}
<1>. DEFINE kept == DOMAIN mail \ gone
            new  == nextMail .. nextMail + Len(ms) - 1
<1>1. /\ DOMAIN mail' = kept \cup new
      /\ \A n \in kept \cup new : mail'[n] = IF n \in kept THEN mail[n] ELSE ms[n - nextMail + 1]
  BY DEF SendAll
<1>2. /\ nextMail \in Nat /\ Len(ms) \in Nat
      /\ \A n \in kept : n \notin new
      /\ \A n \in new : n - nextMail + 1 \in 1 .. Len(ms)
      /\ \A k \in 1 .. Len(ms) : nextMail + k - 1 \in new
                                 /\ (nextMail + k - 1) - nextMail + 1 = k
  BY DEF MailTypes
<1>3. ASSUME \A k \in 1 .. Len(ms) : ms[k].item # j PROVE Carries(j)' = Carries(j) \ gone
  <2>1. \A n \in kept \cup new : mail'[n].item = j <=> n \in kept /\ mail[n].item = j
    BY <1>1, <1>2, <1>3
  <2>2. Carries(j)' = {n \in kept : mail[n].item = j}
    BY <1>1, <2>1 DEF Carries
  <2>. QED BY <2>2 DEF Carries
<1>4. ASSUME Brings(ms, j), Carries(j) \ gone = {} PROVE \E n : Carries(j)' = {n}
  <2>. DEFINE l == nextMail + Len(ms) - 1
  <2>1. Len(ms) \in 1 .. Len(ms) /\ l \in new /\ l \notin kept /\ l - nextMail + 1 = Len(ms)
    BY <1>2, <1>4 DEF Brings
  <2>2. mail'[l].item = j
    BY <1>1, <1>4, <2>1 DEF Brings
  <2>3. ASSUME NEW n \in kept \cup new, n # l PROVE mail'[n].item # j
    <3>1. CASE n \in kept
      BY <1>1, <1>4, <3>1 DEF Carries
    <3>2. CASE n \notin kept
      <4>1. n - nextMail + 1 \in 1 .. Len(ms) - 1
        BY <1>2, <2>3, <3>2
      <4>2. mail'[n].item = NoItem
        BY <1>1, <1>4, <3>2, <4>1 DEF Brings
      <4>. QED BY <4>2, AuctionConstants
    <3>. QED BY <3>1, <3>2
  <2>4. Carries(j)' = {l}
    BY <1>1, <2>1, <2>2, <2>3 DEF Carries
  <2>. QED BY <2>4
<1>. QED BY <1>3, <1>4

\* Mails without items only remove, ...
LEMMA SilentCarries ==
    ASSUME MailTypes, NEW gone \in SUBSET DOMAIN mail, NEW ms \in Seq(Rows), SendAll(gone, ms),
           Silent(ms), NEW j \in Item
    PROVE  Carries(j)' = Carries(j) \ gone
<1>1. \A k \in 1 .. Len(ms) : ms[k].item # j
  BY AuctionConstants DEF Silent
<1>. QED BY <1>1, SendAllCarries

\* ... and a mail that brings i concerns no other item.
LEMMA BringsCarries ==
    ASSUME MailTypes, NEW gone \in SUBSET DOMAIN mail, NEW ms \in Seq(Rows), SendAll(gone, ms),
           NEW i \in Item, Brings(ms, i), NEW j \in Item
    PROVE  /\ j # i => Carries(j)' = Carries(j) \ gone
           /\ Carries(i) \ gone = {} => \E n : Carries(i)' = {n}
<1>1. ASSUME j # i PROVE \A k \in 1 .. Len(ms) : ms[k].item # j
  <2>. SUFFICES ASSUME NEW k \in 1 .. Len(ms) PROVE ms[k].item # j
    OBVIOUS
  <2>1. k = Len(ms) \/ k \in 1 .. Len(ms) - 1
    OBVIOUS
  <2>. QED BY <1>1, <2>1, AuctionConstants DEF Brings
<1>. QED BY <1>1, SendAllCarries

\* What _SaveMail() does, after mail n has become m.
LEMMA SaveWithCarries ==
    ASSUME MailTypes, NEW p \in Player, NEW n \in DOMAIN mail, NEW m \in Rows,
           NEW ms \in Seq(Rows), Silent(ms), SaveWith(p, n, m, ms), NEW j \in Item
    PROVE  Carries(j)' = ((Carries(j) \ {n}) \cup (IF m.item = j THEN {n} ELSE {})) \ Discarded(p)
<1>. DEFINE gone == Discarded(p) \cup (IF m.coins = 0 /\ m.item = NoItem THEN {n} ELSE {})
            kept == DOMAIN mail \ gone
            new  == nextMail .. nextMail + Len(ms) - 1
<1>1. mail' = [k \in kept \cup new |->
                 IF k = n THEN m ELSE IF k \in kept THEN mail[k] ELSE ms[k - nextMail + 1]]
  BY DEF SaveWith
<1>2. /\ \A k \in DOMAIN mail : k \notin new
      /\ \A k \in new : k - nextMail + 1 \in 1 .. Len(ms)
      /\ j # NoItem
  <2>1. nextMail \in Nat /\ DOMAIN mail \subseteq 1 .. nextMail - 1 /\ Len(ms) \in Nat
    BY DEF MailTypes
  <2>2. \A k \in DOMAIN mail : k \in 1 .. nextMail - 1
    BY <2>1
  <2>3. \A k \in DOMAIN mail : k \notin new
    BY <2>1, <2>2
  <2>4. \A k \in new : k - nextMail + 1 \in 1 .. Len(ms)
    BY <2>1
  <2>. QED BY <2>3, <2>4, AuctionConstants
<1>3. /\ DOMAIN mail' = kept \cup new
      /\ \A k \in new : mail'[k].item = NoItem
      /\ \A k \in kept : mail'[k] = IF k = n THEN m ELSE mail[k]
  BY <1>1, <1>2 DEF Silent
<1>4. \A k \in DOMAIN mail : k \in kept <=> k \notin Discarded(p) /\ ~(k = n /\ m.coins = 0 /\ m.item = NoItem)
  OBVIOUS
<1>. QED BY <1>2, <1>3, <1>4 DEF Carries
-----------------------------------------------------------------------------
(* The ways of an item.                                                    *)

LEMMA Stays ==
    ASSUME NEW j \in Item, Alone(j), Bags(j)' = Bags(j), Carries(j)' = Carries(j),
           auction'[j] = NoAuction <=> auction[j] = NoAuction, j \in ruined' <=> j \in ruined
    PROVE  Alone(j)'
  BY DEF Alone, Bagged, Mailed, Auctioned, Ruined

\* Mails that go take their item with them.
LEMMA Discards ==
    ASSUME NEW j \in Item, Alone(j), NEW gone \in SUBSET DOMAIN mail,
           Bags(j)' = Bags(j), Carries(j)' = Carries(j) \ gone,
           auction' = auction, ruined' = ruined \cup ItemsOf(gone)
    PROVE  Alone(j)'
<1>1. j \in ItemsOf(gone) <=> Carries(j) \cap gone # {}
  BY AuctionConstants DEF ItemsOf, Carries
<1>2. CASE Carries(j) \cap gone = {}
  <2>1. Carries(j)' = Carries(j)
    BY <1>2
  <2>2. j \in ruined' <=> j \in ruined
    BY <1>1, <1>2
  <2>. QED BY <2>1, <2>2, Stays
<1>3. CASE Carries(j) \cap gone # {}
  <2>1. Mailed(j)
    BY <1>3 DEF Alone, Bagged, Mailed, Auctioned, Ruined
  <2>2. Carries(j)' = {}
    BY <1>3, <2>1 DEF Mailed
  <2>. QED BY <1>1, <1>3, <2>1, <2>2 DEF Alone, Mailed, Ruined
<1>. QED BY <1>2, <1>3

LEMMA BagLoses ==
    ASSUME IInv, NEW p \in Player, NEW i, bag' = [bag EXCEPT ![p] = @ \ {i}], NEW j \in Item
    PROVE  Bags(j)' = IF j = i THEN Bags(j) \ {p} ELSE Bags(j)
  BY DEF Bags, IInv, PurseTypes

LEMMA SellItemItems ==
    ASSUME IInv, NEW p \in Player, NEW i \in Item, NEW s \in Starts, NEW b \in Buyouts,
           SellItem(p, i, s, b), NEW j \in Item, Alone(j)
    PROVE  Alone(j)'
<1>1. /\ i \in bag[p] /\ auction[i] = NoAuction /\ bag' = [bag EXCEPT ![p] = @ \ {i}]
      /\ mail' = mail /\ ruined' = ruined
      /\ auction'[j] = IF j = i THEN [owner |-> p, start |-> s, buyout |-> b, bidder |-> Nobody,
                                      bid |-> 0, timeUp |-> FALSE] ELSE auction[j]
  BY DEF SellItem, IInv, AuctionTypes
<1>2. Carries(j)' = Carries(j)
  BY <1>1 DEF Carries
<1>3. Bags(j)' = IF j = i THEN Bags(j) \ {p} ELSE Bags(j)
  BY <1>1, BagLoses
<1>4. CASE j # i
  BY <1>1, <1>2, <1>3, <1>4, Stays
<1>5. CASE j = i
  <2>1. p \in Bags(j)
    BY <1>1, <1>5 DEF Bags
  <2>2. Bagged(j) /\ Bags(j) = {p}
    BY <2>1 DEF Alone, Bagged, Mailed, Auctioned, Ruined
  <2>3. auction'[j] # NoAuction
    <3>1. auction'[j].owner = p /\ NoAuction.owner = Nobody
      BY <1>1, <1>5 DEF NoAuction
    <3>. QED BY <3>1, AuctionConstants
  <2>. QED BY <1>1, <1>2, <1>3, <1>5, <2>2, <2>3 DEF Alone, Bagged, Auctioned
<1>. QED BY <1>4, <1>5

LEMMA OneMailItems ==
    ASSUME NEW m, NEW i
    PROVE  /\ Silent(<<>>)
           /\ m.item = NoItem => Silent(<<m>>)
           /\ m.item = i => Brings(<<m>>, i)
<1>1. Len(<<m>>) = 1 /\ <<m>>[1] = m /\ Len(<<>>) = 0
  OBVIOUS
<1>. QED BY <1>1 DEF Silent, Brings

\* The mails to those outbid and to sellers bring no item, the one to the winner does.
LEMMA AuctionMailItems ==
    ASSUME NEW a, NEW p \in Player, NEW i \in Item
    PROVE  /\ Silent(OutbiddedMail(a, p)) /\ Silent(SuccessfulMail(a))
           /\ (a.bidder \in online \/ LogTrade) => Brings(WonMail(a, i), i)
           /\ \A q : Brings(<<AuctionMail(q, 0, i, FALSE)>>, i)
<1>1. \A q, c, l : AuctionMail(q, c, NoItem, l).item = NoItem /\ AuctionMail(q, c, i, l).item = i
  BY DEF AuctionMail
<1>2. Silent(OutbiddedMail(a, p))
  BY <1>1, OneMailItems DEF OutbiddedMail
<1>3. Silent(SuccessfulMail(a))
  BY <1>1, OneMailItems DEF SuccessfulMail
<1>4. \A q : Brings(<<AuctionMail(q, 0, i, FALSE)>>, i)
  BY <1>1, OneMailItems
<1>. QED BY <1>2, <1>3, <1>4 DEF WonMail

\* An auction ends with a mail that brings its item.
LEMMA AuctionToMail ==
    ASSUME IInv, NEW i \in Item, NEW ms \in Seq(Rows), SendAll({}, ms), Brings(ms, i),
           auction[i] # NoAuction, auction' = [auction EXCEPT ![i] = NoAuction],
           UNCHANGED <<bag, ruined>>, NEW j \in Item, Alone(j)
    PROVE  Alone(j)'
<1>1. /\ j # i => Carries(j)' = Carries(j)
      /\ Carries(i) = {} => \E n : Carries(i)' = {n}
  <2>1. PICK gone \in SUBSET DOMAIN mail : gone = {} /\ SendAll(gone, ms)
    OBVIOUS
  <2>2. MailTypes
    BY DEF IInv
  <2>3. /\ j # i => Carries(j)' = Carries(j) \ gone
        /\ Carries(i) \ gone = {} => \E n : Carries(i)' = {n}
    BY <2>1, <2>2, BringsCarries
  <2>4. Carries(j) \ gone = Carries(j) /\ Carries(i) \ gone = Carries(i)
    BY <2>1
  <2>. QED BY <2>3, <2>4
<1>2. Bags(j)' = Bags(j) /\ auction'[j] = IF j = i THEN NoAuction ELSE auction[j]
  BY DEF Bags, IInv, AuctionTypes
<1>3. CASE j # i
  BY <1>1, <1>2, <1>3, Stays
<1>4. CASE j = i
  <2>1. Auctioned(j)
    BY <1>4 DEF Alone, Bagged, Mailed, Auctioned, Ruined
  <2>. QED BY <1>1, <1>2, <1>4, <2>1 DEF Alone, Auctioned, Mailed
<1>. QED BY <1>3, <1>4

LEMMA PlaceBidItems ==
    ASSUME IInv, NEW p \in Player, NEW i \in Item, NEW price \in 1 .. MaxMoney,
           PlaceBid(p, i, price), NEW j \in Item, Alone(j)
    PROVE  Alone(j)'
<1>. DEFINE a == auction[i]
            b == [a EXCEPT !.bidder = p, !.bid = price]
<1>1. /\ a \in AuctionEntry /\ SendAll({}, OutbiddedMail(a, p)) /\ bag' = bag /\ ruined' = ruined
      /\ auction' = [auction EXCEPT ![i] = b]
  BY EntryTyped DEF PlaceBid, IInv, AuctionTypes
<1>2. Carries(j)' = Carries(j)
  <2>1. {} \in SUBSET DOMAIN mail /\ MailTypes
    BY DEF IInv
  <2>2. OutbiddedMail(a, p) \in Seq(Rows) /\ Silent(OutbiddedMail(a, p))
    BY <1>1, OutbiddedTyped, AuctionMailItems
  <2>3. Carries(j)' = Carries(j) \ {}
    BY <1>1, <2>1, <2>2, SilentCarries
  <2>. QED BY <2>3
<1>3. a # NoAuction /\ b # NoAuction
  <2>1. "bid" \in DOMAIN b /\ "bid" \notin DOMAIN NoAuction
    BY <1>1 DEF AuctionEntry, NoAuction
  <2>. QED BY <2>1 DEF PlaceBid
<1>4. Bags(j)' = Bags(j) /\ auction'[j] = IF j = i THEN b ELSE auction[j]
  BY <1>1 DEF Bags, IInv, AuctionTypes
<1>. QED BY <1>1, <1>2, <1>3, <1>4, Stays

LEMMA BuyoutItems ==
    ASSUME IInv, NEW p \in Player, NEW i \in Item, NEW price \in 1 .. MaxMoney,
           Buyout(p, i, price), NEW j \in Item, Alone(j)
    PROVE  Alone(j)'
<1>. DEFINE a == auction[i]
            b == [a EXCEPT !.bidder = p, !.bid = a.buyout]
            o == OutbiddedMail(a, p)
            s == SuccessfulMail(b)
            w == WonMail(b, i)
<1>1. /\ a \in AuctionEntry /\ a # NoAuction /\ p \in online
      /\ auction' = [auction EXCEPT ![i] = NoAuction] /\ bag' = bag /\ ruined' = ruined
      /\ SendAll({}, (o \o s) \o w)
  BY EntryTyped DEF Buyout, IInv
<1>2. b.owner \in Player /\ b.bidder = p /\ b.bid \in Nat
  BY <1>1 DEF AuctionEntry
<1>3. o \in Seq(Rows) /\ s \in Seq(Rows) /\ w \in Seq(Rows)
  BY <1>1, <1>2, OutbiddedTyped, SuccessfulTyped, WonTyped
<1>4. Silent(o) /\ Silent(s) /\ Brings(w, i)
  BY <1>1, <1>2, AuctionMailItems
<1>. HIDE DEF o, s, w, b
<1>5. o \o s \in Seq(Rows) /\ Silent(o \o s)
  BY <1>3, <1>4, SilentBoth
<1>6. (o \o s) \o w \in Seq(Rows) /\ Brings((o \o s) \o w, i)
  <2>1. (o \o s) \o w \in Seq(Rows)
    BY <1>3, <1>5, BothTyped
  <2>. QED BY <2>1, <1>3, <1>4, <1>5, SilentBoth
<1>. QED BY <1>1, <1>6, AuctionToMail

LEMMA RemoveItemItems ==
    ASSUME IInv, NEW p \in Player, NEW i \in Item, RemoveItem(p, i), NEW j \in Item, Alone(j)
    PROVE  Alone(j)'
<1>. DEFINE a == auction[i]
            o == OutbiddedMail(a, p)
            w == <<AuctionMail(p, 0, i, FALSE)>>
<1>1. /\ a \in AuctionEntry /\ a # NoAuction
      /\ auction' = [auction EXCEPT ![i] = NoAuction] /\ bag' = bag /\ ruined' = ruined
      /\ SendAll({}, o \o w)
  BY EntryTyped DEF RemoveItem, IInv
<1>2. o \in Seq(Rows) /\ w \in Seq(Rows)
  BY <1>1, OutbiddedTyped, AuctionMailTyped, OneOrNone
<1>3. Silent(o) /\ Brings(w, i)
  BY AuctionMailItems
<1>. HIDE DEF o, w
<1>4. o \o w \in Seq(Rows) /\ Brings(o \o w, i)
  BY <1>2, <1>3, BothTyped, SilentBoth
<1>. QED BY <1>1, <1>4, AuctionToMail

\* The winner's mail is sent when trades are logged, whether he is online or not.
LEMMA UpdateItems ==
    ASSUME LogTrade = TRUE, IInv, NEW i \in Item, Update(i), NEW j \in Item, Alone(j)
    PROVE  Alone(j)'
<1>. DEFINE a == auction[i]
            s == SuccessfulMail(a)
            w == WonMail(a, i)
<1>1. /\ a \in AuctionEntry /\ a # NoAuction
      /\ auction' = [auction EXCEPT ![i] = NoAuction] /\ bag' = bag /\ ruined' = ruined
      /\ SendAll({}, UpdateMails(a, i))
  BY EntryTyped DEF Update, IInv
<1>2. a.owner \in Player /\ a.bidder \in Player \cup {Nobody} /\ a.bid \in Nat
  BY <1>1, AuctionConstants DEF AuctionEntry
<1>3. CASE a.bidder = Nobody
  <2>1. UpdateMails(a, i) = <<AuctionMail(a.owner, 0, i, FALSE)>>
    BY <1>3 DEF UpdateMails
  <2>2. UpdateMails(a, i) \in Seq(Rows) /\ Brings(UpdateMails(a, i), i)
    BY <1>2, <2>1, AuctionMailTyped, OneOrNone, AuctionMailItems
  <2>. QED BY <1>1, <2>2, AuctionToMail
<1>4. CASE a.bidder # Nobody
  <2>1. UpdateMails(a, i) = s \o w
    BY <1>4 DEF UpdateMails
  <2>2. s \in Seq(Rows) /\ w \in Seq(Rows)
    BY <1>2, <1>4, SuccessfulTyped, WonTyped
  <2>3. Silent(s) /\ Brings(w, i)
    BY <1>2, AuctionMailItems
  <2>. HIDE DEF s, w
  <2>4. s \o w \in Seq(Rows) /\ Brings(s \o w, i)
    BY <2>2, <2>3, BothTyped, SilentBoth
  <2>. QED BY <1>1, <2>1, <2>4, AuctionToMail
<1>. QED BY <1>3, <1>4

LEMMA TimeUpItems ==
    ASSUME IInv, NEW i \in Item, TimeUp(i), NEW j \in Item, Alone(j)
    PROVE  Alone(j)'
<1>. DEFINE a == auction[i]
            b == [a EXCEPT !.timeUp = TRUE]
<1>1. a \in AuctionEntry /\ a # NoAuction /\ auction' = [auction EXCEPT ![i] = b]
  BY EntryTyped DEF TimeUp, IInv
<1>2. b # NoAuction
  <2>1. "bid" \in DOMAIN b /\ "bid" \notin DOMAIN NoAuction
    BY <1>1 DEF AuctionEntry, NoAuction
  <2>. QED BY <2>1
<1>3. Carries(j)' = Carries(j) /\ Bags(j)' = Bags(j) /\ ruined' = ruined
  BY DEF TimeUp, Carries, Bags
<1>4. auction'[j] = IF j = i THEN b ELSE auction[j]
  BY <1>1 DEF IInv, AuctionTypes
<1>. QED BY <1>1, <1>2, <1>3, <1>4, Stays

LEMMA SendMailItems ==
    ASSUME IInv, NEW p \in Player, NEW q \in Player, NEW coins \in Gifts, NEW cod \in Gifts,
           NEW item \in bag[p] \cup {NoItem}, SendMail(p, q, coins, cod, item),
           NEW j \in Item, Alone(j)
    PROVE  Alone(j)'
<1>. DEFINE m == PlayerMail(q, p, coins, cod, item, item # NoItem, FALSE)
<1>1. /\ bag' = [bag EXCEPT ![p] = @ \ {item}] /\ auction' = auction /\ ruined' = ruined
      /\ SendAll({}, <<m>>)
  BY DEF SendMail
<1>2. item \in Item \cup {NoItem} /\ coins \in Nat /\ cod \in Nat /\ (item # NoItem => item \in bag[p])
  BY AuctionConstants DEF IInv, PurseTypes
<1>3. m \in Rows /\ m.item = item
  BY <1>2, PlayerMailTyped DEF PlayerMail
<1>. HIDE DEF m
<1>4. PICK gone \in SUBSET DOMAIN mail : gone = {} /\ SendAll(gone, <<m>>)
  BY <1>1
<1>5. MailTypes /\ <<m>> \in Seq(Rows)
  BY <1>3, OneOrNone DEF IInv
<1>6. Carries(j) \ gone = Carries(j)
  BY <1>4
<1>7. Bags(j)' = IF j = item THEN Bags(j) \ {p} ELSE Bags(j)
  BY <1>1, BagLoses
<1>8. CASE item = NoItem
  <2>1. Silent(<<m>>) /\ j # item
    BY <1>3, <1>8, OneMailItems, AuctionConstants
  <2>2. Carries(j)' = Carries(j)
    BY <1>4, <1>5, <1>6, <2>1, SilentCarries
  <2>. QED BY <1>1, <1>7, <2>1, <2>2, Stays
<1>9. CASE item # NoItem
  <2>1. item \in Item /\ Brings(<<m>>, item)
    BY <1>2, <1>3, <1>9, OneMailItems
  <2>2. /\ j # item => Carries(j)' = Carries(j) \ gone
        /\ Carries(item) \ gone = {} => \E n : Carries(item)' = {n}
    BY <1>4, <1>5, <2>1, BringsCarries
  <2>3. CASE j # item
    BY <1>1, <1>6, <1>7, <2>2, <2>3, Stays
  <2>4. CASE j = item
    <3>1. p \in Bags(j)
      BY <1>2, <1>9, <2>4 DEF Bags
    <3>2. Bags(j) = {p} /\ Carries(j) = {} /\ auction[j] = NoAuction /\ j \notin ruined
      BY <3>1 DEF Alone, Bagged, Mailed, Auctioned, Ruined
    <3>3. \E n : Carries(j)' = {n}
      BY <1>6, <2>2, <2>4, <3>2
    <3>. QED BY <1>1, <1>7, <2>4, <3>2, <3>3 DEF Alone, Mailed
  <2>. QED BY <2>3, <2>4
<1>. QED BY <1>8, <1>9

\* A mail that changes in place keeps its item.
LEMMA RowItems ==
    ASSUME IInv, NEW n \in DOMAIN mail, NEW m, m.item = mail[n].item,
           mail' = [mail EXCEPT ![n] = m], UNCHANGED <<bag, auction, ruined>>,
           NEW j \in Item, Alone(j)
    PROVE  Alone(j)'
<1>1. DOMAIN mail' = DOMAIN mail /\ \A k \in DOMAIN mail : mail'[k].item = mail[k].item
  OBVIOUS
<1>2. Carries(j)' = Carries(j) /\ Bags(j)' = Bags(j)
  BY <1>1 DEF Carries, Bags
<1>. QED BY <1>2, Stays

LEMMA RowStepItems ==
    ASSUME IInv, NEW n \in DOMAIN mail,
           Deliver(n) \/ \E p \in Player : MailDelete(p, n) \/ MarkAsRead(p, n),
           NEW j \in Item, Alone(j)
    PROVE  Alone(j)'
<1>1. mail[n] \in MailRow
  BY RowTyped DEF IInv
<1>2. /\ [mail[n] EXCEPT !.late = FALSE].item = mail[n].item
      /\ [mail[n] EXCEPT !.deleted = TRUE].item = mail[n].item
      /\ [mail[n] EXCEPT !.deleted = FALSE].item = mail[n].item
  BY <1>1 DEF MailRow
<1>. QED BY <1>2, RowItems DEF Deliver, MailDelete, MarkAsRead

\* The mails in gone are removed with their items, and no mail is sent.
LEMMA SentAway ==
    ASSUME IInv, NEW gone \in SUBSET DOMAIN mail, SendAll(gone, <<>>),
           ruined' = ruined \cup ItemsOf(gone), UNCHANGED <<bag, auction>>,
           NEW j \in Item, Alone(j)
    PROVE  Alone(j)'
<1>1. MailTypes /\ <<>> \in Seq(Rows) /\ Silent(<<>>)
  BY OneOrNone, OneMailItems DEF IInv
<1>2. Carries(j)' = Carries(j) \ gone
  BY <1>1, SilentCarries
<1>3. Bags(j)' = Bags(j)
  BY DEF Bags
<1>. QED BY <1>2, <1>3, Discards

LEMMA PeopleItems ==
    ASSUME IInv, NEW p \in Player, GetMail(p) \/ SaveMail(p) \/ Logout(p) \/ Login(p),
           NEW j \in Item, Alone(j)
    PROVE  Alone(j)'
<1>1. UNCHANGED <<bag, auction>>
  BY DEF GetMail, SaveMail, Logout, Login
<1>2. CASE UNCHANGED <<mail, ruined>>
  <2>1. Carries(j)' = Carries(j) /\ Bags(j)' = Bags(j)
    BY <1>1, <1>2 DEF Carries, Bags
  <2>. QED BY <1>1, <1>2, <2>1, Stays
<1>3. CASE SendAll(Discarded(p), <<>>) /\ ruined' = ruined \cup ItemsOf(Discarded(p))
  <2>1. Discarded(p) \in SUBSET DOMAIN mail
    BY DEF Discarded, Inbox
  <2>. QED BY <1>1, <1>3, <2>1, SentAway
<1>. QED BY <1>2, <1>3 DEF GetMail, SaveMail, Logout, Login

LEMMA TakeMoneyItems ==
    ASSUME IInv, NEW p \in Player, NEW n \in DOMAIN mail, TakeMoney(p, n),
           NEW j \in Item, Alone(j)
    PROVE  Alone(j)'
<1>. DEFINE m == [mail[n] EXCEPT !.coins = 0]
<1>1. m \in Rows /\ m.item = mail[n].item
  BY RowTyped DEF IInv, Rows, MailRow
<1>2. SaveWith(p, n, m, <<>>) /\ bag' = bag /\ auction' = auction
  BY DEF TakeMoney
<1>. HIDE DEF m
<1>3. PICK ms \in Seq(Rows) : Silent(ms) /\ SaveWith(p, n, m, ms)
  BY <1>2, OneOrNone, OneMailItems
<1>4. Carries(j)' = ((Carries(j) \ {n}) \cup (IF m.item = j THEN {n} ELSE {})) \ Discarded(p)
  BY <1>1, <1>3, SaveWithCarries DEF IInv
<1>5. n \in Carries(j) <=> m.item = j
  BY <1>1 DEF Carries
<1>6. Carries(j)' = Carries(j) \ Discarded(p)
  BY <1>4, <1>5
<1>7. Discarded(p) \in SUBSET DOMAIN mail /\ ruined' = ruined \cup ItemsOf(Discarded(p))
  BY <1>2 DEF Discarded, Inbox, SaveWith
<1>8. Bags(j)' = Bags(j)
  BY <1>2 DEF Bags
<1>. QED BY <1>2, <1>6, <1>7, <1>8, Discards

LEMMA TakeItemItems ==
    ASSUME IInv, NEW p \in Player, NEW n \in DOMAIN mail, NEW i \in Listed(n),
           TakeItem(p, n, i), NEW j \in Item, Alone(j)
    PROVE  Alone(j)'
<1>. DEFINE m == mail[n]
            t == Taken(m, i)
            pay == IF m.cod > 0 THEN <<PlayerMail(m.from, p, m.cod, 0, NoItem, FALSE, FALSE)>>
                   ELSE <<>>
<1>0. i = m.item /\ m.item # NoItem
  BY DEF Listed, ItemsOf
<1>1. /\ m \in MailRow /\ i \in Item /\ m.cod \in Nat /\ (m.cod > 0 => m.from \in Player)
      /\ (m.normal => m.from \in Player) /\ ~m.deleted
  BY <1>0, RowTyped DEF TakeItem, Readable, IInv, Rows, MailRow
<1>2. t \in Rows /\ t.item = NoItem
  <2>1. t \in MailRow
    BY <1>1 DEF Taken, MailRow
  <2>2. t.normal = m.normal /\ t.from = m.from /\ t.cod = 0 /\ t.item = NoItem
    BY <1>0, <1>1 DEF Taken, MailRow
  <2>. QED BY <1>1, <2>1, <2>2 DEF Rows
<1>3. pay \in Seq(Rows) /\ Silent(pay)
  <2>1. CASE m.cod > 0
    <3>. DEFINE c == PlayerMail(m.from, p, m.cod, 0, NoItem, FALSE, FALSE)
    <3>1. c \in Rows /\ c.item = NoItem
      BY <1>1, <2>1, PlayerMailTyped DEF PlayerMail
    <3>. HIDE DEF c
    <3>2. <<c>> \in Seq(Rows) /\ Silent(<<c>>)
      BY <3>1, OneOrNone, OneMailItems
    <3>. QED BY <2>1, <3>2 DEF c
  <2>2. CASE ~(m.cod > 0)
    BY <2>2, OneOrNone, OneMailItems
  <2>. QED BY <2>1, <2>2
<1>4. SaveWith(p, n, t, pay) /\ bag' = [bag EXCEPT ![p] = @ \cup {i}] /\ auction' = auction
  BY DEF TakeItem
<1>. HIDE DEF t, pay
<1>5. ruined' = ruined \cup ItemsOf(Discarded(p))
  BY <1>4 DEF SaveWith
<1>6. Carries(j)' = (Carries(j) \ {n}) \ Discarded(p)
  <2>1. MailTypes /\ t.item # j
    BY <1>2, AuctionConstants DEF IInv
  <2>2. Carries(j)' = ((Carries(j) \ {n}) \cup (IF t.item = j THEN {n} ELSE {})) \ Discarded(p)
    BY <1>2, <1>3, <1>4, <2>1, SaveWithCarries
  <2>. QED BY <2>1, <2>2
<1>7. Bags(j)' = IF j = i THEN Bags(j) \cup {p} ELSE Bags(j)
  BY <1>4 DEF Bags, IInv, PurseTypes
<1>8. Discarded(p) \in SUBSET DOMAIN mail /\ n \notin Discarded(p)
  BY <1>1 DEF Discarded, Inbox
<1>9. n \in Carries(j) <=> j = i
  BY <1>0 DEF Carries
<1>10. CASE j # i
  <2>1. Carries(j)' = Carries(j) \ Discarded(p)
    BY <1>6, <1>9, <1>10
  <2>. QED BY <1>4, <1>5, <1>7, <1>8, <1>10, <2>1, Discards
<1>11. CASE j = i
  <2>1. Carries(j) = {n} /\ Bags(j) = {} /\ auction[j] = NoAuction /\ j \notin ruined
    BY <1>9, <1>11 DEF Alone, Bagged, Mailed, Auctioned, Ruined
  <2>2. j \notin ItemsOf(Discarded(p))
    BY <1>8, <2>1 DEF ItemsOf, Carries
  <2>3. Carries(j)' = {} /\ Bags(j)' = {p}
    BY <1>6, <1>7, <1>11, <2>1
  <2>. QED BY <1>4, <1>5, <2>1, <2>2, <2>3 DEF Alone, Bagged
<1>. QED BY <1>10, <1>11

LEMMA ReturnItems ==
    ASSUME IInv, NEW p \in Player, NEW n \in DOMAIN mail, ReturnToSender(p, n),
           NEW j \in Item, Alone(j)
    PROVE  Alone(j)'
<1>. DEFINE m == mail[n]
            r == PlayerMail(m.from, p, m.coins, 0, m.item, m.item # NoItem, TRUE)
<1>1. m \in Rows /\ m \in MailRow /\ bag' = bag /\ auction' = auction
  BY RowTyped DEF ReturnToSender, IInv
<1>2. CASE ~m.normal
  <2>1. SendAll({n}, <<>>) /\ ruined' = ruined \cup ItemsOf({n})
    BY <1>2 DEF ReturnToSender
  <2>. QED BY <1>1, <2>1, SentAway
<1>3. CASE m.normal
  <2>1. SendAll({n}, <<r>>) /\ ruined' = ruined
    BY <1>3 DEF ReturnToSender
  <2>2. r \in Rows /\ r.item = m.item /\ m.item \in Item \cup {NoItem}
    BY <1>1, <1>3, PlayerMailTyped DEF PlayerMail, Rows, MailRow
  <2>. HIDE DEF r
  <2>3. MailTypes /\ <<r>> \in Seq(Rows)
    BY <2>2, OneOrNone DEF IInv
  <2>4. PICK gone \in SUBSET DOMAIN mail : gone = {n} /\ SendAll(gone, <<r>>)
    BY <2>1
  <2>5. n \in Carries(j) <=> j = m.item
    BY DEF Carries
  <2>6. Bags(j)' = Bags(j)
    BY <1>1 DEF Bags
  <2>7. CASE j # m.item
    <3>1. Carries(j)' = Carries(j) \ gone
      <4>1. Len(<<r>>) = 1 /\ <<r>>[1] = r
        OBVIOUS
      <4>2. PICK ms : ms = <<r>>
        OBVIOUS
      <4>3. ms \in Seq(Rows) /\ SendAll(gone, ms)
        BY <2>3, <2>4, <4>2
      <4>4. \A k \in 1 .. Len(ms) : ms[k].item # j
        BY <2>2, <2>7, <4>1, <4>2
      <4>. QED BY <2>3, <4>3, <4>4, SendAllCarries
    <3>2. Carries(j)' = Carries(j)
      BY <2>4, <2>5, <2>7, <3>1
    <3>. QED BY <1>1, <2>1, <2>6, <3>2, Stays
  <2>8. CASE j = m.item
    <3>1. Carries(j) = {n} /\ Bags(j) = {} /\ auction[j] = NoAuction /\ j \notin ruined
      BY <2>5, <2>8 DEF Alone, Bagged, Mailed, Auctioned, Ruined
    <3>2. Brings(<<r>>, j)
      BY <2>2, <2>8, OneMailItems
    <3>3. Carries(j) \ gone = {} => \E k : Carries(j)' = {k}
      BY <2>3, <2>4, <3>2, BringsCarries
    <3>4. \E k : Carries(j)' = {k}
      BY <2>4, <3>1, <3>3
    <3>. QED BY <1>1, <2>1, <2>6, <3>1, <3>4 DEF Alone, Mailed
  <2>. QED BY <2>7, <2>8
<1>. QED BY <1>2, <1>3

LEMMA OldMailItems ==
    ASSUME IInv, NEW n \in DOMAIN mail, OldMail(n), NEW j \in Item, Alone(j)
    PROVE  Alone(j)'
<1>. DEFINE m == mail[n]
            r == PlayerMail(m.from, m.to, m.coins, 0, m.item, FALSE, TRUE)
<1>1. bag' = bag /\ auction' = auction
  BY DEF OldMail
<1>2. CASE mail' = [mail EXCEPT ![n] = r] /\ ruined' = ruined
  <2>1. r.item = m.item
    BY DEF PlayerMail
  <2>. QED BY <1>1, <1>2, <2>1, RowItems
<1>3. CASE SendAll({n}, <<>>) /\ ruined' = ruined \cup ItemsOf({n})
  BY <1>1, <1>3, SentAway
<1>. QED BY <1>2, <1>3 DEF OldMail
-----------------------------------------------------------------------------
(* Items are never lost or doubled.                                        *)

AllAlone == \A i \in Item : Alone(i)

LEMMA InitAllAlone == Init => AllAlone
<1>. SUFFICES ASSUME Init, NEW i \in Item PROVE Bagged(i)
  BY DEF AllAlone, Alone
<1>1. PICK p \in Player : bag = [q \in Player |-> IF q = p THEN Item ELSE {}]
  BY DEF Init
<1>2. Bags(i) = {p}
  BY <1>1 DEF Bags
<1>3. Carries(i) = {} /\ auction[i] = NoAuction /\ i \notin ruined
  BY DEF Init, Carries
<1>. QED BY <1>2, <1>3 DEF Bagged

LEMMA NextAllAlone ==
    ASSUME LogTrade = TRUE
    PROVE  IInv /\ AllAlone /\ [Next]_vars => AllAlone'
<1>. SUFFICES ASSUME IInv, AllAlone, [Next]_vars, NEW j \in Item PROVE Alone(j)'
  BY DEF AllAlone
<1>0. Alone(j)
  BY DEF AllAlone
<1>1. ASSUME NEW p \in Player, NEW i \in Item, RemoveItem(p, i) PROVE Alone(j)'
  BY <1>0, <1>1, RemoveItemItems
<1>2. ASSUME NEW p \in Player, NEW i \in Item, NEW s \in Starts, NEW b \in Buyouts,
             SellItem(p, i, s, b)
      PROVE  Alone(j)'
  BY <1>0, <1>2, SellItemItems
<1>3. ASSUME NEW p \in Player, NEW i \in Item, NEW price \in 1 .. MaxMoney,
             PlaceBid(p, i, price) \/ Buyout(p, i, price)
      PROVE  Alone(j)'
  BY <1>0, <1>3, PlaceBidItems, BuyoutItems
<1>4. ASSUME NEW p \in Player, NEW q \in Player, NEW coins \in Gifts, NEW cod \in Gifts,
             NEW item \in bag[p] \cup {NoItem}, SendMail(p, q, coins, cod, item)
      PROVE  Alone(j)'
  BY <1>0, <1>4, SendMailItems
<1>5. ASSUME NEW p \in Player, GetMail(p) \/ SaveMail(p) \/ Logout(p) \/ Login(p)
      PROVE  Alone(j)'
  BY <1>0, <1>5, PeopleItems
<1>6. ASSUME NEW p \in Player, NEW n \in DOMAIN mail,
             TakeMoney(p, n) \/ (\E i \in Listed(n) : TakeItem(p, n, i)) \/ MailDelete(p, n)
             \/ MarkAsRead(p, n) \/ ReturnToSender(p, n)
      PROVE  Alone(j)'
  BY <1>0, <1>6, TakeMoneyItems, TakeItemItems, RowStepItems, ReturnItems
<1>7. ASSUME NEW i \in Item, TimeUp(i) \/ Update(i) PROVE Alone(j)'
  BY <1>0, <1>7, TimeUpItems, UpdateItems
<1>8. ASSUME NEW n \in DOMAIN mail, Deliver(n) \/ OldMail(n) PROVE Alone(j)'
  BY <1>0, <1>8, RowStepItems, OldMailItems
<1>9. CASE UNCHANGED vars
  <2>1. Carries(j)' = Carries(j) /\ Bags(j)' = Bags(j) /\ auction' = auction /\ ruined' = ruined
    BY <1>9 DEF vars, Carries, Bags
  <2>. QED BY <1>0, <2>1, Stays
<1>10. CASE Next
  BY <1>10, <1>1, <1>2, <1>3, <1>4, <1>5, <1>6, <1>7, <1>8 DEF Next
<1>. QED BY <1>9, <1>10

LEMMA AloneIsOnce == AllAlone => ItemOnce
<1>. SUFFICES ASSUME NEW i \in Item, Alone(i)
     PROVE  Cardinality(Bags(i)) + Cardinality(Carries(i))
            + (IF auction[i] # NoAuction THEN 1 ELSE 0) + (IF i \in ruined THEN 1 ELSE 0) = 1
  BY DEF AllAlone, ItemOnce, Bags, Carries
<1>1. Cardinality({}) = 0 /\ \A x : Cardinality({x}) = 1
  BY FS_EmptySet, FS_Singleton
<1>2. CASE Bagged(i)
  <2>1. Cardinality(Bags(i)) = 1 /\ Cardinality(Carries(i)) = 0
    BY <1>1, <1>2 DEF Bagged
  <2>. QED BY <1>2, <2>1 DEF Bagged
<1>3. CASE Mailed(i)
  <2>1. Cardinality(Bags(i)) = 0 /\ Cardinality(Carries(i)) = 1
    BY <1>1, <1>3 DEF Mailed
  <2>. QED BY <1>3, <2>1 DEF Mailed
<1>4. CASE Auctioned(i) \/ Ruined(i)
  <2>1. Cardinality(Bags(i)) = 0 /\ Cardinality(Carries(i)) = 0
    BY <1>1, <1>4 DEF Auctioned, Ruined
  <2>. QED BY <1>4, <2>1 DEF Auctioned, Ruined
<1>. QED BY <1>2, <1>3, <1>4 DEF Alone

\* Where trades are logged, an item is always in exactly one place, whatever is sold, bid,
\* bought out, refused, mailed, taken, sent back, deleted and expired, in whatever order: no
\* handler copies an item and none drops one without deleting it.  (Where they are not,
\* Update() loses the item of an offline winner: WinnerGetsItem.)  This is for clients that
\* ask HandleTakeItem() only for items listed with the mail: it does not check that itself.
THEOREM ItemsNeverLost ==
    ASSUME LogTrade = TRUE
    PROVE  Spec => []ItemOnce
<1>1. Init => IInv /\ AllAlone
  BY InitIInv, InitAllAlone
<1>2. IInv /\ AllAlone /\ [Next]_vars => (IInv /\ AllAlone)'
  BY NextIInv, NextAllAlone
<1>3. IInv /\ AllAlone => ItemOnce
  BY AloneIsOnce
<1>. QED BY <1>1, <1>2, <1>3, PTL DEF Spec
-----------------------------------------------------------------------------
(* Sums: what the mails and the bids of a player are worth.                *)

\* What the mails of T, a table or a sequence, are worth to p.
Share(m, p)     == IF m.to = p THEN m.coins ELSE 0
Shares(T, p)    == [n \in DOMAIN T |-> Share(T[n], p)]
MailWorth(T, p) == Total(Shares(T, p), DOMAIN T)
Table(T)        == IsFiniteSet(DOMAIN T) /\ \A n \in DOMAIN T : T[n] \in Rows

\* What the bids of p in A are worth to him.
Live(A)        == {i \in Item : A[i] # NoAuction}
Stake(a, p)    == IF a # NoAuction /\ a.bidder = p THEN a.bid ELSE 0
Stakes(A, p)   == [i \in Item |-> Stake(A[i], p)]
BidWorth(A, p) == Total(Stakes(A, p), Live(A))
Auctions(A)    == A \in [Item -> AuctionEntry \cup {NoAuction}] /\ IsFiniteSet(Live(A))

\* What a mail is worth to p is a natural number.
LEMMA ShareNat ==
    ASSUME NEW m \in Rows, NEW p
    PROVE  Share(m, p) \in Nat
  BY DEF Share, Rows, MailRow

\* So are his shares in a table of mails, and their sum.
LEMMA SharesNat ==
    ASSUME NEW T, Table(T), NEW p
    PROVE  /\ \A n \in DOMAIN T : Shares(T, p)[n] = Share(T[n], p) /\ Shares(T, p)[n] \in Nat
           /\ Ints(Shares(T, p), DOMAIN T) /\ MailWorth(T, p) \in Nat
<1>1. \A n \in DOMAIN T : Shares(T, p)[n] = Share(T[n], p) /\ Shares(T, p)[n] \in Nat
  BY ShareNat DEF Table, Shares
<1>2. Ints(Shares(T, p), DOMAIN T)
  BY <1>1 DEF Ints
<1>3. MailWorth(T, p) \in Nat
  BY <1>1, TotalNat DEF MailWorth, Table
<1>. QED BY <1>1, <1>2, <1>3

\* Some mails of T stay, and others come, numbered from b on.
Moved(T, kept, ms, b, V) ==
    /\ kept \subseteq DOMAIN T /\ ms \in Seq(Rows) /\ b \in Nat
    /\ DOMAIN V = kept \cup (b .. b + Len(ms) - 1)
    /\ \A n \in kept : V[n] = T[n] /\ n \notin b .. b + Len(ms) - 1
    /\ \A k \in 1 .. Len(ms) : V[b + k - 1] = ms[k]

\* The table keeps some mails and takes those of ms at new numbers.
LEMMA MailsMove ==
    ASSUME NEW T, Table(T), NEW kept, NEW ms, NEW b, NEW V, Moved(T, kept, ms, b, V), NEW p
    PROVE  /\ Table(V) /\ Table(ms)
           /\ MailWorth(V, p) <= MailWorth(T, p) + MailWorth(ms, p)
           /\ kept = DOMAIN T => MailWorth(V, p) = MailWorth(T, p) + MailWorth(ms, p)
<1>. DEFINE new == b .. b + Len(ms) - 1
            K   == 1 .. Len(ms)
            h   == [k \in K |-> b + k - 1]
<1>0. /\ kept \subseteq DOMAIN T /\ ms \in Seq(Rows) /\ b \in Nat
      /\ DOMAIN V = kept \cup new
      /\ \A n \in kept : V[n] = T[n] /\ n \notin new
      /\ \A k \in K : V[b + k - 1] = ms[k]
  BY DEF Moved
<1>1. Len(ms) \in Nat /\ DOMAIN ms = K /\ \A k \in K : ms[k] \in Rows
  BY <1>0
<1>2. Table(ms)
  BY <1>0, <1>1, FS_Interval DEF Table
<1>3. new = {h[k] : k \in K} /\ \A k \in K : h[k] = b + k - 1 /\ h[k] \in new
  <2>1. \A n \in new : n - b + 1 \in K /\ h[n - b + 1] = n
    BY <1>0, <1>1
  <2>2. \A k \in K : h[k] = b + k - 1 /\ h[k] \in new
    BY <1>0, <1>1
  <2>. HIDE DEF h, new, K
  <2>3. new \subseteq {h[k] : k \in K}
    BY <1>0, <2>1
  <2>. QED BY <2>2, <2>3
<1>4. \A j, k \in K : h[j] = h[k] => j = k
  BY <1>0, <1>1
<1>5. IsFiniteSet(kept) /\ IsFiniteSet(K)
  BY <1>0, <1>1, FS_Subset, FS_Interval DEF Table
<1>6. /\ \A k \in K : h[k] \notin kept /\ V[h[k]] = ms[k] /\ V[h[k]] \in Rows
      /\ \A n \in kept : V[n] \in Rows
  BY <1>0, <1>1, <1>3 DEF Table
<1>. HIDE DEF h, K
<1>7. Table(V)
  <2>1. IsFiniteSet(new)
    BY <1>0, <1>1, FS_Interval
  <2>2. IsFiniteSet(kept \cup new)
    BY <1>0, <1>5, <2>1, FS_Union
  <2>3. \A n \in kept \cup new : V[n] \in Rows
    BY <1>0, <1>3, <1>6
  <2>. QED BY <1>0, <2>2, <2>3 DEF Table
<1>8. Ints(Shares(T, p), kept) /\ Ints(Shares(ms, p), K)
  BY <1>0, <1>1, <1>2, SharesNat DEF Ints
<1>9. /\ \A n \in kept : Shares(V, p)[n] = Shares(T, p)[n]
      /\ \A k \in K : Shares(V, p)[h[k]] = Shares(ms, p)[k]
  <2>1. \A n \in kept : n \in DOMAIN V /\ n \in DOMAIN T
    BY <1>0
  <2>2. \A k \in K : h[k] \in DOMAIN V
    BY <1>0, <1>3
  <2>. QED BY <1>0, <1>1, <1>2, <1>6, <1>7, <2>1, <2>2, SharesNat
<1>10. Total(Shares(V, p), kept \cup {h[k] : k \in K})
         = Total(Shares(T, p), kept) + Total(Shares(ms, p), K)
  <2>. DEFINE f == Shares(T, p)
              g == Shares(ms, p)
              v == Shares(V, p)
  <2>1. Ints(f, kept) /\ Ints(g, K) /\ (\A n \in kept : v[n] = f[n]) /\ \A k \in K : v[h[k]] = g[k]
    BY <1>0, <1>8, <1>9
  <2>2. \A k \in K : h[k] \notin kept
    BY <1>6
  <2>. HIDE DEF f, g, v
  <2>3. Total(v, kept \cup {h[k] : k \in K}) = Total(f, kept) + Total(g, K)
    BY <1>4, <1>5, <2>1, <2>2, TotalJoin
  <2>. QED BY <2>3 DEF f, g, v
<1>11. MailWorth(V, p) = Total(Shares(T, p), kept) + MailWorth(ms, p)
  BY <1>0, <1>1, <1>3, <1>10 DEF MailWorth
<1>12. Total(Shares(T, p), kept) <= MailWorth(T, p)
  <2>. DEFINE f == Shares(T, p)
  <2>1. Ints(f, DOMAIN T) /\ \A n \in DOMAIN T : f[n] \in Nat
    BY SharesNat
  <2>. HIDE DEF f
  <2>2. \A n \in kept : f[n] <= f[n]
    BY <1>0, <2>1
  <2>3. \A n \in DOMAIN T \ kept : f[n] >= 0
    BY <1>0, <2>1
  <2>4. Ints(f, kept) /\ IsFiniteSet(DOMAIN T)
    BY <1>0, <2>1 DEF Ints, Table
  <2>5. Total(f, kept) <= Total(f, DOMAIN T)
    BY <1>0, <2>1, <2>2, <2>3, <2>4, TotalLe
  <2>. QED BY <2>5 DEF f, MailWorth
<1>13. Total(Shares(T, p), kept) \in Int /\ MailWorth(T, p) \in Nat /\ MailWorth(ms, p) \in Nat
  BY <1>2, <1>5, <1>8, TotalInt, SharesNat
<1>. QED BY <1>0, <1>2, <1>7, <1>11, <1>12, <1>13 DEF MailWorth

\* One mail of the table changes.
LEMMA MailChanges ==
    ASSUME NEW T, Table(T), NEW n \in DOMAIN T, NEW m \in Rows, NEW p
    PROVE  LET U == [T EXCEPT ![n] = m] IN
           /\ Table(U) /\ DOMAIN U = DOMAIN T
           /\ MailWorth(U, p) = MailWorth(T, p) + (Share(m, p) - Share(T[n], p))
<1>. DEFINE U == [T EXCEPT ![n] = m]
<1>1. DOMAIN U = DOMAIN T /\ U[n] = m /\ \A k \in DOMAIN T : k # n => U[k] = T[k]
  OBVIOUS
<1>. HIDE DEF U
<1>2. Table(U)
  BY <1>1 DEF Table
<1>3. /\ \A k \in DOMAIN T : Shares(T, p)[k] = Share(T[k], p) /\ Shares(U, p)[k] = Share(U[k], p)
      /\ Ints(Shares(T, p), DOMAIN T) /\ Ints(Shares(U, p), DOMAIN T) /\ IsFiniteSet(DOMAIN T)
  BY <1>1, <1>2, SharesNat DEF Table
<1>. DEFINE f == Shares(T, p)
            g == Shares(U, p)
<1>4. /\ Ints(f, DOMAIN T) /\ Ints(g, DOMAIN T) /\ \A k \in DOMAIN T : k # n => g[k] = f[k]
      /\ g[n] = Share(m, p) /\ f[n] = Share(T[n], p)
  BY <1>1, <1>3
<1>. HIDE DEF f, g
<1>5. Total(g, DOMAIN T) = Total(f, DOMAIN T) + (g[n] - f[n])
  BY <1>3, <1>4, TotalChange
<1>6. MailWorth(U, p) = MailWorth(T, p) + (Share(m, p) - Share(T[n], p))
  BY <1>1, <1>4, <1>5 DEF f, g, MailWorth
<1>. QED BY <1>1, <1>2, <1>6 DEF U

\* No mail, one mail, and the mails of two sequences.
LEMMA MailsOf ==
    ASSUME NEW p
    PROVE  /\ MailWorth(<<>>, p) = 0
           /\ \A m \in Rows : MailWorth(<<m>>, p) = Share(m, p)
           /\ \A s, t \in Seq(Rows) : MailWorth(s \o t, p) = MailWorth(s, p) + MailWorth(t, p)
<1>1. MailWorth(<<>>, p) = 0
  <2>1. DOMAIN <<>> = {}
    OBVIOUS
  <2>. QED BY <2>1, TotalEmpty DEF MailWorth
<1>2. ASSUME NEW m \in Rows PROVE MailWorth(<<m>>, p) = Share(m, p)
  <2>. DEFINE f == Shares(<<m>>, p)
  <2>1. DOMAIN <<m>> = {1} /\ <<m>>[1] = m
    OBVIOUS
  <2>2. f[1] = Share(m, p) /\ f[1] \in Nat
    BY <2>1, ShareNat DEF Shares
  <2>. HIDE DEF f
  <2>3. Ints(f, {} \cup {1}) /\ 1 \notin {} /\ {} \cup {1} = {1}
    BY <2>2 DEF Ints
  <2>4. Total(f, {} \cup {1}) = Total(f, {}) + f[1]
    BY <2>3, FS_EmptySet, TotalAdd
  <2>5. Total(f, {1}) = Share(m, p)
    BY <2>2, <2>3, <2>4, TotalEmpty
  <2>. QED BY <2>1, <2>5 DEF f, MailWorth
<1>3. ASSUME NEW s \in Seq(Rows), NEW t \in Seq(Rows)
      PROVE  MailWorth(s \o t, p) = MailWorth(s, p) + MailWorth(t, p)
  <2>. DEFINE r == s \o t
              b == Len(s) + 1
  <2>1. /\ Len(s) \in Nat /\ Len(t) \in Nat /\ DOMAIN s = 1 .. Len(s) /\ b \in Nat
        /\ DOMAIN r = 1 .. Len(s) + Len(t)
        /\ \A k \in 1 .. Len(s) : r[k] = s[k] /\ s[k] \in Rows
        /\ \A k \in 1 .. Len(t) : r[Len(s) + k] = t[k]
    OBVIOUS
  <2>. HIDE DEF r
  <2>2. Table(s)
    BY <2>1, FS_Interval DEF Table
  <2>3. \A k \in 1 .. Len(t) : r[b + k - 1] = t[k]
    <3>1. \A k \in 1 .. Len(t) : b + k - 1 = Len(s) + k
      BY <2>1
    <3>. QED BY <2>1, <3>1
  <2>4. /\ DOMAIN r = DOMAIN s \cup (b .. b + Len(t) - 1)
        /\ \A n \in DOMAIN s : r[n] = s[n] /\ n \notin b .. b + Len(t) - 1
    BY <2>1
  <2>. HIDE DEF b
  <2>5. DOMAIN s \in SUBSET DOMAIN s /\ b \in Nat
    BY <2>1
  <2>6. \A n \in DOMAIN s : r[n] = s[n] /\ n \notin b .. b + Len(t) - 1
    BY <2>4
  <2>7. DOMAIN r = DOMAIN s \cup (b .. b + Len(t) - 1)
    BY <2>4
  <2>8. Moved(s, DOMAIN s, t, b, r)
    BY <2>3, <2>5, <2>6, <2>7 DEF Moved
  <2>9. MailWorth(r, p) = MailWorth(s, p) + MailWorth(t, p)
    BY <2>2, <2>8, MailsMove
  <2>. QED BY <2>9 DEF r
<1>. QED BY <1>1, <1>2, <1>3

\* The mails are finitely many.
LEMMA MailTable ==
    ASSUME MailTypes
    PROVE  Table(mail)
<1>1. IsFiniteSet(1 .. nextMail - 1) /\ DOMAIN mail \subseteq 1 .. nextMail - 1
  BY FS_Interval DEF MailTypes
<1>2. IsFiniteSet(DOMAIN mail)
  BY <1>1, FS_Subset
<1>. QED BY <1>2, RowTyped DEF Table

\* What SendMailTo() does to the worth of the mails of p.
LEMMA SendAllWorth ==
    ASSUME MailTypes, NEW gone \in SUBSET DOMAIN mail, NEW ms \in Seq(Rows), SendAll(gone, ms), NEW p
    PROVE  /\ MailWorth(mail, p) \in Nat /\ MailWorth(mail', p) \in Nat /\ MailWorth(ms, p) \in Nat
           /\ MailWorth(mail', p) <= MailWorth(mail, p) + MailWorth(ms, p)
           /\ gone = {} => MailWorth(mail', p) = MailWorth(mail, p) + MailWorth(ms, p)
<1>. DEFINE kept == DOMAIN mail \ gone
            new  == nextMail .. nextMail + Len(ms) - 1
<1>1. /\ DOMAIN mail' = kept \cup new
      /\ \A n \in kept \cup new : mail'[n] = IF n \in kept THEN mail[n] ELSE ms[n - nextMail + 1]
  BY DEF SendAll
<1>2. /\ nextMail \in Nat /\ Len(ms) \in Nat
      /\ \A n \in kept : n \notin new
      /\ \A k \in 1 .. Len(ms) : nextMail + k - 1 \in new
                                 /\ (nextMail + k - 1) - nextMail + 1 = k
  BY DEF MailTypes
<1>3. \A k \in 1 .. Len(ms) : mail'[nextMail + k - 1] = ms[k]
  BY <1>1, <1>2
<1>4. Moved(mail, kept, ms, nextMail, mail')
  BY <1>1, <1>2, <1>3 DEF Moved
<1>5. Table(mail)
  BY MailTable
<1>6. /\ Table(mail') /\ Table(ms)
      /\ MailWorth(mail', p) <= MailWorth(mail, p) + MailWorth(ms, p)
      /\ kept = DOMAIN mail => MailWorth(mail', p) = MailWorth(mail, p) + MailWorth(ms, p)
  BY <1>4, <1>5, MailsMove
<1>7. gone = {} => kept = DOMAIN mail
  OBVIOUS
<1>. HIDE DEF kept
<1>. QED BY <1>5, <1>6, <1>7, SharesNat

\* A mail goes, and others come.
LEMMA MailGoes ==
    ASSUME MailTypes, NEW n \in DOMAIN mail, NEW ms \in Seq(Rows), SendAll({n}, ms), NEW p
    PROVE  /\ MailWorth(mail', p) \in Nat /\ MailWorth(mail, p) \in Nat
           /\ MailWorth(mail', p) <= MailWorth(mail, p) - Share(mail[n], p) + MailWorth(ms, p)
<1>. DEFINE m    == [mail[n] EXCEPT !.coins = 0]
            U    == [mail EXCEPT ![n] = m]
            kept == DOMAIN mail \ {n}
            new  == nextMail .. nextMail + Len(ms) - 1
<1>1. m \in Rows /\ Share(m, p) = 0
  BY RowTyped DEF Rows, MailRow, Share
<1>. HIDE DEF m
<1>2. Table(U) /\ DOMAIN U = DOMAIN mail /\ Table(mail)
      /\ MailWorth(U, p) = MailWorth(mail, p) + (Share(m, p) - Share(mail[n], p))
  BY <1>1, MailTable, MailChanges
<1>3. /\ DOMAIN mail' = kept \cup new
      /\ \A k \in kept \cup new : mail'[k] = IF k \in kept THEN mail[k] ELSE ms[k - nextMail + 1]
      /\ \A k \in kept : U[k] = mail[k]
  BY DEF SendAll
<1>4. /\ nextMail \in Nat /\ Len(ms) \in Nat
      /\ \A k \in kept : k \notin new
      /\ \A k \in 1 .. Len(ms) : nextMail + k - 1 \in new
                                 /\ (nextMail + k - 1) - nextMail + 1 = k
  BY DEF MailTypes
<1>. HIDE DEF U
<1>5. \A k \in 1 .. Len(ms) : mail'[nextMail + k - 1] = ms[k]
  BY <1>3, <1>4
<1>6. Moved(U, kept, ms, nextMail, mail')
  BY <1>2, <1>3, <1>4, <1>5 DEF Moved
<1>7. /\ Table(mail') /\ Table(ms)
      /\ MailWorth(mail', p) <= MailWorth(U, p) + MailWorth(ms, p)
  BY <1>2, <1>6, MailsMove
<1>8. /\ MailWorth(U, p) \in Nat /\ MailWorth(mail, p) \in Nat /\ MailWorth(ms, p) \in Nat
      /\ MailWorth(mail', p) \in Nat /\ Share(mail[n], p) \in Nat
  BY <1>2, <1>7, SharesNat, ShareNat, RowTyped
<1>. QED BY <1>1, <1>2, <1>7, <1>8

\* What _SaveMail() does to it, after mail n has become m.
LEMMA SaveWithWorth ==
    ASSUME MailTypes, NEW q \in Player, NEW n \in DOMAIN mail, NEW m \in Rows,
           NEW ms \in Seq(Rows), SaveWith(q, n, m, ms), NEW p
    PROVE  /\ MailWorth(mail', p) \in Nat /\ MailWorth(mail, p) \in Nat
           /\ MailWorth(mail', p)
                <= MailWorth(mail, p) + Share(m, p) - Share(mail[n], p) + MailWorth(ms, p)
<1>. DEFINE U    == [mail EXCEPT ![n] = m]
            gone == Discarded(q) \cup (IF m.coins = 0 /\ m.item = NoItem THEN {n} ELSE {})
            kept == DOMAIN mail \ gone
            new  == nextMail .. nextMail + Len(ms) - 1
<1>2. Table(U) /\ DOMAIN U = DOMAIN mail /\ Table(mail)
      /\ MailWorth(U, p) = MailWorth(mail, p) + (Share(m, p) - Share(mail[n], p))
  BY MailTable, MailChanges
<1>3. mail' = [k \in kept \cup new |->
                 IF k = n THEN m ELSE IF k \in kept THEN mail[k] ELSE ms[k - nextMail + 1]]
  BY DEF SaveWith
<1>4. /\ nextMail \in Nat /\ Len(ms) \in Nat
      /\ \A k \in DOMAIN mail : k \notin new
      /\ \A k \in 1 .. Len(ms) : nextMail + k - 1 \in new
                                 /\ (nextMail + k - 1) - nextMail + 1 = k
  BY DEF MailTypes
<1>5. \A k \in 1 .. Len(ms) : mail'[nextMail + k - 1] = ms[k]
  BY <1>3, <1>4
<1>6. DOMAIN mail' = kept \cup new /\ \A k \in kept : mail'[k] = U[k]
  BY <1>3
<1>. HIDE DEF U
<1>7. Moved(U, kept, ms, nextMail, mail')
  BY <1>2, <1>4, <1>5, <1>6 DEF Moved
<1>8. /\ Table(mail') /\ Table(ms)
      /\ MailWorth(mail', p) <= MailWorth(U, p) + MailWorth(ms, p)
  BY <1>2, <1>7, MailsMove
<1>9. /\ MailWorth(U, p) \in Nat /\ MailWorth(mail, p) \in Nat /\ MailWorth(ms, p) \in Nat
      /\ MailWorth(mail', p) \in Nat /\ Share(mail[n], p) \in Nat /\ Share(m, p) \in Nat
  BY <1>2, <1>8, SharesNat, ShareNat, RowTyped
<1>. QED BY <1>2, <1>8, <1>9
-----------------------------------------------------------------------------
(* Bids.                                                                   *)

LEMMA EntryLive ==
    ASSUME NEW a \in AuctionEntry
    PROVE  /\ a # NoAuction /\ a.owner \in Player /\ a.bidder \in Player \cup {Nobody}
           /\ a.bid \in Nat /\ a.buyout \in Nat
<1>1. a.owner \in Player /\ NoAuction.owner = Nobody
  BY DEF AuctionEntry, NoAuction
<1>. QED BY <1>1, AuctionConstants DEF AuctionEntry

\* What the bids of p in finitely many auctions are worth.
LEMMA StakesNat ==
    ASSUME NEW A, Auctions(A), NEW p
    PROVE  /\ \A i \in Live(A) : A[i] \in AuctionEntry /\ Stakes(A, p)[i] = Stake(A[i], p)
                                 /\ Stakes(A, p)[i] \in Nat
           /\ Ints(Stakes(A, p), Live(A)) /\ BidWorth(A, p) \in Nat
<1>1. \A i \in Live(A) : A[i] \in AuctionEntry /\ Stakes(A, p)[i] = Stake(A[i], p)
  BY DEF Auctions, Live, Stakes
<1>2. \A i \in Live(A) : Stakes(A, p)[i] \in Nat
  BY <1>1, EntryLive DEF Stake
<1>3. Ints(Stakes(A, p), Live(A))
  BY <1>2 DEF Ints
<1>4. BidWorth(A, p) \in Nat
  BY <1>2, TotalNat DEF BidWorth, Auctions
<1>. QED BY <1>1, <1>2, <1>3, <1>4

Replaced(A, i, a, B) == B = [A EXCEPT ![i] = a]

\* An auction begins without a bid, changes or ends.
LEMMA AuctionBegins ==
    ASSUME NEW A, Auctions(A), NEW i \in Item, A[i] = NoAuction, NEW a \in AuctionEntry,
           a.bidder = Nobody, NEW B, Replaced(A, i, a, B), NEW p \in Player
    PROVE  /\ Auctions(B) /\ Live(B) = Live(A) \cup {i} /\ i \notin Live(A)
           /\ BidWorth(B, p) = BidWorth(A, p)
<1>1. /\ Live(B) = Live(A) \cup {i} /\ i \notin Live(A)
      /\ B[i] = a /\ \A j \in Live(A) : B[j] = A[j]
  BY EntryLive DEF Live, Auctions, Replaced
<1>2. Auctions(B)
  <2>1. IsFiniteSet(Live(A))
    BY DEF Auctions
  <2>2. IsFiniteSet(Live(A) \cup {i})
    BY <2>1, FS_AddElement
  <2>. QED BY <1>1, <2>2 DEF Auctions, Replaced
<1>3. BidWorth(B, p) = BidWorth(A, p)
  <2>. DEFINE f == Stakes(A, p)
              g == Stakes(B, p)
  <2>1. /\ Ints(f, Live(A)) /\ Ints(g, Live(A) \cup {i}) /\ g[i] = 0 /\ IsFiniteSet(Live(A))
        /\ \A j \in Live(A) : f[j] = g[j]
    <3>1. g[i] = 0
      BY <1>1, AuctionConstants DEF Stakes, Stake
    <3>2. \A j \in Live(A) : f[j] = g[j]
      BY <1>1 DEF Stakes, Live
    <3>3. Ints(f, Live(A)) /\ Ints(g, Live(B))
      BY <1>2, StakesNat
    <3>. QED BY <1>1, <3>1, <3>2, <3>3 DEF Auctions
  <2>. HIDE DEF f, g
  <2>2. Total(g, Live(A) \cup {i}) = Total(g, Live(A)) + g[i]
    BY <1>1, <2>1, TotalAdd
  <2>3. Total(f, Live(A)) = Total(g, Live(A)) /\ Total(f, Live(A)) \in Int
    BY <2>1, TotalSame, TotalInt
  <2>4. Total(g, Live(A) \cup {i}) = Total(f, Live(A))
    BY <2>1, <2>2, <2>3
  <2>. QED BY <1>1, <2>4 DEF f, g, BidWorth
<1>. QED BY <1>1, <1>2, <1>3

\* Auction i changes, and stays.
LEMMA AuctionChanges ==
    ASSUME NEW A, Auctions(A), NEW i \in Item, A[i] # NoAuction, NEW a \in AuctionEntry,
           NEW B, Replaced(A, i, a, B), NEW p
    PROVE  /\ Auctions(B) /\ Live(B) = Live(A)
           /\ BidWorth(B, p) = BidWorth(A, p) + (Stake(a, p) - Stake(A[i], p))
<1>1. Live(B) = Live(A) /\ i \in Live(A) /\ B[i] = a /\ \A j \in Item : j # i => B[j] = A[j]
  BY EntryLive DEF Live, Auctions, Replaced
<1>2. Auctions(B)
  BY <1>1 DEF Auctions, Replaced
<1>. DEFINE f == Stakes(A, p)
            g == Stakes(B, p)
<1>3. /\ Ints(f, Live(A)) /\ Ints(g, Live(A)) /\ IsFiniteSet(Live(A))
      /\ g[i] = Stake(a, p) /\ f[i] = Stake(A[i], p)
      /\ \A j \in Live(A) : j # i => g[j] = f[j]
  <2>1. g[i] = Stake(a, p) /\ f[i] = Stake(A[i], p)
    BY <1>1 DEF Stakes
  <2>2. \A j \in Live(A) : j # i => g[j] = f[j]
    BY <1>1 DEF Stakes, Live
  <2>. QED BY <1>1, <1>2, <2>1, <2>2, StakesNat DEF Auctions
<1>. HIDE DEF f, g
<1>4. Total(g, Live(A)) = Total(f, Live(A)) + (g[i] - f[i])
  BY <1>1, <1>3, TotalChange
<1>5. BidWorth(B, p) = BidWorth(A, p) + (Stake(a, p) - Stake(A[i], p))
  BY <1>1, <1>3, <1>4 DEF f, g, BidWorth
<1>. QED BY <1>1, <1>2, <1>5

\* Auction i ends.
LEMMA AuctionOver ==
    ASSUME NEW A, Auctions(A), NEW i \in Item, A[i] # NoAuction,
           NEW B, Replaced(A, i, NoAuction, B), NEW p
    PROVE  /\ Auctions(B) /\ i \in Live(A) /\ Live(B) = Live(A) \ {i}
           /\ BidWorth(B, p) = BidWorth(A, p) - Stake(A[i], p)
<1>1. i \in Live(A) /\ Live(B) = Live(A) \ {i} /\ \A j \in Item : j # i => B[j] = A[j]
  BY DEF Live, Auctions, Replaced
<1>2. Auctions(B)
  BY <1>1, FS_RemoveElement DEF Auctions, Replaced
<1>. DEFINE f == Stakes(A, p)
            g == Stakes(B, p)
            R == Live(A) \ {i}
<1>3. /\ Ints(f, Live(A)) /\ Ints(g, R) /\ IsFiniteSet(Live(A)) /\ IsFiniteSet(R)
      /\ f[i] = Stake(A[i], p) /\ f[i] \in Nat
      /\ \A j \in R : g[j] = f[j]
  <2>1. \A j \in R : g[j] = f[j]
    BY <1>1 DEF Stakes, Live
  <2>2. Ints(f, Live(A)) /\ Ints(g, Live(B)) /\ f[i] = Stake(A[i], p) /\ f[i] \in Nat
    BY <1>1, <1>2, StakesNat
  <2>3. IsFiniteSet(Live(A)) /\ IsFiniteSet(Live(B))
    BY <1>2 DEF Auctions
  <2>. QED BY <1>1, <2>1, <2>2, <2>3
<1>. HIDE DEF f, g
<1>4. Total(f, Live(A)) = Total(f, R) + f[i]
  BY <1>1, <1>3, TotalRemove
<1>. HIDE DEF R
<1>5. Total(g, R) = Total(f, R) /\ Total(g, R) \in Int
  BY <1>3, TotalSame, TotalInt
<1>6. Total(g, R) = Total(f, Live(A)) - f[i]
  BY <1>3, <1>4, <1>5
<1>7. BidWorth(B, p) = BidWorth(A, p) - Stake(A[i], p)
  BY <1>1, <1>3, <1>6 DEF f, g, R, BidWorth
<1>. QED BY <1>1, <1>2, <1>7
-----------------------------------------------------------------------------
(* What a step does to the wealth of each player.                          *)

Wealth(p) == money[p] + MailWorth(mail, p) + BidWorth(auction, p)
Counted   == IInv /\ IsFiniteSet(Live(auction))

\* What a player has is a natural number.
LEMMA WealthTypes ==
    ASSUME Counted
    PROVE  /\ Auctions(auction) /\ Table(mail)
           /\ \A p \in Player : /\ money[p] \in Nat /\ MailWorth(mail, p) \in Nat
                                /\ BidWorth(auction, p) \in Nat /\ Wealth(p) \in Nat
<1>1. Auctions(auction) /\ Table(mail)
  BY MailTable DEF Counted, IInv, AuctionTypes, Auctions
<1>2. ASSUME NEW p \in Player
      PROVE  money[p] \in Nat /\ MailWorth(mail, p) \in Nat /\ BidWorth(auction, p) \in Nat
  <2>1. money[p] \in 0 .. MaxMoney /\ MaxMoney \in Nat
    BY AuctionConstants DEF Counted, IInv, PurseTypes
  <2>. QED BY <1>1, <2>1, SharesNat, StakesNat
<1>3. \A p \in Player : Wealth(p) \in Nat
  BY <1>2 DEF Wealth
<1>. QED BY <1>1, <1>2, <1>3

\* A payment out of a purse that holds enough, and a gain.
LEMMA PurseMoves ==
    ASSUME Counted, NEW p \in Player, NEW c \in Nat
    PROVE  /\ money[p] >= c /\ money' = [money EXCEPT ![p] = Paid(p, c)] =>
                \A z \in Player : money'[z] = money[z] - (IF z = p THEN c ELSE 0)
           /\ money' = [money EXCEPT ![p] = Gained(p, c)] =>
                \A z \in Player : money'[z] \in Nat /\ money'[z] <= money[z] + (IF z = p THEN c ELSE 0)
<1>1. money \in [Player -> 0 .. MaxMoney] /\ MaxMoney \in Nat /\ \A z \in Player : money[z] \in Nat
  BY AuctionConstants, WealthTypes DEF Counted, IInv, PurseTypes
<1>2. money[p] >= c => Paid(p, c) = money[p] - c
  BY <1>1 DEF Paid
<1>3. Gained(p, c) \in Nat /\ Gained(p, c) <= money[p] + c
  BY <1>1 DEF Gained
<1>. QED BY <1>1, <1>2, <1>3

\* HandleAuctionSellItem(): the seller pays the deposit.
LEMMA SellItemWorth ==
    ASSUME Counted, NEW p \in Player, NEW i \in Item, NEW s \in Starts, NEW b \in Buyouts,
           SellItem(p, i, s, b)
    PROVE  /\ IsFiniteSet(Live(auction')) /\ i \notin Live(auction)
           /\ Live(auction') = Live(auction) \cup {i}
           /\ \A z \in Player : Wealth(z)' = Wealth(z) - (IF z = p THEN Deposit ELSE 0)
<1>. DEFINE a == [owner |-> p, start |-> s, buyout |-> b, bidder |-> Nobody, bid |-> 0,
                 timeUp |-> FALSE]
<1>1. a \in AuctionEntry /\ a.bidder = Nobody
  BY AuctionConstants DEF AuctionEntry
<1>2. auction' = [auction EXCEPT ![i] = a] /\ auction[i] = NoAuction /\ mail' = mail
      /\ money[p] >= Deposit /\ money' = [money EXCEPT ![p] = Paid(p, Deposit)]
  BY DEF SellItem
<1>. HIDE DEF a
<1>3. /\ Auctions(auction') /\ Live(auction') = Live(auction) \cup {i} /\ i \notin Live(auction)
      /\ \A z \in Player : BidWorth(auction', z) = BidWorth(auction, z)
  <2>1. Auctions(auction)
    BY WealthTypes
  <2>2. auction[i] = NoAuction /\ Replaced(auction, i, a, auction')
    BY <1>2 DEF Replaced
  <2>. QED BY <1>1, <2>1, <2>2, AuctionBegins
<1>4. \A z \in Player : money'[z] = money[z] - (IF z = p THEN Deposit ELSE 0)
  BY <1>2, PurseMoves, AuctionConstants
<1>5. ASSUME NEW z \in Player PROVE Wealth(z)' = Wealth(z) - (IF z = p THEN Deposit ELSE 0)
  <2>1. Wealth(z)' = money'[z] + MailWorth(mail, z) + BidWorth(auction, z)
    BY <1>2, <1>3 DEF Wealth
  <2>2. Wealth(z) = money[z] + MailWorth(mail, z) + BidWorth(auction, z)
    BY DEF Wealth
  <2>3. Deposit \in Nat
    BY AuctionConstants
  <2>. QED BY <1>4, <2>1, <2>2, <2>3, WealthTypes
<1>. QED BY <1>3, <1>5 DEF Auctions

\* The mails of an auction, and what they are worth.
LEMMA OutbiddedWorth ==
    ASSUME NEW a \in AuctionEntry, NEW p \in Player, NEW z \in Player
    PROVE  /\ OutbiddedMail(a, p) \in Seq(Rows)
           /\ MailWorth(OutbiddedMail(a, p), z) = IF a.bidder = z /\ z # p THEN a.bid ELSE 0
<1>1. a.bidder \in Player \cup {Nobody} /\ a.bid \in Nat
  BY EntryLive
<1>2. CASE a.bidder \in {Nobody, p}
  <2>1. OutbiddedMail(a, p) = <<>>
    BY <1>2 DEF OutbiddedMail
  <2>. QED BY <1>2, <2>1, MailsOf, OutbiddedTyped, AuctionConstants
<1>3. CASE a.bidder \notin {Nobody, p}
  <2>. DEFINE m == AuctionMail(a.bidder, a.bid, NoItem, FALSE)
  <2>1. OutbiddedMail(a, p) = <<m>>
    BY <1>3 DEF OutbiddedMail
  <2>2. m \in Rows
    BY <1>1, <1>3, AuctionMailTyped
  <2>3. Share(m, z) = IF a.bidder = z THEN a.bid ELSE 0
    BY DEF Share, AuctionMail
  <2>. HIDE DEF m
  <2>. QED BY <1>3, <2>1, <2>2, <2>3, MailsOf, OutbiddedTyped
<1>. QED BY <1>2, <1>3

\* The mail to the seller.
LEMMA SuccessfulWorth ==
    ASSUME NEW a, a.owner \in Player, a.bid \in Nat, NEW z \in Player
    PROVE  /\ SuccessfulMail(a) \in Seq(Rows) /\ AuctionCut(a) \in 0 .. a.bid
           /\ MailWorth(SuccessfulMail(a), z)
                = IF a.owner = z THEN a.bid + Deposit - AuctionCut(a) ELSE 0
<1>. DEFINE m == AuctionMail(a.owner, a.bid + Deposit - AuctionCut(a), NoItem, TRUE)
<1>1. AuctionCut(a) \in 0 .. a.bid
  BY CutBound DEF AuctionCut
<1>2. a.bid + Deposit - AuctionCut(a) \in Nat
  BY <1>1, AuctionConstants
<1>3. m \in Rows
  BY <1>2, AuctionMailTyped
<1>4. SuccessfulMail(a) = <<m>>
  BY DEF SuccessfulMail
<1>5. Share(m, z) = IF a.owner = z THEN a.bid + Deposit - AuctionCut(a) ELSE 0
  BY DEF Share, AuctionMail
<1>. HIDE DEF m
<1>. QED BY <1>1, <1>3, <1>4, <1>5, MailsOf, SuccessfulTyped

\* A mail with an item and without money.
LEMMA ItemMailWorth ==
    ASSUME NEW q \in Player, NEW i \in Item, NEW z
    PROVE  /\ <<AuctionMail(q, 0, i, FALSE)>> \in Seq(Rows)
           /\ MailWorth(<<AuctionMail(q, 0, i, FALSE)>>, z) = 0
<1>. DEFINE m == AuctionMail(q, 0, i, FALSE)
<1>1. m \in Rows
  BY AuctionMailTyped
<1>2. Share(m, z) = 0
  BY DEF Share, AuctionMail
<1>. HIDE DEF m
<1>3. <<m>> \in Seq(Rows) /\ MailWorth(<<m>>, z) = 0
  BY <1>1, <1>2, MailsOf, OneOrNone
<1>. QED BY <1>3 DEF m

\* The mail to the winner.
LEMMA WonWorth ==
    ASSUME NEW a, a.bidder \in Player, NEW i \in Item, NEW z
    PROVE  WonMail(a, i) \in Seq(Rows) /\ MailWorth(WonMail(a, i), z) = 0
<1>1. WonMail(a, i) = <<>> \/ WonMail(a, i) = <<AuctionMail(a.bidder, 0, i, FALSE)>>
  BY DEF WonMail
<1>. QED BY <1>1, ItemMailWorth, MailsOf, OneOrNone

\* A bid below the buyout: who is outbid has his money again.
LEMMA PlaceBidWorth ==
    ASSUME Counted, NEW p \in Player, NEW i \in Item, NEW price \in 1 .. MaxMoney,
           PlaceBid(p, i, price)
    PROVE  /\ IsFiniteSet(Live(auction')) /\ Live(auction') = Live(auction)
           /\ \A z \in Player : Wealth(z)' = Wealth(z)
<1>. DEFINE a == auction[i]
            b == [a EXCEPT !.bidder = p, !.bid = price]
            c == PriceFor(p, a, price)
<1>1. a \in AuctionEntry /\ a # NoAuction
  BY EntryTyped DEF PlaceBid, Counted, IInv
<1>2. price \in 0 .. MaxMoney /\ price \in Nat /\ price > a.bid /\ price <= money[p]
  BY AuctionConstants DEF PlaceBid
<1>3. b \in AuctionEntry /\ b.bidder = p /\ b.bid = price
  BY <1>1, <1>2 DEF AuctionEntry
<1>4. auction' = [auction EXCEPT ![i] = b]
  BY <1>1 DEF PlaceBid, Counted, IInv, AuctionTypes
<1>5. SendAll({}, OutbiddedMail(a, p)) /\ money' = [money EXCEPT ![p] = Paid(p, c)]
  BY DEF PlaceBid
<1>6. a.bid \in Nat /\ a.bidder \in Player \cup {Nobody} /\ Nobody \notin Player
  BY <1>1, EntryLive, AuctionConstants
<1>7. c \in Nat /\ c <= money[p] /\ c = IF a.bidder = p THEN price - a.bid ELSE price
  BY <1>2, <1>6, WealthTypes DEF PriceFor
<1>8. Auctions(auction) /\ Replaced(auction, i, b, auction')
  BY <1>4, WealthTypes DEF Replaced
<1>. HIDE DEF a, b, c
<1>9. /\ Auctions(auction') /\ Live(auction') = Live(auction)
      /\ \A z \in Player : BidWorth(auction', z) = BidWorth(auction, z) + (Stake(b, z) - Stake(a, z))
  BY <1>1, <1>3, <1>8, AuctionChanges DEF a
<1>10. \A z \in Player : MailWorth(mail', z) = MailWorth(mail, z) + MailWorth(OutbiddedMail(a, p), z)
  BY <1>1, <1>5, OutbiddedTyped, SendAllWorth DEF Counted, IInv
<1>11. \A z \in Player : money'[z] = money[z] - (IF z = p THEN c ELSE 0)
  BY <1>5, <1>7, PurseMoves, WealthTypes
<1>12. ASSUME NEW z \in Player PROVE Wealth(z)' = Wealth(z)
  <2>1. /\ Wealth(z)' = money'[z] + MailWorth(mail', z) + BidWorth(auction', z)
        /\ Wealth(z) = money[z] + MailWorth(mail, z) + BidWorth(auction, z)
    BY DEF Wealth
  <2>2. MailWorth(OutbiddedMail(a, p), z) = IF a.bidder = z /\ z # p THEN a.bid ELSE 0
    BY <1>1, OutbiddedWorth
  <2>3. /\ Stake(a, z) = IF a.bidder = z THEN a.bid ELSE 0
        /\ Stake(b, z) = IF z = p THEN price ELSE 0
    BY <1>1, <1>3, EntryLive DEF Stake
  <2>4. money[z] \in Nat /\ MailWorth(mail, z) \in Nat /\ BidWorth(auction, z) \in Nat
    BY WealthTypes
  <2>5. /\ money'[z] = money[z] - (IF z = p THEN c ELSE 0)
        /\ MailWorth(mail', z) = MailWorth(mail, z) + (IF a.bidder = z /\ z # p THEN a.bid ELSE 0)
        /\ BidWorth(auction', z) = BidWorth(auction, z)
             + ((IF z = p THEN price ELSE 0) - (IF a.bidder = z THEN a.bid ELSE 0))
    BY <1>9, <1>10, <1>11, <2>2, <2>3
  <2>. QED BY <1>2, <1>6, <1>7, <2>1, <2>4, <2>5
<1>. QED BY <1>9, <1>12 DEF Auctions

\* A buyout: the buyer pays the price, and the owner has it less the cut.
LEMMA BuyoutWorth ==
    ASSUME Counted, NEW p \in Player, NEW i \in Item, NEW price \in 1 .. MaxMoney,
           Buyout(p, i, price), NEW b, b = [auction[i] EXCEPT !.bidder = p, !.bid = auction[i].buyout]
    PROVE  /\ IsFiniteSet(Live(auction')) /\ i \in Live(auction)
           /\ Live(auction') = Live(auction) \ {i}
           /\ b.bid \in Nat /\ AuctionCut(b) \in Nat /\ auction[i].owner \in Player
           /\ \A z \in Player : Wealth(z)' = Wealth(z) + (IF z = p THEN -b.bid ELSE 0)
                + (IF z = auction[i].owner THEN b.bid + Deposit - AuctionCut(b) ELSE 0)
<1>. DEFINE a == auction[i]
            c == PriceFor(p, a, a.buyout)
<1>1. a \in AuctionEntry /\ a # NoAuction
  BY EntryTyped DEF Buyout, Counted, IInv
<1>2. a.bid \in Nat /\ a.bidder \in Player \cup {Nobody} /\ Nobody \notin Player
      /\ a.buyout \in Nat /\ a.owner \in Player /\ Deposit \in Nat
  BY <1>1, EntryLive, AuctionConstants
<1>3. b.owner = a.owner /\ b.bidder = p /\ b.bid = a.buyout
  BY <1>1 DEF AuctionEntry
<1>4. price \in Nat /\ price <= money[p] /\ a.buyout # 0 /\ a.buyout <= price
  BY <1>2, AuctionConstants DEF Buyout, IsBuyout
<1>5. a.bidder = p => a.bid < a.buyout
  BY <1>1, <1>2, <1>4 DEF Counted, IInv, BidBelowBuyout
<1>6. c \in Nat /\ c <= money[p] /\ c = IF a.bidder = p THEN a.buyout - a.bid ELSE a.buyout
  BY <1>2, <1>4, <1>5, WealthTypes DEF PriceFor
<1>7. /\ SendAll({}, OutbiddedMail(a, p) \o SuccessfulMail(b) \o WonMail(b, i))
      /\ money' = [money EXCEPT ![p] = Paid(p, c)]
      /\ auction' = [auction EXCEPT ![i] = NoAuction]
  BY DEF Buyout
<1>8. Auctions(auction) /\ Replaced(auction, i, NoAuction, auction')
  BY <1>7, WealthTypes DEF Replaced
<1>. HIDE DEF a, c
<1>9. /\ Auctions(auction') /\ i \in Live(auction) /\ Live(auction') = Live(auction) \ {i}
      /\ \A z \in Player : BidWorth(auction', z) = BidWorth(auction, z) - Stake(a, z)
  BY <1>1, <1>8, AuctionOver DEF a
<1>10. ASSUME NEW z \in Player
       PROVE  MailWorth(mail', z) = MailWorth(mail, z) + (IF a.bidder = z /\ z # p THEN a.bid ELSE 0)
                + (IF a.owner = z THEN b.bid + Deposit - AuctionCut(b) ELSE 0)
  <2>. DEFINE o == OutbiddedMail(a, p)
              s == SuccessfulMail(b)
              w == WonMail(b, i)
  <2>1. o \in Seq(Rows) /\ MailWorth(o, z) = IF a.bidder = z /\ z # p THEN a.bid ELSE 0
    BY <1>1, OutbiddedWorth
  <2>2. s \in Seq(Rows) /\ MailWorth(s, z) = IF a.owner = z THEN b.bid + Deposit - AuctionCut(b) ELSE 0
    BY <1>2, <1>3, SuccessfulWorth
  <2>3. w \in Seq(Rows) /\ MailWorth(w, z) = 0
    BY <1>3, WonWorth
  <2>4. SendAll({}, o \o s \o w)
    BY <1>7
  <2>. HIDE DEF o, s, w
  <2>5. o \o s \in Seq(Rows) /\ o \o s \o w \in Seq(Rows)
    BY <2>1, <2>2, <2>3, BothTyped
  <2>6. MailWorth(o \o s \o w, z) = MailWorth(o, z) + MailWorth(s, z) + MailWorth(w, z)
    BY <2>1, <2>2, <2>3, <2>5, MailsOf
  <2>7. MailWorth(mail', z) = MailWorth(mail, z) + MailWorth(o \o s \o w, z)
    BY <2>4, <2>5, SendAllWorth DEF Counted, IInv
  <2>8. AuctionCut(b) \in 0 .. b.bid /\ MailWorth(mail, z) \in Nat
    BY <1>2, <1>3, SuccessfulWorth, WealthTypes
  <2>. QED BY <1>2, <1>3, <2>1, <2>2, <2>3, <2>6, <2>7, <2>8
<1>11. \A z \in Player : money'[z] = money[z] - (IF z = p THEN c ELSE 0)
  BY <1>6, <1>7, PurseMoves, WealthTypes
<1>12. b.bid \in Nat /\ AuctionCut(b) \in Nat
  <2>1. b.bid \in Nat
    BY <1>2, <1>3 DEF a
  <2>. QED BY <2>1, CutBound DEF AuctionCut
<1>13. ASSUME NEW z \in Player
       PROVE  Wealth(z)' = Wealth(z) + (IF z = p THEN -b.bid ELSE 0)
                + (IF z = a.owner THEN b.bid + Deposit - AuctionCut(b) ELSE 0)
  <2>1. /\ Wealth(z)' = money'[z] + MailWorth(mail', z) + BidWorth(auction', z)
        /\ Wealth(z) = money[z] + MailWorth(mail, z) + BidWorth(auction, z)
    BY DEF Wealth
  <2>2. Stake(a, z) = IF a.bidder = z THEN a.bid ELSE 0
    BY <1>1 DEF Stake
  <2>3. money[z] \in Nat /\ MailWorth(mail, z) \in Nat /\ BidWorth(auction, z) \in Nat
    BY WealthTypes
  <2>4. /\ money'[z] = money[z] - (IF z = p THEN c ELSE 0)
        /\ BidWorth(auction', z) = BidWorth(auction, z) - (IF a.bidder = z THEN a.bid ELSE 0)
    BY <1>9, <1>11, <2>2
  <2>5. b.bid = a.buyout
    BY <1>3 DEF a
  <2>. DEFINE x == IF z = p THEN c ELSE 0
              y == IF a.bidder = z /\ z # p THEN a.bid ELSE 0
              w == IF a.bidder = z THEN a.bid ELSE 0
              u == IF z = p THEN -b.bid ELSE 0
              v == IF z = a.owner THEN b.bid + Deposit - AuctionCut(b) ELSE 0
  <2>6. y - x - w = u /\ x \in Int /\ y \in Int /\ w \in Int /\ u \in Int
    BY <1>2, <1>6, <1>12, <2>5
  <2>7. v \in Int
    BY <1>2, <1>12
  <2>8. /\ money'[z] = money[z] - x /\ BidWorth(auction', z) = BidWorth(auction, z) - w
        /\ MailWorth(mail', z) = MailWorth(mail, z) + y + v
    BY <1>10, <2>4
  <2>. HIDE DEF x, y, w, u, v
  <2>9. Wealth(z)' = Wealth(z) + u + v
    BY <2>1, <2>3, <2>6, <2>7, <2>8
  <2>. QED BY <2>9 DEF u, v
<1>. QED BY <1>2, <1>9, <1>12, <1>13 DEF a, Auctions

\* HandleAuctionRemoveItem(): the owner pays the cut, the bidder has his bid again.
LEMMA RemoveItemWorth ==
    ASSUME Counted, NEW p \in Player, NEW i \in Item, RemoveItem(p, i)
    PROVE  /\ IsFiniteSet(Live(auction')) /\ i \in Live(auction)
           /\ Live(auction') = Live(auction) \ {i} /\ AuctionCut(auction[i]) \in Nat
           /\ \A z \in Player : Wealth(z)' = Wealth(z) - (IF z = p THEN AuctionCut(auction[i]) ELSE 0)
<1>. DEFINE a == auction[i]
            c == AuctionCut(a)
<1>1. a \in AuctionEntry /\ a # NoAuction /\ a.owner = p
  BY EntryTyped DEF RemoveItem, Counted, IInv
<1>2. a.bid \in Nat /\ a.bidder \in Player \cup {Nobody} /\ Nobody \notin Player
  BY <1>1, EntryLive, AuctionConstants
<1>3. a.bidder # p
  BY <1>1, <1>2 DEF Counted, IInv, BidBelowBuyout
<1>4. c \in Nat
  BY <1>2, CutBound DEF AuctionCut
<1>5. /\ SendAll({}, OutbiddedMail(a, p) \o <<AuctionMail(p, 0, i, FALSE)>>)
      /\ money[p] >= c /\ money' = [money EXCEPT ![p] = Paid(p, c)]
      /\ auction' = [auction EXCEPT ![i] = NoAuction]
  BY DEF RemoveItem
<1>6. Auctions(auction) /\ Replaced(auction, i, NoAuction, auction')
  BY <1>5, WealthTypes DEF Replaced
<1>. HIDE DEF a, c
<1>7. /\ Auctions(auction') /\ i \in Live(auction) /\ Live(auction') = Live(auction) \ {i}
      /\ \A z \in Player : BidWorth(auction', z) = BidWorth(auction, z) - Stake(a, z)
  BY <1>1, <1>6, AuctionOver DEF a
<1>8. ASSUME NEW z \in Player
      PROVE  MailWorth(mail', z) = MailWorth(mail, z) + (IF a.bidder = z THEN a.bid ELSE 0)
  <2>. DEFINE o == OutbiddedMail(a, p)
              w == <<AuctionMail(p, 0, i, FALSE)>>
  <2>1. o \in Seq(Rows) /\ MailWorth(o, z) = IF a.bidder = z THEN a.bid ELSE 0
    BY <1>1, <1>3, OutbiddedWorth
  <2>2. w \in Seq(Rows) /\ MailWorth(w, z) = 0
    BY ItemMailWorth
  <2>3. SendAll({}, o \o w)
    BY <1>5
  <2>. HIDE DEF o, w
  <2>4. o \o w \in Seq(Rows) /\ MailWorth(o \o w, z) = MailWorth(o, z) + MailWorth(w, z)
    BY <2>1, <2>2, BothTyped, MailsOf
  <2>5. MailWorth(mail', z) = MailWorth(mail, z) + MailWorth(o \o w, z)
    BY <2>3, <2>4, SendAllWorth DEF Counted, IInv
  <2>6. MailWorth(mail, z) \in Nat
    BY WealthTypes
  <2>. QED BY <1>2, <2>1, <2>2, <2>4, <2>5, <2>6
<1>9. \A z \in Player : money'[z] = money[z] - (IF z = p THEN c ELSE 0)
  BY <1>4, <1>5, PurseMoves
<1>10. ASSUME NEW z \in Player PROVE Wealth(z)' = Wealth(z) - (IF z = p THEN c ELSE 0)
  <2>1. /\ Wealth(z)' = money'[z] + MailWorth(mail', z) + BidWorth(auction', z)
        /\ Wealth(z) = money[z] + MailWorth(mail, z) + BidWorth(auction, z)
    BY DEF Wealth
  <2>2. Stake(a, z) = IF a.bidder = z THEN a.bid ELSE 0
    BY <1>1 DEF Stake
  <2>3. money[z] \in Nat /\ MailWorth(mail, z) \in Nat /\ BidWorth(auction, z) \in Nat
    BY WealthTypes
  <2>. QED BY <1>2, <1>4, <1>7, <1>8, <1>9, <2>1, <2>2, <2>3
<1>. QED BY <1>4, <1>7, <1>10 DEF a, c, Auctions

\* AuctionHouseObject::Update(): the bid becomes the profit of the owner.
LEMMA UpdateWorth ==
    ASSUME Counted, NEW i \in Item, Update(i), NEW a, a = auction[i]
    PROVE  /\ IsFiniteSet(Live(auction')) /\ i \in Live(auction)
           /\ Live(auction') = Live(auction) \ {i}
           /\ a.bid \in Nat /\ AuctionCut(a) \in Nat /\ a.owner \in Player
           /\ a.bidder \in Player \cup {Nobody}
           /\ \A z \in Player : Wealth(z)' = Wealth(z) + (IF z = a.bidder THEN -a.bid ELSE 0)
                + (IF z = a.owner /\ a.bidder # Nobody THEN a.bid + Deposit - AuctionCut(a) ELSE 0)
<1>1. a \in AuctionEntry /\ a # NoAuction
  BY EntryTyped DEF Update, Counted, IInv
<1>2. a.bid \in Nat /\ a.bidder \in Player \cup {Nobody} /\ Nobody \notin Player
      /\ a.owner \in Player /\ Deposit \in Nat
  BY <1>1, EntryLive, AuctionConstants
<1>3. AuctionCut(a) \in 0 .. a.bid
  BY <1>2, CutBound DEF AuctionCut
<1>4. /\ SendAll({}, UpdateMails(a, i)) /\ money' = money
      /\ auction' = [auction EXCEPT ![i] = NoAuction]
  BY DEF Update
<1>5. Auctions(auction) /\ Replaced(auction, i, NoAuction, auction')
  BY <1>4, WealthTypes DEF Replaced
<1>6. /\ Auctions(auction') /\ i \in Live(auction) /\ Live(auction') = Live(auction) \ {i}
      /\ \A z \in Player : BidWorth(auction', z) = BidWorth(auction, z) - Stake(a, z)
  BY <1>1, <1>5, AuctionOver
<1>7. ASSUME NEW z \in Player
      PROVE  /\ UpdateMails(a, i) \in Seq(Rows)
             /\ MailWorth(UpdateMails(a, i), z)
                  = IF z = a.owner /\ a.bidder # Nobody THEN a.bid + Deposit - AuctionCut(a) ELSE 0
  <2>1. CASE a.bidder = Nobody
    <3>1. UpdateMails(a, i) = <<AuctionMail(a.owner, 0, i, FALSE)>>
      BY <2>1 DEF UpdateMails
    <3>. QED BY <1>2, <2>1, <3>1, ItemMailWorth
  <2>2. CASE a.bidder # Nobody
    <3>. DEFINE s == SuccessfulMail(a)
                w == WonMail(a, i)
    <3>1. s \in Seq(Rows) /\ MailWorth(s, z) = IF a.owner = z THEN a.bid + Deposit - AuctionCut(a) ELSE 0
      BY <1>2, SuccessfulWorth
    <3>2. w \in Seq(Rows) /\ MailWorth(w, z) = 0
      BY <1>2, <2>2, WonWorth
    <3>3. UpdateMails(a, i) = s \o w
      BY <2>2 DEF UpdateMails
    <3>. HIDE DEF s, w
    <3>4. s \o w \in Seq(Rows) /\ MailWorth(s \o w, z) = MailWorth(s, z) + MailWorth(w, z)
      BY <3>1, <3>2, BothTyped, MailsOf
    <3>. QED BY <1>2, <1>3, <2>2, <3>1, <3>2, <3>3, <3>4
  <2>. QED BY <2>1, <2>2
<1>8. \A z \in Player : MailWorth(mail', z) = MailWorth(mail, z) + MailWorth(UpdateMails(a, i), z)
  BY <1>4, <1>7, SendAllWorth DEF Counted, IInv
<1>9. ASSUME NEW z \in Player
      PROVE  Wealth(z)' = Wealth(z) + (IF z = a.bidder THEN -a.bid ELSE 0)
               + (IF z = a.owner /\ a.bidder # Nobody THEN a.bid + Deposit - AuctionCut(a) ELSE 0)
  <2>1. /\ Wealth(z)' = money[z] + MailWorth(mail', z) + BidWorth(auction', z)
        /\ Wealth(z) = money[z] + MailWorth(mail, z) + BidWorth(auction, z)
    BY <1>4 DEF Wealth
  <2>2. Stake(a, z) = IF a.bidder = z THEN a.bid ELSE 0
    BY <1>1 DEF Stake
  <2>3. money[z] \in Nat /\ MailWorth(mail, z) \in Nat /\ BidWorth(auction, z) \in Nat
    BY WealthTypes
  <2>4. /\ MailWorth(mail', z) = MailWorth(mail, z)
             + (IF z = a.owner /\ a.bidder # Nobody THEN a.bid + Deposit - AuctionCut(a) ELSE 0)
        /\ BidWorth(auction', z) = BidWorth(auction, z) - (IF a.bidder = z THEN a.bid ELSE 0)
    BY <1>6, <1>7, <1>8, <2>2
  <2>. QED BY <1>2, <1>3, <2>1, <2>3, <2>4
<1>. QED BY <1>2, <1>3, <1>6, <1>9 DEF Auctions

\* Time alone moves no money.
LEMMA TimeUpWorth ==
    ASSUME Counted, NEW i \in Item, TimeUp(i)
    PROVE  /\ IsFiniteSet(Live(auction')) /\ Live(auction') = Live(auction)
           /\ \A z \in Player : Wealth(z)' = Wealth(z)
<1>. DEFINE a == auction[i]
            b == [a EXCEPT !.timeUp = TRUE]
<1>1. a \in AuctionEntry /\ a # NoAuction
  BY EntryTyped DEF TimeUp, Counted, IInv
<1>2. b \in AuctionEntry /\ b.bidder = a.bidder /\ b.bid = a.bid
  BY <1>1 DEF AuctionEntry
<1>3. auction' = [auction EXCEPT ![i] = b] /\ money' = money /\ mail' = mail
  BY DEF TimeUp
<1>4. Auctions(auction) /\ Replaced(auction, i, b, auction')
  BY <1>3, WealthTypes DEF Replaced
<1>. HIDE DEF a, b
<1>5. /\ Auctions(auction') /\ Live(auction') = Live(auction)
      /\ \A z \in Player : BidWorth(auction', z) = BidWorth(auction, z) + (Stake(b, z) - Stake(a, z))
  BY <1>1, <1>2, <1>4, AuctionChanges DEF a
<1>6. ASSUME NEW z \in Player PROVE Wealth(z)' = Wealth(z)
  <2>1. Stake(b, z) = Stake(a, z) /\ Stake(a, z) \in Nat
    BY <1>1, <1>2, EntryLive DEF Stake
  <2>2. BidWorth(auction', z) = BidWorth(auction, z)
    BY <1>5, <2>1, WealthTypes
  <2>. QED BY <1>3, <2>2 DEF Wealth
<1>. QED BY <1>5, <1>6 DEF Auctions

\* A step makes x richer by c and y by d at most, and nobody else.
Moves(x, c, y, d) ==
    \A z \in Player : Wealth(z)' <= Wealth(z) + (IF z = x THEN c ELSE 0) + (IF z = y THEN d ELSE 0)

\* Mail n is replaced by m.
LEMMA RowWorth ==
    ASSUME MailTypes, NEW n \in DOMAIN mail, NEW m \in Rows, mail' = [mail EXCEPT ![n] = m], NEW p
    PROVE  MailWorth(mail', p) = MailWorth(mail, p) + (Share(m, p) - Share(mail[n], p))
<1>. DEFINE U == [mail EXCEPT ![n] = m]
<1>1. MailWorth(U, p) = MailWorth(mail, p) + (Share(m, p) - Share(mail[n], p))
  BY MailTable, MailChanges
<1>2. mail' = U
  OBVIOUS
<1>. HIDE DEF U
<1>. QED BY <1>1, <1>2

\* Mail n keeps its coins and its receiver.
LEMMA RowKeepsWorth ==
    ASSUME Counted, NEW n \in DOMAIN mail, NEW m \in Rows, mail' = [mail EXCEPT ![n] = m],
           m.to = mail[n].to, m.coins = mail[n].coins, UNCHANGED <<money, auction>>
    PROVE  \A z \in Player : Wealth(z)' <= Wealth(z)
<1>. SUFFICES ASSUME NEW z \in Player PROVE Wealth(z)' <= Wealth(z)
  OBVIOUS
<1>1. MailWorth(mail', z) = MailWorth(mail, z) + (Share(m, z) - Share(mail[n], z))
  BY RowWorth DEF Counted, IInv
<1>2. Share(m, z) = Share(mail[n], z) /\ Share(m, z) \in Nat
  BY ShareNat DEF Share
<1>3. MailWorth(mail', z) = MailWorth(mail, z)
  BY <1>1, <1>2, WealthTypes
<1>. QED BY <1>3, WealthTypes DEF Wealth

\* The handlers that set a mark of a mail only.
LEMMA MarksWorth ==
    ASSUME Counted, NEW p \in Player, NEW n \in DOMAIN mail,
           Deliver(n) \/ MailDelete(p, n) \/ MarkAsRead(p, n)
    PROVE  \A z \in Player : Wealth(z)' <= Wealth(z)
<1>1. mail[n] \in Rows /\ mail[n] \in MailRow
  BY RowTyped DEF Counted, IInv
<1>2. CASE Deliver(n)
  <2>. DEFINE m == [mail[n] EXCEPT !.late = FALSE]
  <2>1. m \in Rows /\ m.to = mail[n].to /\ m.coins = mail[n].coins
    BY <1>1 DEF Rows, MailRow
  <2>2. mail' = [mail EXCEPT ![n] = m] /\ UNCHANGED <<money, auction>>
    BY <1>2 DEF Deliver
  <2>. HIDE DEF m
  <2>. QED BY <2>1, <2>2, RowKeepsWorth
<1>3. CASE MailDelete(p, n)
  <2>. DEFINE m == [mail[n] EXCEPT !.deleted = TRUE]
  <2>1. m \in Rows /\ m.to = mail[n].to /\ m.coins = mail[n].coins
    BY <1>1 DEF Rows, MailRow
  <2>2. mail' = [mail EXCEPT ![n] = m] /\ UNCHANGED <<money, auction>>
    BY <1>3 DEF MailDelete
  <2>. HIDE DEF m
  <2>. QED BY <2>1, <2>2, RowKeepsWorth
<1>4. CASE MarkAsRead(p, n)
  <2>. DEFINE m == [mail[n] EXCEPT !.deleted = FALSE]
  <2>1. m \in Rows /\ m.to = mail[n].to /\ m.coins = mail[n].coins
    BY <1>1 DEF Rows, MailRow
  <2>2. mail' = [mail EXCEPT ![n] = m] /\ UNCHANGED <<money, auction>>
    BY <1>4 DEF MarkAsRead
  <2>. HIDE DEF m
  <2>. QED BY <2>1, <2>2, RowKeepsWorth
<1>. QED BY <1>2, <1>3, <1>4

\* Opening and saving the mailbox, logging out and in.
LEMMA PeopleWorth ==
    ASSUME Counted, NEW p \in Player, GetMail(p) \/ SaveMail(p) \/ Logout(p) \/ Login(p)
    PROVE  \A z \in Player : Wealth(z)' <= Wealth(z)
<1>. SUFFICES ASSUME NEW z \in Player PROVE Wealth(z)' <= Wealth(z)
  OBVIOUS
<1>1. UNCHANGED <<money, auction>>
  BY DEF GetMail, SaveMail, Logout, Login
<1>2. MailWorth(mail', z) <= MailWorth(mail, z) /\ MailWorth(mail', z) \in Nat
  <2>1. CASE mail' = mail
    BY <2>1, WealthTypes
  <2>2. CASE SendAll(Discarded(p), <<>>)
    <3>1. Discarded(p) \in SUBSET DOMAIN mail /\ <<>> \in Seq(Rows) /\ MailWorth(<<>>, z) = 0
      BY MailsOf, OneOrNone DEF Discarded, Inbox
    <3>2. /\ MailWorth(mail', z) <= MailWorth(mail, z) + MailWorth(<<>>, z)
          /\ MailWorth(mail', z) \in Nat
      BY <2>2, <3>1, SendAllWorth DEF Counted, IInv
    <3>. QED BY <3>1, <3>2, WealthTypes
  <2>. QED BY <2>1, <2>2 DEF GetMail, SaveMail, Logout, Login
<1>. QED BY <1>1, <1>2, WealthTypes DEF Wealth

\* HandleSendMail(): the coins go from the purse into the mail.
LEMMA SendMailWorth ==
    ASSUME Counted, NEW p \in Player, NEW q \in Player, NEW coins \in Gifts, NEW cod \in Gifts,
           NEW item \in bag[p] \cup {NoItem}, SendMail(p, q, coins, cod, item)
    PROVE  Moves(p, -(MailCost + coins), q, coins)
<1>. DEFINE m == PlayerMail(q, p, coins, cod, item, item # NoItem, FALSE)
<1>1. item \in Item \cup {NoItem} /\ coins \in Nat /\ cod \in Nat /\ MailCost \in Nat
  BY AuctionConstants DEF Counted, IInv, PurseTypes
<1>2. m \in Rows
  BY <1>1, PlayerMailTyped
<1>3. SendAll({}, <<m>>) /\ money' = [money EXCEPT ![p] = Paid(p, MailCost + coins)]
      /\ money[p] >= MailCost + coins /\ auction' = auction
  BY PostageExact DEF SendMail
<1>4. \A z : Share(m, z) = IF z = q THEN coins ELSE 0
  BY DEF PlayerMail, Share
<1>. HIDE DEF m
<1>5. <<m>> \in Seq(Rows) /\ \A z : MailWorth(<<m>>, z) = Share(m, z)
  BY <1>2, OneOrNone, MailsOf
<1>6. \A z \in Player : MailWorth(mail', z) = MailWorth(mail, z) + Share(m, z)
  BY <1>3, <1>5, SendAllWorth DEF Counted, IInv
<1>7. \A z \in Player : money'[z] = money[z] - (IF z = p THEN MailCost + coins ELSE 0)
  <2>. DEFINE c == MailCost + coins
  <2>1. c \in Nat /\ money' = [money EXCEPT ![p] = Paid(p, c)] /\ money[p] >= c
    BY <1>1, <1>3
  <2>. HIDE DEF c
  <2>2. \A z \in Player : money'[z] = money[z] - (IF z = p THEN c ELSE 0)
    BY <2>1, PurseMoves
  <2>. QED BY <2>2 DEF c
<1>8. ASSUME NEW z \in Player
      PROVE  Wealth(z)' <= Wealth(z) + (IF z = p THEN -(MailCost + coins) ELSE 0)
                             + (IF z = q THEN coins ELSE 0)
  <2>1. /\ Wealth(z)' = money'[z] + MailWorth(mail', z) + BidWorth(auction, z)
        /\ Wealth(z) = money[z] + MailWorth(mail, z) + BidWorth(auction, z)
    BY <1>3 DEF Wealth
  <2>. QED BY <1>1, <1>4, <1>6, <1>7, <2>1, WealthTypes
<1>. QED BY <1>8 DEF Moves

\* HandleTakeMoney(): and from the mail into the purse.
LEMMA TakeMoneyWorth ==
    ASSUME Counted, NEW p \in Player, NEW n \in DOMAIN mail, TakeMoney(p, n)
    PROVE  \A z \in Player : Wealth(z)' <= Wealth(z)
<1>. SUFFICES ASSUME NEW z \in Player PROVE Wealth(z)' <= Wealth(z)
  OBVIOUS
<1>. DEFINE m == [mail[n] EXCEPT !.coins = 0]
            c == mail[n].coins
<1>1. mail[n] \in MailRow /\ c \in Nat /\ m \in Rows /\ Share(m, z) = 0
  BY RowTyped DEF Counted, IInv, Rows, MailRow, Share
<1>2. /\ SaveWith(p, n, m, <<>>) /\ money' = [money EXCEPT ![p] = Gained(p, c)]
      /\ auction' = auction /\ mail[n].to = p
  BY DEF TakeMoney, Readable
<1>3. Share(mail[n], z) = IF z = p THEN c ELSE 0
  BY <1>2 DEF Share
<1>. HIDE DEF m, c
<1>4. <<>> \in Seq(Rows) /\ MailWorth(<<>>, z) = 0
  BY OneOrNone, MailsOf
<1>5. /\ MailWorth(mail', z) \in Nat
      /\ MailWorth(mail', z) <= MailWorth(mail, z) + Share(m, z) - Share(mail[n], z) + MailWorth(<<>>, z)
  BY <1>1, <1>2, <1>4, SaveWithWorth DEF Counted, IInv
<1>6. money'[z] \in Nat /\ money'[z] <= money[z] + (IF z = p THEN c ELSE 0)
  BY <1>1, <1>2, PurseMoves
<1>7. /\ Wealth(z)' = money'[z] + MailWorth(mail', z) + BidWorth(auction, z)
      /\ Wealth(z) = money[z] + MailWorth(mail, z) + BidWorth(auction, z)
  BY <1>2 DEF Wealth
<1>8. money[z] \in Nat /\ MailWorth(mail, z) \in Nat /\ BidWorth(auction, z) \in Nat
  BY WealthTypes
<1>. DEFINE x == IF z = p THEN c ELSE 0
<1>9. x \in Nat /\ MailWorth(mail', z) <= MailWorth(mail, z) - x /\ money'[z] <= money[z] + x
  <2>1. x \in Nat /\ Share(mail[n], z) = x /\ money'[z] <= money[z] + x
    BY <1>1, <1>3, <1>6
  <2>. HIDE DEF x
  <2>. QED BY <1>1, <1>4, <1>5, <1>8, <2>1
<1>. HIDE DEF x
<1>. QED BY <1>5, <1>6, <1>7, <1>8, <1>9

\* HandleTakeItem(): cash on delivery goes to the sender.
LEMMA TakeItemWorth ==
    ASSUME Counted, NEW p \in Player, NEW n \in DOMAIN mail, NEW i \in Listed(n),
           TakeItem(p, n, i)
    PROVE  LET m == mail[n] IN
           /\ m.cod \in Nat /\ (m.cod > 0 => m.from \in Player)
           /\ Moves(p, -m.cod, IF m.cod > 0 THEN m.from ELSE p, m.cod)
<1>. DEFINE m == mail[n]
            c == m.cod
            q == IF c > 0 THEN m.from ELSE p
            t == Taken(m, i)
            pay == IF c > 0 THEN <<PlayerMail(m.from, p, c, 0, NoItem, FALSE, FALSE)>> ELSE <<>>
<1>0. i = m.item /\ m.item # NoItem
  BY DEF Listed, ItemsOf
<1>1. m \in MailRow /\ m \in Rows /\ c \in Nat /\ (c > 0 => m.from \in Player)
  BY RowTyped DEF Counted, IInv, Rows, MailRow
<1>2. t \in Rows /\ t.to = m.to /\ t.coins = m.coins
  <2>1. t \in MailRow /\ t.to = m.to /\ t.coins = m.coins
    BY <1>1 DEF Taken, MailRow
  <2>2. t.normal = m.normal /\ t.from = m.from /\ t.cod = 0
    BY <1>1 DEF Taken, MailRow
  <2>3. m.normal => m.from \in Player
    BY <1>1 DEF Rows
  <2>. QED BY <2>1, <2>2, <2>3 DEF Rows
<1>3. /\ SaveWith(p, n, t, pay) /\ money' = [money EXCEPT ![p] = Paid(p, c)] /\ money[p] >= c
      /\ auction' = auction
  BY DEF TakeItem
<1>4. pay \in Seq(Rows) /\ \A z : MailWorth(pay, z) = IF c > 0 /\ z = q THEN c ELSE 0
  <2>1. CASE c > 0
    <3>. DEFINE b == PlayerMail(m.from, p, c, 0, NoItem, FALSE, FALSE)
    <3>1. b \in Rows
      BY <1>1, <2>1, PlayerMailTyped
    <3>2. \A z : Share(b, z) = IF z = q THEN c ELSE 0
      BY <2>1 DEF PlayerMail, Share
    <3>. HIDE DEF b, q, c
    <3>3. <<b>> \in Seq(Rows) /\ \A z : MailWorth(<<b>>, z) = Share(b, z)
      BY <3>1, OneOrNone, MailsOf
    <3>4. pay = <<b>>
      BY <2>1 DEF b
    <3>. HIDE DEF pay
    <3>. QED BY <2>1, <3>2, <3>3, <3>4
  <2>2. CASE ~(c > 0)
    <3>1. pay = <<>>
      BY <2>2
    <3>. HIDE DEF pay, c
    <3>. QED BY <2>2, <3>1, OneOrNone, MailsOf
  <2>. QED BY <2>1, <2>2
<1>. HIDE DEF pay, t, q, c
<1>5. ASSUME NEW z \in Player
      PROVE  Wealth(z)' <= Wealth(z) + (IF z = p THEN -c ELSE 0) + (IF z = q THEN c ELSE 0)
  <2>1. Share(t, z) = Share(m, z) /\ Share(t, z) \in Nat
    BY <1>2, ShareNat DEF Share
  <2>2. /\ MailWorth(mail', z) \in Nat
        /\ MailWorth(mail', z) <= MailWorth(mail, z) + Share(t, z) - Share(m, z) + MailWorth(pay, z)
    BY <1>2, <1>3, <1>4, SaveWithWorth DEF Counted, IInv
  <2>3. money'[z] = money[z] - (IF z = p THEN c ELSE 0)
    BY <1>1, <1>3, PurseMoves
  <2>4. /\ Wealth(z)' = money'[z] + MailWorth(mail', z) + BidWorth(auction, z)
        /\ Wealth(z) = money[z] + MailWorth(mail, z) + BidWorth(auction, z)
    BY <1>3 DEF Wealth
  <2>5. MailWorth(pay, z) <= (IF z = q THEN c ELSE 0) /\ MailWorth(pay, z) \in Nat
    BY <1>1, <1>4
  <2>. QED BY <1>1, <2>1, <2>2, <2>3, <2>4, <2>5, WealthTypes
<1>6. Moves(p, -c, q, c)
  BY <1>5 DEF Moves
<1>. QED BY <1>1, <1>6 DEF q, c

\* HandleReturnToSender(): the money goes back with the mail.
LEMMA ReturnWorth ==
    ASSUME Counted, NEW p \in Player, NEW n \in DOMAIN mail, ReturnToSender(p, n)
    PROVE  \E q \in Player, c \in Nat : Moves(p, -c, q, c)
<1>. DEFINE m == mail[n]
            b == PlayerMail(m.from, p, m.coins, 0, m.item, m.item # NoItem, TRUE)
            c == m.coins
<1>1. m \in Rows /\ m \in MailRow /\ c \in Nat
  BY RowTyped DEF Counted, IInv, Rows, MailRow
<1>2. m.to = p /\ UNCHANGED <<money, auction>>
  BY DEF ReturnToSender, Readable
<1>3. \A z : Share(m, z) = IF z = p THEN c ELSE 0
  BY <1>2 DEF Share
<1>4. \A z \in Player : /\ Wealth(z)' = money[z] + MailWorth(mail', z) + BidWorth(auction, z)
                        /\ Wealth(z) = money[z] + MailWorth(mail, z) + BidWorth(auction, z)
  BY <1>2 DEF Wealth
<1>5. CASE m.normal
  <2>1. b \in Rows /\ m.from \in Player
    BY <1>1, <1>5, PlayerMailTyped DEF Rows, MailRow
  <2>2. \A z : Share(b, z) = IF z = m.from THEN c ELSE 0
    BY DEF PlayerMail, Share
  <2>3. SendAll({n}, <<b>>)
    BY <1>5 DEF ReturnToSender
  <2>. HIDE DEF b, c
  <2>4. <<b>> \in Seq(Rows) /\ \A z : MailWorth(<<b>>, z) = Share(b, z)
    BY <2>1, OneOrNone, MailsOf
  <2>5. ASSUME NEW z \in Player
        PROVE  /\ MailWorth(mail', z) \in Nat
               /\ MailWorth(mail', z) <= MailWorth(mail, z) - Share(m, z) + Share(b, z)
    BY <2>3, <2>4, MailGoes DEF Counted, IInv
  <2>6. ASSUME NEW z \in Player
        PROVE  Wealth(z)' <= Wealth(z) + (IF z = p THEN -c ELSE 0) + (IF z = m.from THEN c ELSE 0)
    BY <1>1, <1>3, <1>4, <2>2, <2>5, WealthTypes
  <2>. QED BY <1>1, <2>1, <2>6 DEF Moves
<1>6. CASE ~m.normal
  <2>1. SendAll({n}, <<>>)
    BY <1>6 DEF ReturnToSender
  <2>2. <<>> \in Seq(Rows) /\ \A z : MailWorth(<<>>, z) = 0
    BY OneOrNone, MailsOf
  <2>3. ASSUME NEW z \in Player
        PROVE  /\ MailWorth(mail', z) \in Nat
               /\ MailWorth(mail', z) <= MailWorth(mail, z) - Share(m, z)
    <3>1. /\ MailWorth(mail', z) \in Nat
          /\ MailWorth(mail', z) <= MailWorth(mail, z) - Share(m, z) + MailWorth(<<>>, z)
      BY <2>1, <2>2, MailGoes DEF Counted, IInv
    <3>. QED BY <1>1, <2>2, <3>1, ShareNat, WealthTypes
  <2>4. ASSUME NEW z \in Player
        PROVE  Wealth(z)' <= Wealth(z) + (IF z = p THEN -0 ELSE 0) + (IF z = p THEN 0 ELSE 0)
    BY <1>1, <1>3, <1>4, <2>3, WealthTypes
  <2>. QED BY <2>4 DEF Moves
<1>. QED BY <1>5, <1>6

\* ReturnOrDeleteOldMails(): an old mail goes back, or its money is lost.
LEMMA OldMailWorth ==
    ASSUME Counted, NEW n \in DOMAIN mail, OldMail(n)
    PROVE  \E p, q \in Player, c \in Nat : Moves(p, -c, q, c)
<1>. DEFINE m == mail[n]
            b == PlayerMail(m.from, m.to, m.coins, 0, m.item, FALSE, TRUE)
            c == m.coins
<1>1. m \in Rows /\ m \in MailRow /\ c \in Nat /\ m.to \in Player
  BY RowTyped DEF Counted, IInv, Rows, MailRow
<1>2. UNCHANGED <<money, auction>>
  BY DEF OldMail
<1>3. \A z : Share(m, z) = IF z = m.to THEN c ELSE 0
  BY DEF Share
<1>4. \A z \in Player : /\ Wealth(z)' = money[z] + MailWorth(mail', z) + BidWorth(auction, z)
                        /\ Wealth(z) = money[z] + MailWorth(mail, z) + BidWorth(auction, z)
  BY <1>2 DEF Wealth
<1>5. CASE m.item # NoItem /\ m.normal /\ ~m.returned
  <2>1. b \in Rows /\ m.from \in Player
    BY <1>1, <1>5, PlayerMailTyped DEF Rows, MailRow
  <2>2. \A z : Share(b, z) = IF z = m.from THEN c ELSE 0
    BY DEF PlayerMail, Share
  <2>3. mail' = [mail EXCEPT ![n] = b]
    BY <1>5 DEF OldMail
  <2>. HIDE DEF b, c
  <2>4. \A z \in Player : MailWorth(mail', z) = MailWorth(mail, z) + (Share(b, z) - Share(m, z))
    BY <2>1, <2>3, RowWorth DEF Counted, IInv
  <2>5. ASSUME NEW z \in Player
        PROVE  Wealth(z)' <= Wealth(z) + (IF z = m.to THEN -c ELSE 0) + (IF z = m.from THEN c ELSE 0)
    BY <1>1, <1>3, <1>4, <2>2, <2>4, WealthTypes
  <2>6. Moves(m.to, -c, m.from, c)
    BY <2>5 DEF Moves
  <2>. QED BY <1>1, <2>1, <2>6
<1>6. CASE ~(m.item # NoItem /\ m.normal /\ ~m.returned)
  <2>1. SendAll({n}, <<>>)
    BY <1>6 DEF OldMail
  <2>2. <<>> \in Seq(Rows) /\ \A z : MailWorth(<<>>, z) = 0
    BY OneOrNone, MailsOf
  <2>3. ASSUME NEW z \in Player
        PROVE  /\ MailWorth(mail', z) \in Nat
               /\ MailWorth(mail', z) <= MailWorth(mail, z) - Share(m, z)
    <3>1. /\ MailWorth(mail', z) \in Nat
          /\ MailWorth(mail', z) <= MailWorth(mail, z) - Share(m, z) + MailWorth(<<>>, z)
      BY <2>1, <2>2, MailGoes DEF Counted, IInv
    <3>. QED BY <1>1, <2>2, <3>1, ShareNat, WealthTypes
  <2>4. ASSUME NEW z \in Player
        PROVE  Wealth(z)' <= Wealth(z) + (IF z = m.to THEN -0 ELSE 0) + (IF z = m.to THEN 0 ELSE 0)
    BY <1>1, <1>3, <1>4, <2>3, WealthTypes
  <2>. QED BY <1>1, <2>4 DEF Moves
<1>. QED BY <1>5, <1>6
-----------------------------------------------------------------------------
(* The books of the realm.                                                 *)

Wealths == [p \in Player |-> Wealth(p)]

\* The strengthening of NoMoneyMade.
Books ==
    /\ IsFiniteSet(Live(auction))
    /\ Total(Wealths, Player) + Deposit * Cardinality(Live(auction)) <= Purse * Cardinality(Player)

\* The terms of the books are integers, and their sums too.
LEMMA WealthsInts ==
    ASSUME Counted
    PROVE  /\ \A p \in Player : Wealths[p] = Wealth(p)
           /\ Ints(Wealths, Player) /\ IsFiniteSet(Player) /\ Total(Wealths, Player) \in Int
           /\ Cardinality(Live(auction)) \in Nat /\ Cardinality(Player) \in Nat
           /\ Deposit \in Nat /\ Purse \in Nat
<1>1. \A p \in Player : Wealths[p] = Wealth(p)
  BY DEF Wealths
<1>2. Ints(Wealths, Player)
  BY <1>1, WealthTypes DEF Ints
<1>3. IsFiniteSet(Player) /\ Deposit \in Nat /\ Purse \in Nat
  BY AuctionConstants
<1>4. Cardinality(Live(auction)) \in Nat /\ Cardinality(Player) \in Nat
  BY <1>3, FS_CardinalityType DEF Counted
<1>. QED BY <1>1, <1>2, <1>3, <1>4, TotalInt

\* A step that moves money, and e out of the deposits.
LEMMA BooksMove ==
    ASSUME Counted, Counted', Books, NEW x \in Player, NEW y \in Player, NEW c \in Int, NEW d \in Int,
           Moves(x, c, y, d), NEW e \in Int, c + d + e <= 0,
           Deposit * Cardinality(Live(auction))' = Deposit * Cardinality(Live(auction)) + e
    PROVE  Books'
<1>1. /\ \A p \in Player : Wealths[p] = Wealth(p)
      /\ Ints(Wealths, Player) /\ IsFiniteSet(Player) /\ Total(Wealths, Player) \in Int
      /\ Cardinality(Live(auction)) \in Nat /\ Cardinality(Player) \in Nat
      /\ Deposit \in Nat /\ Purse \in Nat
  BY WealthsInts
<1>2. /\ \A p \in Player : Wealths'[p] = Wealth(p)'
      /\ Ints(Wealths', Player) /\ Total(Wealths', Player) \in Int
  <2>1. \A p \in Player : Wealth(p)' \in Nat
    <3>1. /\ Auctions(auction') /\ MailTypes'
          /\ \A p \in Player : money'[p] \in 0 .. MaxMoney
      BY DEF Counted, IInv, AuctionTypes, PurseTypes, Auctions
    <3>2. Table(mail')
      <4>1. nextMail' - 1 \in Int /\ DOMAIN mail' \subseteq 1 .. nextMail' - 1
        BY <3>1 DEF MailTypes
      <4>2. IsFiniteSet(DOMAIN mail')
        <5>1. IsFiniteSet(1 .. nextMail' - 1)
          BY <4>1, FS_Interval
        <5>. QED BY <4>1, <5>1, FS_Subset
      <4>. QED BY <3>1, <4>2 DEF Table, MailTypes
    <3>3. \A p \in Player : MailWorth(mail', p) \in Nat /\ BidWorth(auction', p) \in Nat
      BY <3>1, <3>2, SharesNat, StakesNat
    <3>4. \A p \in Player : money'[p] \in Nat
      BY <3>1, AuctionConstants
    <3>. QED BY <3>3, <3>4 DEF Wealth
  <2>2. \A p \in Player : Wealths'[p] = Wealth(p)'
    BY DEF Wealths
  <2>3. Ints(Wealths', Player)
    BY <2>1, <2>2 DEF Ints
  <2>. QED BY <1>1, <2>2, <2>3, TotalInt
<1>3. Total(Wealths', Player) <= Total(Wealths, Player) + c + d
  <2>. DEFINE f == Wealths
              g == Wealths'
  <2>1. /\ Ints(f, Player) /\ Ints(g, Player)
        /\ \A z \in Player : g[z] <= f[z] + (IF z = x THEN c ELSE 0) + (IF z = y THEN d ELSE 0)
    BY <1>1, <1>2 DEF Moves
  <2>. HIDE DEF f, g
  <2>2. Total(g, Player) <= Total(f, Player) + c + d
    BY <1>1, <2>1, TotalShares
  <2>. QED BY <2>2 DEF f, g
<1>4. IsFiniteSet(Live(auction)')
  BY DEF Counted
<1>5. Total(Wealths', Player) + Deposit * Cardinality(Live(auction))' <= Purse * Cardinality(Player)
  <2>. DEFINE h == Deposit * Cardinality(Live(auction))
              l == Deposit * Cardinality(Live(auction))'
              o == Purse * Cardinality(Player)
  <2>1. h \in Int /\ o \in Int /\ l = h + e
    BY <1>1
  <2>2. Total(Wealths, Player) + h <= o
    BY DEF Books
  <2>. HIDE DEF h, l, o
  <2>3. Total(Wealths', Player) + l <= o
    BY <1>1, <1>2, <1>3, <2>1, <2>2
  <2>. QED BY <2>3 DEF l, o
<1>. QED BY <1>4, <1>5 DEF Books

\* A step that makes nobody richer and leaves the auctions.
LEMMA BooksStay ==
    ASSUME Counted, Counted', Books, Player # {}, \A z \in Player : Wealth(z)' <= Wealth(z),
           Live(auction)' = Live(auction)
    PROVE  Books'
<1>1. PICK x \in Player : TRUE
  OBVIOUS
<1>2. Moves(x, 0, x, 0)
  <2>1. \A z \in Player : Wealth(z) \in Nat
    BY WealthTypes
  <2>2. \A z \in Player : Wealth(z)' <= Wealth(z) + (IF z = x THEN 0 ELSE 0) + (IF z = x THEN 0 ELSE 0)
    BY <2>1
  <2>. QED BY <2>2 DEF Moves
<1>3. Deposit * Cardinality(Live(auction)) \in Int
  BY WealthsInts
<1>4. Deposit * Cardinality(Live(auction))' = Deposit * Cardinality(Live(auction)) + 0
  BY <1>3
<1>. QED BY <1>2, <1>4, BooksMove

\* The deposit of one auction more or less.
LEMMA Deposits ==
    ASSUME NEW S, IsFiniteSet(S), NEW i
    PROVE  /\ i \notin S => Deposit * Cardinality(S \cup {i}) = Deposit * Cardinality(S) + Deposit
           /\ i \in S => Deposit * Cardinality(S \ {i}) = Deposit * Cardinality(S) + (-Deposit)
<1>1. Deposit \in Nat /\ Cardinality(S) \in Nat
  BY AuctionConstants, FS_CardinalityType
<1>2. ASSUME i \notin S PROVE Cardinality(S \cup {i}) = Cardinality(S) + 1
  BY <1>2, FS_AddElement
<1>3. ASSUME i \in S PROVE Cardinality(S \ {i}) = Cardinality(S) - 1
  BY <1>3, FS_RemoveElement
<1>4. \A d, n \in Int : d * (n + 1) = d * n + d /\ d * (n - 1) = d * n + (-d)
  OBVIOUS
<1>. QED BY <1>1, <1>2, <1>3, <1>4

\* What the inductive invariant becomes: the types, and the books.
Balanced == IInv /\ Player # {} /\ Books

\* At the start every player has his purse and there are no auctions.
LEMMA InitBalanced == Init => Balanced
<1>. SUFFICES ASSUME Init PROVE Balanced
  OBVIOUS
<1>1. IInv /\ Player # {}
  BY InitIInv DEF Init
<1>2. Live(auction) = {} /\ Cardinality(Live(auction)) = 0 /\ IsFiniteSet(Live(auction))
  <2>1. Live(auction) = {}
    BY DEF Init, Live
  <2>. QED BY <2>1, FS_EmptySet
<1>3. Counted
  BY <1>1, <1>2 DEF Counted
<1>4. \A p \in Player : Wealths[p] = Purse
  <2>. SUFFICES ASSUME NEW p \in Player PROVE Wealth(p) = Purse
    BY DEF Wealths
  <2>1. MailWorth(mail, p) = 0
    <3>1. DOMAIN mail = {}
      BY DEF Init
    <3>. QED BY <3>1, TotalEmpty DEF MailWorth
  <2>2. BidWorth(auction, p) = 0
    BY <1>2, TotalEmpty DEF BidWorth
  <2>3. money[p] = Purse /\ Purse \in Nat
    BY AuctionConstants DEF Init
  <2>. QED BY <2>1, <2>2, <2>3 DEF Wealth
<1>5. IsFiniteSet(Player) /\ Purse \in Int /\ Deposit \in Nat /\ Cardinality(Player) \in Nat
  BY <1>3, WealthsInts
<1>6. Total(Wealths, Player) = Purse * Cardinality(Player)
  BY <1>4, <1>5, TotalConstant
<1>7. Deposit * Cardinality(Live(auction)) = 0 /\ Purse * Cardinality(Player) \in Int
  BY <1>2, <1>5
<1>8. Books
  <2>. DEFINE h == Deposit * Cardinality(Live(auction))
              o == Purse * Cardinality(Player)
  <2>1. h = 0 /\ o \in Int /\ Total(Wealths, Player) = o
    BY <1>6, <1>7
  <2>. HIDE DEF h, o
  <2>2. Total(Wealths, Player) + h <= o
    BY <2>1
  <2>. QED BY <1>2, <2>2 DEF h, o, Books
<1>. QED BY <1>1, <1>8 DEF Balanced

\* Each step balances: what one gains, others or the deposits lose.
LEMMA NextBalanced == Balanced /\ [Next]_vars => Balanced'
<1>. SUFFICES ASSUME Balanced, [Next]_vars PROVE Books'
  BY NextIInv DEF Balanced
<1>1. Counted /\ Books /\ Player # {} /\ IsFiniteSet(Live(auction)) /\ IInv'
  BY NextIInv DEF Balanced, Counted, Books
<1>2. ASSUME Live(auction)' = Live(auction), \A z \in Player : Wealth(z)' <= Wealth(z) PROVE Books'
  <2>1. Counted'
    BY <1>1, <1>2 DEF Counted
  <2>. QED BY <1>1, <1>2, <2>1, BooksStay
<1>3. ASSUME UNCHANGED auction, NEW x \in Player, NEW y \in Player, NEW c \in Nat, NEW d \in Nat,
             d <= c, Moves(x, -c, y, d)
      PROVE  Books'
  <2>1. Live(auction)' = Live(auction)
    BY <1>3 DEF Live
  <2>2. Counted'
    BY <1>1, <2>1 DEF Counted
  <2>3. Deposit * Cardinality(Live(auction)) \in Int
    BY <1>1, WealthsInts
  <2>4. Deposit * Cardinality(Live(auction))' = Deposit * Cardinality(Live(auction)) + 0
    BY <2>1, <2>3
  <2>5. -c \in Int /\ d \in Int /\ (-c) + d + 0 <= 0
    BY <1>3
  <2>. QED BY <1>1, <1>3, <2>2, <2>4, <2>5, BooksMove
<1>4. ASSUME NEW i, i \in Live(auction), Live(auction)' = Live(auction) \ {i},
             NEW x \in Player, NEW y \in Player, NEW c \in Int, NEW d \in Int,
             c + d <= Deposit, Moves(x, c, y, d)
      PROVE  Books'
  <2>1. Counted'
    BY <1>1, <1>4, FS_RemoveElement DEF Counted
  <2>2. Deposit * Cardinality(Live(auction))' = Deposit * Cardinality(Live(auction)) + (-Deposit)
    BY <1>1, <1>4, Deposits
  <2>3. -Deposit \in Int /\ c + d + (-Deposit) <= 0
    BY <1>1, <1>4, WealthsInts
  <2>. QED BY <1>1, <1>4, <2>1, <2>2, <2>3, BooksMove
<1>5. ASSUME NEW p \in Player, NEW i \in Item, NEW s \in Starts, NEW b \in Buyouts,
             SellItem(p, i, s, b)
      PROVE  Books'
  <2>1. /\ i \notin Live(auction) /\ Live(auction)' = Live(auction) \cup {i} /\ IsFiniteSet(Live(auction)')
        /\ \A z \in Player : Wealth(z)' = Wealth(z) - (IF z = p THEN Deposit ELSE 0)
    BY <1>1, <1>5, SellItemWorth DEF Live
  <2>2. Counted'
    BY <1>1, <2>1 DEF Counted
  <2>3. Deposit * Cardinality(Live(auction))' = Deposit * Cardinality(Live(auction)) + Deposit
    BY <1>1, <2>1, Deposits
  <2>4. Deposit \in Nat /\ -Deposit \in Int /\ 0 \in Int /\ (-Deposit) + 0 + Deposit <= 0
    BY <1>1, WealthsInts
  <2>5. Moves(p, -Deposit, p, 0)
    BY <1>1, <2>1, <2>4, WealthTypes DEF Moves
  <2>. QED BY <1>1, <2>2, <2>3, <2>4, <2>5, BooksMove
<1>6. ASSUME NEW p \in Player, NEW i \in Item, NEW price \in 1 .. MaxMoney, PlaceBid(p, i, price)
      PROVE  Books'
  <2>1. Live(auction)' = Live(auction) /\ \A z \in Player : Wealth(z)' = Wealth(z)
    BY <1>1, <1>6, PlaceBidWorth DEF Live
  <2>. QED BY <1>1, <1>2, <2>1, WealthTypes
<1>7. ASSUME NEW p \in Player, NEW i \in Item, NEW price \in 1 .. MaxMoney, Buyout(p, i, price)
      PROVE  Books'
  <2>. DEFINE b == [auction[i] EXCEPT !.bidder = p, !.bid = auction[i].buyout]
              o == auction[i].owner
              d == b.bid + Deposit - AuctionCut(b)
  <2>1. /\ i \in Live(auction) /\ Live(auction') = Live(auction) \ {i}
        /\ b.bid \in Nat /\ AuctionCut(b) \in Nat /\ o \in Player
        /\ \A z \in Player : Wealth(z)' = Wealth(z) + (IF z = p THEN -b.bid ELSE 0)
                                            + (IF z = o THEN d ELSE 0)
    BY <1>1, <1>7, BuyoutWorth
  <2>2. Live(auction)' = Live(auction) \ {i}
    BY <2>1 DEF Live
  <2>3. d \in Int /\ -b.bid \in Int /\ (-b.bid) + d <= Deposit /\ Deposit \in Nat
    BY <1>1, <2>1, WealthsInts
  <2>. HIDE DEF b, o, d
  <2>4. Moves(p, -b.bid, o, d)
    BY <1>1, <2>1, <2>3, WealthTypes DEF Moves
  <2>. QED BY <1>4, <2>1, <2>2, <2>3, <2>4
<1>8. ASSUME NEW p \in Player, NEW i \in Item, RemoveItem(p, i) PROVE Books'
  <2>. DEFINE c == AuctionCut(auction[i])
  <2>1. /\ i \in Live(auction) /\ Live(auction') = Live(auction) \ {i} /\ c \in Nat
        /\ \A z \in Player : Wealth(z)' = Wealth(z) - (IF z = p THEN c ELSE 0)
    BY <1>1, <1>8, RemoveItemWorth
  <2>2. Live(auction)' = Live(auction) \ {i}
    BY <2>1 DEF Live
  <2>. HIDE DEF c
  <2>3. 0 \in Int /\ -c \in Int /\ (-c) + 0 <= Deposit
    BY <1>1, <2>1, WealthsInts
  <2>4. Moves(p, -c, p, 0)
    BY <1>1, <2>1, WealthTypes DEF Moves
  <2>. QED BY <1>4, <2>1, <2>2, <2>3, <2>4
<1>9. ASSUME NEW i \in Item, Update(i) PROVE Books'
  <2>. DEFINE a == auction[i]
              d == a.bid + Deposit - AuctionCut(a)
  <2>1. /\ i \in Live(auction) /\ Live(auction') = Live(auction) \ {i}
        /\ a.bid \in Nat /\ AuctionCut(a) \in Nat /\ a.owner \in Player
        /\ a.bidder \in Player \cup {Nobody}
        /\ \A z \in Player : Wealth(z)' = Wealth(z) + (IF z = a.bidder THEN -a.bid ELSE 0)
             + (IF z = a.owner /\ a.bidder # Nobody THEN d ELSE 0)
    BY <1>1, <1>9, UpdateWorth
  <2>2. Live(auction)' = Live(auction) \ {i} /\ Nobody \notin Player
    BY <2>1, AuctionConstants DEF Live
  <2>3. d \in Int /\ -a.bid \in Int /\ (-a.bid) + d <= Deposit /\ Deposit \in Nat
    BY <1>1, <2>1, WealthsInts
  <2>. HIDE DEF a, d
  <2>4. CASE a.bidder = Nobody
    <3>1. Moves(a.owner, 0, a.owner, 0)
      BY <1>1, <2>1, <2>2, <2>4, WealthTypes DEF Moves
    <3>. QED BY <1>4, <2>1, <2>2, <2>3, <3>1
  <2>5. CASE a.bidder # Nobody
    <3>1. Moves(a.bidder, -a.bid, a.owner, d)
      BY <1>1, <2>1, <2>3, <2>5, WealthTypes DEF Moves
    <3>. QED BY <1>4, <2>1, <2>2, <2>3, <2>5, <3>1
  <2>. QED BY <2>4, <2>5
<1>10. ASSUME NEW i \in Item, TimeUp(i) PROVE Books'
  <2>1. Live(auction)' = Live(auction) /\ \A z \in Player : Wealth(z)' = Wealth(z)
    BY <1>1, <1>10, TimeUpWorth DEF Live
  <2>. QED BY <1>1, <1>2, <2>1, WealthTypes
<1>11. ASSUME UNCHANGED auction, \A z \in Player : Wealth(z)' <= Wealth(z) PROVE Books'
  BY <1>2, <1>11 DEF Live
<1>12. ASSUME NEW p \in Player, GetMail(p) \/ SaveMail(p) \/ Logout(p) \/ Login(p) PROVE Books'
  BY <1>1, <1>11, <1>12, PeopleWorth DEF GetMail, SaveMail, Logout, Login
<1>13. ASSUME NEW p \in Player, NEW q \in Player, NEW coins \in Gifts, NEW cod \in Gifts,
              NEW item \in bag[p] \cup {NoItem}, SendMail(p, q, coins, cod, item)
       PROVE  Books'
  <2>1. coins \in Nat /\ MailCost + coins \in Nat /\ coins <= MailCost + coins
    BY AuctionConstants
  <2>2. Moves(p, -(MailCost + coins), q, coins) /\ UNCHANGED auction
    BY <1>1, <1>13, SendMailWorth DEF SendMail
  <2>. QED BY <1>3, <2>1, <2>2
<1>14. ASSUME NEW p \in Player, NEW n \in DOMAIN mail, TakeMoney(p, n) PROVE Books'
  BY <1>1, <1>11, <1>14, TakeMoneyWorth DEF TakeMoney
<1>15. ASSUME NEW p \in Player, NEW n \in DOMAIN mail, NEW i \in Listed(n), TakeItem(p, n, i)
       PROVE  Books'
  <2>. DEFINE c == mail[n].cod
              q == IF c > 0 THEN mail[n].from ELSE p
  <2>1. c \in Nat /\ q \in Player /\ Moves(p, -c, q, c) /\ c <= c
    BY <1>1, <1>15, TakeItemWorth
  <2>2. UNCHANGED auction
    BY <1>15 DEF TakeItem
  <2>. HIDE DEF c, q
  <2>. QED BY <1>3, <2>1, <2>2
<1>16. ASSUME NEW p \in Player, NEW n \in DOMAIN mail, MailDelete(p, n) \/ MarkAsRead(p, n)
       PROVE  Books'
  BY <1>1, <1>11, <1>16, MarksWorth DEF MailDelete, MarkAsRead
<1>17. ASSUME NEW p \in Player, NEW n \in DOMAIN mail, ReturnToSender(p, n) PROVE Books'
  <2>1. PICK q \in Player, c \in Nat : Moves(p, -c, q, c)
    BY <1>1, <1>17, ReturnWorth
  <2>2. UNCHANGED auction /\ c <= c
    BY <1>17 DEF ReturnToSender
  <2>. QED BY <1>3, <2>1, <2>2
<1>18. ASSUME NEW n \in DOMAIN mail, Deliver(n) PROVE Books'
  BY <1>1, <1>11, <1>18, MarksWorth DEF Deliver
<1>19. ASSUME NEW n \in DOMAIN mail, OldMail(n) PROVE Books'
  <2>1. PICK p \in Player, q \in Player, c \in Nat : Moves(p, -c, q, c)
    BY <1>1, <1>19, OldMailWorth
  <2>2. UNCHANGED auction /\ c <= c
    BY <1>19 DEF OldMail
  <2>. QED BY <1>3, <2>1, <2>2
<1>20. CASE UNCHANGED vars
  <2>1. UNCHANGED <<money, mail, auction>>
    BY <1>20 DEF vars
  <2>2. \A z \in Player : Wealth(z)' = Wealth(z)
    BY <2>1 DEF Wealth
  <2>. QED BY <1>1, <1>11, <2>1, <2>2, WealthTypes
<1>21. CASE Next
  BY <1>21, <1>5, <1>6, <1>7, <1>8, <1>9, <1>10, <1>12, <1>13, <1>14, <1>15, <1>16, <1>17, <1>18,
     <1>19 DEF Next
<1>. QED BY <1>20, <1>21

\* The books balance in every state.
LEMMA AlwaysBalanced == Spec => []Balanced
BY InitBalanced, NextBalanced, PTL DEF Spec
-----------------------------------------------------------------------------
(* The sums of the specification.                                          *)

\* MapThenSumSet() adds up what is f[x] on S.
LEMMA CoinsAreTotal ==
    ASSUME NEW S, IsFiniteSet(S), NEW f, Ints(f, S), \A n \in S : f[n] = mail[n].coins
    PROVE  CoinsOf(S) = Total(f, S)
<1>. DEFINE iter[s \in SUBSET S] ==
       IF s = {} THEN 0 ELSE LET x == CHOOSE x \in s : TRUE IN mail[x].coins + iter[s \ {x}]
<1>1. \A s \in SUBSET S : s # {} => Pick(s) \in S /\ f[Pick(s)] = mail[Pick(s)].coins
  BY DEF Pick
<1>2. PICK h : FoldsUp(h, f, S)
  BY FoldExists
<1>3. h = [s \in SUBSET S |-> IF s = {} THEN 0 ELSE mail[Pick(s)].coins + h[s \ {Pick(s)}]]
  BY <1>1, <1>2 DEF FoldsUp
<1>4. iter = [s \in SUBSET S |-> IF s = {} THEN 0 ELSE mail[Pick(s)].coins + iter[s \ {Pick(s)}]]
  BY <1>3 DEF Pick
<1>5. CoinsOf(S) = iter[S]
  BY DEF CoinsOf, MapThenSumSet, MapThenFoldSet
<1>. HIDE DEF iter
<1>6. FoldsUp(iter, f, S)
  BY <1>1, <1>4 DEF FoldsUp
<1>. QED BY <1>5, <1>6, FoldIsTotal

BidSet(p) == {i \in Item : auction[i] # NoAuction /\ auction[i].bidder = p}
BidSum(S) == MapThenSumSet(LAMBDA i : auction[i].bid, S)

\* The same for bids.
LEMMA BidsAreTotal ==
    ASSUME NEW S, IsFiniteSet(S), NEW f, Ints(f, S), \A i \in S : f[i] = auction[i].bid
    PROVE  BidSum(S) = Total(f, S)
<1>. DEFINE iter[s \in SUBSET S] ==
       IF s = {} THEN 0 ELSE LET x == CHOOSE x \in s : TRUE IN auction[x].bid + iter[s \ {x}]
<1>1. \A s \in SUBSET S : s # {} => Pick(s) \in S /\ f[Pick(s)] = auction[Pick(s)].bid
  BY DEF Pick
<1>2. PICK h : FoldsUp(h, f, S)
  BY FoldExists
<1>3. h = [s \in SUBSET S |-> IF s = {} THEN 0 ELSE auction[Pick(s)].bid + h[s \ {Pick(s)}]]
  BY <1>1, <1>2 DEF FoldsUp
<1>4. iter = [s \in SUBSET S |-> IF s = {} THEN 0 ELSE auction[Pick(s)].bid + iter[s \ {Pick(s)}]]
  BY <1>3 DEF Pick
<1>5. BidSum(S) = iter[S]
  BY DEF BidSum, MapThenSumSet, MapThenFoldSet
<1>. HIDE DEF iter
<1>6. FoldsUp(iter, f, S)
  BY <1>1, <1>4 DEF FoldsUp
<1>. QED BY <1>5, <1>6, FoldIsTotal

\* The same for what players have.
LEMMA WorthsAreTotal ==
    ASSUME NEW S, IsFiniteSet(S), NEW f, Ints(f, S), \A p \in S : f[p] = Worth(p)
    PROVE  MapThenSumSet(Worth, S) = Total(f, S)
<1>. DEFINE iter[s \in SUBSET S] ==
       IF s = {} THEN 0 ELSE LET x == CHOOSE x \in s : TRUE IN Worth(x) + iter[s \ {x}]
<1>1. \A s \in SUBSET S : s # {} => Pick(s) \in S /\ f[Pick(s)] = Worth(Pick(s))
  BY DEF Pick
<1>2. PICK h : FoldsUp(h, f, S)
  BY FoldExists
<1>3. h = [s \in SUBSET S |-> IF s = {} THEN 0 ELSE Worth(Pick(s)) + h[s \ {Pick(s)}]]
  BY <1>1, <1>2 DEF FoldsUp
<1>4. iter = [s \in SUBSET S |-> IF s = {} THEN 0 ELSE Worth(Pick(s)) + iter[s \ {Pick(s)}]]
  BY <1>3 DEF Pick
<1>5. MapThenSumSet(Worth, S) = iter[S]
  BY DEF MapThenSumSet, MapThenFoldSet
<1>. HIDE DEF iter
<1>6. FoldsUp(iter, f, S)
  BY <1>1, <1>4 DEF FoldsUp
<1>. QED BY <1>5, <1>6, FoldIsTotal

\* Worth() of the specification and Wealth() of the proofs are the same.
LEMMA WorthIsWealth ==
    ASSUME Counted, NEW p \in Player
    PROVE  Worth(p) = Wealth(p)
<1>1. Auctions(auction) /\ Table(mail)
  BY WealthTypes
<1>2. CoinsOf(Inbox(p)) = MailWorth(mail, p)
  <2>. DEFINE f == [n \in DOMAIN mail |-> mail[n].coins]
              S == Inbox(p)
  <2>1. S \in SUBSET DOMAIN mail /\ IsFiniteSet(S) /\ IsFiniteSet(DOMAIN mail)
    BY <1>1, FS_Subset DEF Inbox, Table
  <2>2. Ints(f, S) /\ \A n \in S : f[n] = mail[n].coins
    BY <1>1, <2>1 DEF Ints, Table, Rows, MailRow
  <2>3. CoinsOf(S) = Total(f, S)
    <3>. HIDE DEF f, S
    <3>. QED BY <2>1, <2>2, CoinsAreTotal
  <2>4. \A n \in DOMAIN mail : Shares(mail, p)[n] = IF n \in S THEN f[n] ELSE 0
    BY DEF Shares, Share, Inbox
  <2>5. Total(Shares(mail, p), DOMAIN mail) = Total(f, S)
    <3>. HIDE DEF f, S
    <3>. QED BY <2>1, <2>2, <2>4, TotalSupport
  <2>. QED BY <2>3, <2>5 DEF MailWorth
<1>3. BidsOf(p) = BidWorth(auction, p)
  <2>. DEFINE f == [i \in Item |-> auction[i].bid]
              S == BidSet(p)
  <2>1. S \in SUBSET Live(auction) /\ IsFiniteSet(S) /\ IsFiniteSet(Live(auction)) /\ S \subseteq Item
    BY <1>1, FS_Subset DEF BidSet, Live, Auctions
  <2>2. Ints(f, S) /\ \A i \in S : f[i] = auction[i].bid
    <3>1. \A i \in S : auction[i].bid \in Nat
      BY <1>1, <2>1, StakesNat, EntryLive
    <3>. QED BY <2>1, <3>1 DEF Ints
  <2>3. BidsOf(p) = Total(f, S)
    <3>1. BidsOf(p) = BidSum(S)
      BY DEF BidsOf, BidSum, BidSet
    <3>. HIDE DEF f, S
    <3>2. BidSum(S) = Total(f, S)
      BY <2>1, <2>2, BidsAreTotal
    <3>. QED BY <3>1, <3>2
  <2>4. \A i \in Live(auction) : Stakes(auction, p)[i] = IF i \in S THEN f[i] ELSE 0
    BY DEF Stakes, Stake, BidSet, Live
  <2>5. Total(Stakes(auction, p), Live(auction)) = Total(f, S)
    <3>. HIDE DEF f, S
    <3>. QED BY <2>1, <2>2, <2>4, TotalSupport
  <2>. QED BY <2>3, <2>5 DEF BidWorth
<1>. QED BY <1>2, <1>3 DEF Worth, Wealth

\* Bids, refunds, the auctioneer's profit, deposits, cash on delivery and returned mail move
\* money between purses, mails and auctions and never make any, whoever sells, bids and
\* mails, if the cut is at most the bid (CutAtMostAll; the rate in the configuration is not
\* checked) and the amounts mailed fit in a uint32 with the postage (AmountsFit; the sum in
\* HandleSendMail() is not checked).
THEOREM MoneyConserved == Spec => []NoMoneyMade
<1>1. Balanced => NoMoneyMade
  <2>. SUFFICES ASSUME Balanced PROVE NoMoneyMade
    OBVIOUS
  <2>1. Counted
    BY DEF Balanced, Books, Counted
  <2>2. \A p \in Player : Wealths[p] = Worth(p)
    BY <2>1, WorthIsWealth, WealthsInts
  <2>3. MapThenSumSet(Worth, Player) = Total(Wealths, Player)
    BY <2>1, <2>2, WealthsInts, WorthsAreTotal
  <2>. QED BY <2>3 DEF Balanced, Books, Live, NoMoneyMade
<1>. QED BY <1>1, AlwaysBalanced, PTL
-----------------------------------------------------------------------------
(* What a change of an auction costs, and what it brings.                  *)

Reaches(ms, i, q) == \E k \in DOMAIN ms : ms[k].item = i /\ ms[k].to = q
Arrives(i, q)     == \E n \in DOMAIN mail : mail[n].item = i /\ mail[n].to = q
Linked            == \A p \in Player : Worth(p) = Wealth(p)

\* A mail to q about i that is sent is in the table.
LEMMA SentArrives ==
    ASSUME MailTypes, NEW ms \in Seq(Rows), SendAll({}, ms), NEW i, NEW q, Reaches(ms, i, q)
    PROVE  Arrives(i, q)'
<1>1. PICK k \in 1 .. Len(ms) : ms[k].item = i /\ ms[k].to = q
  BY DEF Reaches
<1>. DEFINE new == nextMail .. nextMail + Len(ms) - 1
            n   == nextMail + k - 1
<1>2. /\ DOMAIN mail' = (DOMAIN mail \ {}) \cup new
      /\ \A m \in (DOMAIN mail \ {}) \cup new :
            mail'[m] = IF m \in DOMAIN mail \ {} THEN mail[m] ELSE ms[m - nextMail + 1]
  BY DEF SendAll
<1>3. n \in new /\ n \notin DOMAIN mail /\ n - nextMail + 1 = k
  <2>1. nextMail \in Nat /\ DOMAIN mail \subseteq 1 .. nextMail - 1 /\ Len(ms) \in Nat
    BY DEF MailTypes
  <2>2. n \in new /\ n >= nextMail /\ n - nextMail + 1 = k
    BY <2>1
  <2>. QED BY <2>1, <2>2
<1>. HIDE DEF n, new
<1>4. n \in DOMAIN mail' /\ mail'[n] = ms[k]
  BY <1>2, <1>3
<1>. QED BY <1>1, <1>4 DEF Arrives

\* The last of two lists of mails is sent too.
LEMMA ReachesLast ==
    ASSUME NEW s \in Seq(Rows), NEW t \in Seq(Rows), NEW i, NEW q, Reaches(t, i, q)
    PROVE  Reaches(s \o t, i, q)
<1>1. PICK k \in 1 .. Len(t) : t[k].item = i /\ t[k].to = q
  BY DEF Reaches
<1>2. Len(s) + k \in DOMAIN (s \o t) /\ (s \o t)[Len(s) + k] = t[k]
  OBVIOUS
<1>. QED BY <1>1, <1>2 DEF Reaches

\* The winner's mail, where trades are logged or he is online.
LEMMA WonReaches ==
    ASSUME NEW a, a.bidder \in online \/ LogTrade = TRUE, NEW i
    PROVE  /\ Reaches(WonMail(a, i), i, a.bidder)
           /\ \A q : Reaches(<<AuctionMail(q, 0, i, FALSE)>>, i, q)
<1>1. ASSUME NEW q PROVE Reaches(<<AuctionMail(q, 0, i, FALSE)>>, i, q)
  <2>. DEFINE m == AuctionMail(q, 0, i, FALSE)
  <2>1. m.item = i /\ m.to = q
    BY DEF AuctionMail
  <2>. HIDE DEF m
  <2>2. 1 \in DOMAIN <<m>> /\ <<m>>[1] = m
    OBVIOUS
  <2>3. Reaches(<<m>>, i, q)
    BY <2>1, <2>2 DEF Reaches
  <2>. QED BY <2>3 DEF m
<1>2. WonMail(a, i) = <<AuctionMail(a.bidder, 0, i, FALSE)>>
  BY DEF WonMail
<1>. QED BY <1>1, <1>2

\* How an auction ends: bought out, refused, or settled.
LEMMA BuyoutReaches ==
    ASSUME Counted, NEW p \in Player, NEW i \in Item, NEW price, Buyout(p, i, price)
    PROVE  Arrives(i, p)'
<1>. DEFINE a == auction[i]
            b == [a EXCEPT !.bidder = p, !.bid = a.buyout]
            o == OutbiddedMail(a, p)
            s == SuccessfulMail(b)
            w == WonMail(b, i)
<1>1. a \in AuctionEntry
  BY EntryTyped DEF Buyout, Counted, IInv
<1>2. b.owner \in Player /\ b.bidder = p /\ b.bid \in Nat
  BY <1>1, EntryLive DEF AuctionEntry
<1>3. o \in Seq(Rows) /\ s \in Seq(Rows) /\ w \in Seq(Rows)
  BY <1>1, <1>2, OutbiddedTyped, SuccessfulTyped, WonTyped
<1>4. Reaches(w, i, p) /\ SendAll({}, o \o s \o w)
  BY <1>2, WonReaches DEF Buyout
<1>. HIDE DEF o, s, w
<1>5. o \o s \in Seq(Rows)
  BY <1>3, BothTyped
<1>6. o \o s \o w \in Seq(Rows)
  BY <1>3, <1>5, BothTyped
<1>7. Reaches(o \o s \o w, i, p)
  BY <1>3, <1>4, <1>5, ReachesLast
<1>. QED BY <1>4, <1>6, <1>7, SentArrives DEF Counted, IInv

\* Removed: the item goes back to the owner.
LEMMA RemoveReaches ==
    ASSUME Counted, NEW p \in Player, NEW i \in Item, RemoveItem(p, i)
    PROVE  Arrives(i, p)'
<1>. DEFINE o == OutbiddedMail(auction[i], p)
            w == <<AuctionMail(p, 0, i, FALSE)>>
<1>1. o \in Seq(Rows) /\ w \in Seq(Rows)
  BY EntryTyped, OutbiddedTyped, AuctionMailTyped, OneOrNone DEF RemoveItem, Counted, IInv
<1>2. Reaches(w, i, p)
  <2>. DEFINE m == AuctionMail(p, 0, i, FALSE)
  <2>1. m.item = i /\ m.to = p
    BY DEF AuctionMail
  <2>. HIDE DEF m
  <2>2. 1 \in DOMAIN <<m>> /\ <<m>>[1] = m
    OBVIOUS
  <2>3. Reaches(<<m>>, i, p)
    BY <2>1, <2>2 DEF Reaches
  <2>. QED BY <2>3 DEF m
<1>3. SendAll({}, o \o w)
  BY DEF RemoveItem
<1>. HIDE DEF o, w
<1>4. o \o w \in Seq(Rows) /\ Reaches(o \o w, i, p)
  BY <1>1, <1>2, BothTyped, ReachesLast
<1>. QED BY <1>3, <1>4, SentArrives DEF Counted, IInv

\* Settled: it goes to the bidder.
LEMMA UpdateReaches ==
    ASSUME LogTrade = TRUE, Counted, NEW i \in Item, Update(i), auction[i].bidder # Nobody,
           NEW q, q = auction[i].bidder
    PROVE  Arrives(i, q)'
<1>. DEFINE a == auction[i]
            s == SuccessfulMail(a)
            w == WonMail(a, i)
<1>1. a \in AuctionEntry /\ a.bidder # Nobody
  BY EntryTyped DEF Update, Counted, IInv
<1>2. a.owner \in Player /\ a.bidder \in Player /\ a.bid \in Nat
  BY <1>1, EntryLive
<1>3. s \in Seq(Rows) /\ w \in Seq(Rows) /\ Reaches(w, i, q)
  BY <1>2, SuccessfulTyped, WonTyped, WonReaches
<1>4. SendAll({}, s \o w)
  BY <1>1 DEF Update, UpdateMails
<1>. HIDE DEF a, s, w
<1>5. s \o w \in Seq(Rows) /\ Reaches(s \o w, i, q)
  BY <1>3, BothTyped, ReachesLast
<1>. QED BY <1>4, <1>5, SentArrives DEF Counted, IInv

\* Which actions change auction i.
LEMMA AuctionSteps ==
    ASSUME Counted, [Next]_vars, NEW i \in Item, auction'[i] # auction[i]
    PROVE  \/ \E p \in Player, s \in Starts, b \in Buyouts : SellItem(p, i, s, b)
           \/ \E p \in Player, price \in 1 .. MaxMoney : PlaceBid(p, i, price) \/ Buyout(p, i, price)
           \/ \E p \in Player : RemoveItem(p, i)
           \/ TimeUp(i) \/ Update(i)
<1>1. ASSUME NEW j \in Item, NEW a, auction' = [auction EXCEPT ![j] = a] PROVE j = i
  BY <1>1 DEF Counted, IInv, AuctionTypes
<1>2. ASSUME NEW p \in Player, NEW j \in Item,
             \/ RemoveItem(p, j)
             \/ \E s \in Starts, b \in Buyouts : SellItem(p, j, s, b)
             \/ \E price \in 1 .. MaxMoney : PlaceBid(p, j, price) \/ Buyout(p, j, price)
      PROVE  j = i
  BY <1>2 DEF RemoveItem, SellItem, PlaceBid, Buyout, Counted, IInv, AuctionTypes
<1>3. ASSUME NEW j \in Item, TimeUp(j) \/ Update(j) PROVE j = i
  BY <1>3 DEF TimeUp, Update, Counted, IInv, AuctionTypes
<1>4. ASSUME UNCHANGED auction PROVE FALSE
  BY <1>4
<1>5. ASSUME NEW p \in Player, NEW q \in Player, NEW coins, NEW cod, NEW item,
             SendMail(p, q, coins, cod, item)
      PROVE  FALSE
  BY <1>4, <1>5 DEF SendMail
<1>6. ASSUME NEW p \in Player, GetMail(p) \/ SaveMail(p) \/ Logout(p) \/ Login(p) PROVE FALSE
  BY <1>4, <1>6 DEF GetMail, SaveMail, Logout, Login
<1>7. ASSUME NEW p \in Player, NEW n,
             TakeMoney(p, n) \/ (\E k \in Listed(n) : TakeItem(p, n, k)) \/ MailDelete(p, n)
             \/ MarkAsRead(p, n) \/ ReturnToSender(p, n)
      PROVE  FALSE
  BY <1>4, <1>7 DEF TakeMoney, TakeItem, MailDelete, MarkAsRead, ReturnToSender
<1>8. ASSUME NEW n, Deliver(n) \/ OldMail(n) PROVE FALSE
  BY <1>4, <1>8 DEF Deliver, OldMail
<1>9. Next
  BY <1>4 DEF vars
<1>. QED BY <1>2, <1>3, <1>5, <1>6, <1>7, <1>8, <1>9 DEF Next

\* Who is not its owner is not poorer after it, or the item is on its way to him.
LEMMA PaidStep ==
    ASSUME LogTrade = TRUE, Counted, [Next]_vars, NEW i \in Item, auction'[i] # auction[i],
           NEW z \in Player
    PROVE  \/ Wealth(z)' >= Wealth(z)
           \/ z \in {auction[i].owner, auction'[i].owner}
           \/ Arrives(i, z)'
<1>0. Wealth(z) \in Nat
  BY WealthTypes
<1>1. ASSUME NEW p \in Player, NEW s \in Starts, NEW b \in Buyouts, SellItem(p, i, s, b)
      PROVE  Wealth(z)' >= Wealth(z) \/ z = auction'[i].owner
  <2>1. auction'[i].owner = p
    BY <1>1 DEF SellItem, Counted, IInv, AuctionTypes
  <2>2. Wealth(z)' = Wealth(z) - (IF z = p THEN Deposit ELSE 0)
    BY <1>1, SellItemWorth
  <2>. QED BY <1>0, <2>1, <2>2
<1>2. ASSUME NEW p \in Player, NEW price \in 1 .. MaxMoney, PlaceBid(p, i, price)
      PROVE  Wealth(z)' >= Wealth(z)
  BY <1>0, <1>2, PlaceBidWorth
<1>3. ASSUME NEW p \in Player, NEW price \in 1 .. MaxMoney, Buyout(p, i, price)
      PROVE  Wealth(z)' >= Wealth(z) \/ z = auction[i].owner \/ Arrives(i, z)'
  <2>. DEFINE b == [auction[i] EXCEPT !.bidder = p, !.bid = auction[i].buyout]
  <2>1. Wealth(z)' = Wealth(z) + (IF z = p THEN -b.bid ELSE 0)
          + (IF z = auction[i].owner THEN b.bid + Deposit - AuctionCut(b) ELSE 0)
    BY <1>3, BuyoutWorth
  <2>2. Arrives(i, p)'
    BY <1>3, BuyoutReaches
  <2>. HIDE DEF b
  <2>3. CASE z # p /\ z # auction[i].owner
    BY <1>0, <2>1, <2>3
  <2>. QED BY <2>2, <2>3
<1>4. ASSUME NEW p \in Player, RemoveItem(p, i) PROVE z = auction[i].owner \/ Wealth(z)' >= Wealth(z)
  <2>1. auction[i].owner = p
    BY <1>4 DEF RemoveItem
  <2>2. Wealth(z)' = Wealth(z) - (IF z = p THEN AuctionCut(auction[i]) ELSE 0)
    BY <1>4, RemoveItemWorth
  <2>. QED BY <1>0, <2>1, <2>2
<1>5. ASSUME TimeUp(i) PROVE Wealth(z)' >= Wealth(z)
  BY <1>0, <1>5, TimeUpWorth
<1>6. ASSUME Update(i)
      PROVE  Wealth(z)' >= Wealth(z) \/ z = auction[i].owner \/ Arrives(i, z)'
  <2>. DEFINE a == auction[i]
  <2>1. Wealth(z)' = Wealth(z) + (IF z = a.bidder THEN -a.bid ELSE 0)
          + (IF z = a.owner /\ a.bidder # Nobody THEN a.bid + Deposit - AuctionCut(a) ELSE 0)
    BY <1>6, UpdateWorth
  <2>2. z # Nobody
    BY AuctionConstants
  <2>3. CASE z = a.bidder
    BY <1>6, <2>2, <2>3, UpdateReaches
  <2>. HIDE DEF a
  <2>4. CASE z # a.bidder /\ z # a.owner
    BY <1>0, <2>1, <2>4
  <2>. QED BY <2>3, <2>4 DEF a
<1>. QED BY <1>1, <1>2, <1>3, <1>4, <1>5, <1>6, AuctionSteps

\* Where trades are logged: nobody but the owner of an auction is poorer for what happens to
\* it without the item being on its way to him.  Who is outbid, bought out or refused by
\* HandleAuctionRemoveItem() has his bid again, whatever the prices and however often it was
\* raised; who raises his own bid pays the difference.
THEOREM BidsPaidForItem ==
    ASSUME LogTrade = TRUE
    PROVE  Spec => PaidForItem
<1>1. Balanced => Counted /\ Linked
  BY WorthIsWealth DEF Balanced, Books, Counted, Linked
<1>2. Counted /\ Linked /\ Linked' /\ [Next]_vars =>
        [\A i \in Item : auction'[i] # auction[i] =>
           \A p \in Player :
              \/ Worth(p)' >= Worth(p)
              \/ p \in {auction[i].owner, auction'[i].owner}
              \/ \E n \in DOMAIN mail' : mail'[n].item = i /\ mail'[n].to = p]_vars
  <2>. SUFFICES ASSUME Counted, Linked, Linked', [Next]_vars, NEW i \in Item,
                       auction'[i] # auction[i], NEW p \in Player
                PROVE  \/ Worth(p)' >= Worth(p)
                       \/ p \in {auction[i].owner, auction'[i].owner}
                       \/ \E n \in DOMAIN mail' : mail'[n].item = i /\ mail'[n].to = p
    OBVIOUS
  <2>1. Worth(p) = Wealth(p) /\ Worth(p)' = Wealth(p)'
    BY DEF Linked
  <2>. QED BY <2>1, PaidStep DEF Arrives
<1>. QED BY <1>1, <1>2, AlwaysBalanced, PTL DEF Spec, PaidForItem

\* Where trades are logged, an auction that ends with a bid always mails its item: what
\* auction_won refutes is due to the account that is looked up only for the log.
THEOREM WinnersServed ==
    ASSUME LogTrade = TRUE
    PROVE  Spec => WinnerGetsItem
<1>1. Balanced => Counted
  BY DEF Balanced, Books, Counted
<1>2. Counted /\ [Next]_vars =>
        [\A i \in Item :
           (auction[i] # NoAuction /\ auction'[i] = NoAuction /\ auction[i].bidder # Nobody)
             => \E n \in DOMAIN mail' : mail'[n].item = i]_vars
  <2>. SUFFICES ASSUME Counted, [Next]_vars, NEW i \in Item, auction[i] # NoAuction,
                       auction'[i] = NoAuction, auction[i].bidder # Nobody
                PROVE  \E n \in DOMAIN mail' : mail'[n].item = i
    OBVIOUS
  <2>1. ASSUME NEW a \in AuctionEntry, auction' = [auction EXCEPT ![i] = a] PROVE FALSE
    BY <2>1, EntryLive DEF Counted, IInv, AuctionTypes
  <2>2. auction[i] \in AuctionEntry
    BY EntryTyped DEF Counted, IInv
  <2>3. ASSUME NEW p \in Player, NEW price \in 1 .. MaxMoney, PlaceBid(p, i, price) PROVE FALSE
    <3>. DEFINE b == [auction[i] EXCEPT !.bidder = p, !.bid = price]
    <3>1. b \in AuctionEntry
      <4>1. price \in 0 .. MaxMoney
        BY AuctionConstants
      <4>. QED BY <2>2, <4>1 DEF AuctionEntry
    <3>2. auction' = [auction EXCEPT ![i] = b]
      BY <2>2, <2>3 DEF PlaceBid, Counted, IInv, AuctionTypes
    <3>. QED BY <2>1, <3>1, <3>2
  <2>4. ASSUME TimeUp(i) PROVE FALSE
    <3>. DEFINE b == [auction[i] EXCEPT !.timeUp = TRUE]
    <3>1. b \in AuctionEntry /\ auction' = [auction EXCEPT ![i] = b]
      BY <2>2, <2>4 DEF TimeUp, AuctionEntry
    <3>. QED BY <2>1, <3>1
  <2>5. ASSUME NEW p \in Player, NEW s, NEW b, SellItem(p, i, s, b) PROVE FALSE
    BY <2>5 DEF SellItem
  <2>6. ASSUME NEW q, Arrives(i, q)' PROVE \E n \in DOMAIN mail' : mail'[n].item = i
    BY <2>6 DEF Arrives
  <2>7. CASE Update(i)
    <3>. DEFINE q == auction[i].bidder
    <3>1. PICK z \in Player : z = q
      BY <2>2, EntryLive
    <3>. QED BY <2>6, <2>7, <3>1, UpdateReaches
  <2>. QED BY <2>3, <2>4, <2>5, <2>6, <2>7, AuctionSteps, BuyoutReaches, RemoveReaches
<1>. QED BY <1>1, <1>2, AlwaysBalanced, PTL DEF Spec, WinnerGetsItem
=============================================================================
