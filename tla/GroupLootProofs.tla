--------------------------- MODULE GroupLootProofs ---------------------------
(***************************************************************************)
(* The type invariant of GroupLoot, TotalsExact and GivenOnce, for any     *)
(* players, corpses, distances, items and bounds.                          *)
(***************************************************************************)
EXTENDS GroupLoot, DataLemmas, FiniteSetTheorems, TLAPS

Votes == UNION {[S -> Vote] : S \in SUBSET Player}

RollRecord ==
    [corpse : Corpse, valid : BOOLEAN, vote : Votes, again : BOOLEAN,
     rolling : Nat, need : Nat, greed : Nat, pass : Nat]

\* The totals of r follow its votes.
Exact(r) ==
    /\ r.rolling = Cardinality(DOMAIN r.vote)
    /\ Follows(r, r.need, "need") /\ Follows(r, r.greed, "greed") /\ Follows(r, r.pass, "pass")

GroupTypes ==
    /\ members \in Seq(Player) /\ IsInjective(members)
    /\ IF members = <<>> THEN leader = 0 ELSE Member(leader)
    /\ method \in Method /\ online \subseteq Player

LootTypes ==
    /\ rolls \in Seq(RollRecord)
    /\ item \in [Corpse -> ItemState]
    /\ timer \in [Corpse -> BOOLEAN] /\ timerGroup \in [Corpse -> Player \cup {0}]
    /\ given \in [Corpse -> Nat] /\ extra \in [Corpse -> Nat]

Totals == \A i \in DOMAIN rolls : Exact(rolls[i])

\* A corpse that is still there has one roll at most, ...
OneRoll ==
    \A i, j \in DOMAIN rolls :
        rolls[i].valid /\ rolls[j].valid /\ rolls[i].corpse = rolls[j].corpse => i = j

\* ... and its item waits for it, or was given by the master.
RolledBlocked ==
    \A i \in DOMAIN rolls : rolls[i].valid => item[rolls[i].corpse] \in {"blocked", "handed"}

\* What can still be given has not been.
NotGivenYet ==
    \A c \in Corpse : item[c] \in {"unfilled", "blocked", "free", "gone"} => given[c] = 0

Items == OneRoll /\ RolledBlocked /\ NotGivenYet /\ GivenOnce

\* The inductive invariant.
IInv == GroupTypes /\ LootTypes /\ Totals /\ Items
-----------------------------------------------------------------------------
(* One roll.                                                               *)

\* The votes of a roll are those of some players: finitely many.
LEMMA VotersFinite ==
    ASSUME NEW r \in RollRecord
    PROVE  /\ DOMAIN r.vote \subseteq Player /\ IsFiniteSet(DOMAIN r.vote)
           /\ r.vote \in [DOMAIN r.vote -> Vote]
           /\ \A v : IsFiniteSet(Voters(r, v)) /\ Cardinality(Voters(r, v)) \in Nat
           /\ Cardinality(DOMAIN r.vote) \in Nat
<1>1. PICK S \in SUBSET Player : r.vote \in [S -> Vote]
  BY DEF RollRecord, Votes
<1>2. DOMAIN r.vote = S /\ IsFiniteSet(S)
  BY <1>1, LootConstants, FS_Subset
<1>3. ASSUME NEW v PROVE IsFiniteSet(Voters(r, v))
  BY <1>2, FS_Subset DEF Voters
<1>. QED BY <1>1, <1>2, <1>3, FS_CardinalityType

\* A new roll, in which nobody has voted.
LEMMA RollExact ==
    ASSUME NEW c \in Corpse, NEW S \in SUBSET Player
    PROVE  Roll(c, S) \in RollRecord /\ Exact(Roll(c, S))
<1>. DEFINE r == Roll(c, S)
<1>1. IsFiniteSet(S) /\ Cardinality(S) \in Nat
  BY LootConstants, FS_Subset, FS_CardinalityType
<1>2. [p \in S |-> "none"] \in [S -> Vote]
  BY DEF Vote
<1>3. [p \in S |-> "none"] \in Votes
  BY <1>2 DEF Votes
<1>4. r \in RollRecord
  BY <1>1, <1>3 DEF Roll, RollRecord
<1>5. \A v \in {"need", "greed", "pass"} : Voters(r, v) = {}
  BY DEF Voters, Roll
<1>6. DOMAIN r.vote = S /\ r.rolling = Cardinality(S) /\ r.need = 0 /\ r.greed = 0 /\ r.pass = 0
  BY DEF Roll
<1>. HIDE DEF r
<1>7. Exact(r)
  BY <1>5, <1>6, FS_EmptySet DEF Exact, Follows
<1>. QED BY <1>4, <1>7 DEF r

\* A roll whose votes and totals change is a roll.
LEMMA RollChanged ==
    ASSUME NEW r \in RollRecord, NEW w \in Votes, NEW g \in BOOLEAN,
           NEW a \in Nat, NEW b \in Nat, NEW c \in Nat
    PROVE  [r EXCEPT !.vote = w, !.again = g, !.need = a, !.greed = b, !.pass = c] \in RollRecord
<1>1. [r EXCEPT !.vote = w, !.again = g] \in RollRecord
  BY DEF RollRecord
<1>2. [r EXCEPT !.vote = w, !.again = g, !.need = a] \in RollRecord
  BY <1>1 DEF RollRecord
<1>3. [r EXCEPT !.vote = w, !.again = g, !.need = a, !.greed = b] \in RollRecord
  BY <1>2 DEF RollRecord
<1>. QED BY <1>3 DEF RollRecord

\* CountRollVote() counts a vote where it is cast, and again when it is cast again.
LEMMA VotedExact ==
    ASSUME NEW r \in RollRecord, Exact(r), NEW p \in DOMAIN r.vote, NEW v \in Vote
    PROVE  LET s == Voted(r, p, v)
           IN  s \in RollRecord /\ Exact(s) /\ s.corpse = r.corpse /\ s.valid = r.valid
<1>. DEFINE s == Voted(r, p, v)
            x == IF v = "none" THEN r.vote[p] ELSE v
            g == r.again \/ (v # "none" /\ r.vote[p] # "none")
            a == IF v = "need"  THEN r.need + 1 ELSE r.need
            b == IF v = "greed" THEN r.greed + 1 ELSE r.greed
            c == IF v = "pass"  THEN r.pass + 1 ELSE r.pass
            w == [r.vote EXCEPT ![p] = x]
<1>1. {r.need, r.greed, r.pass} \subseteq Nat /\ r.again \in BOOLEAN
  BY DEF RollRecord
<1>2. /\ DOMAIN r.vote \subseteq Player /\ r.vote \in [DOMAIN r.vote -> Vote]
      /\ \A u : IsFiniteSet(Voters(r, u)) /\ Cardinality(Voters(r, u)) \in Nat
  BY VotersFinite
<1>3. s = [r EXCEPT !.vote = w, !.again = g, !.need = a, !.greed = b, !.pass = c]
  BY Zenon DEF Voted
<1>4. x \in Vote
  BY <1>2
<1>5. w \in [DOMAIN r.vote -> Vote] /\ w \in Votes
  BY <1>2, <1>4 DEF Votes
<1>6. a \in Nat /\ b \in Nat /\ c \in Nat /\ g \in BOOLEAN
  BY <1>1
<1>. HIDE DEF a, b, c, g, w, x, s
<1>7. s \in RollRecord
  BY <1>3, <1>5, <1>6, RollChanged
<1>8. /\ s.corpse = r.corpse /\ s.valid = r.valid /\ s.rolling = r.rolling
      /\ s.vote = w /\ s.again = g /\ s.need = a /\ s.greed = b /\ s.pass = c
  BY <1>3 DEF RollRecord
<1>9. ASSUME NEW u \in {"need", "greed", "pass"}, NEW t \in Nat, Follows(r, t, u)
      PROVE  Follows(s, IF v = u THEN t + 1 ELSE t, u)
  <2>1. CASE v = "none"
    <3>1. s.vote = r.vote /\ s.again = r.again
      BY <1>1, <1>2, <1>8, <2>1 DEF w, x, g
    <3>. QED BY <1>9, <2>1, <3>1 DEF Follows, Voters
  <2>2. CASE v # "none" /\ v = u
    <3>1. Voters(s, u) = Voters(r, u) \cup {p}
      BY <1>2, <1>8, <2>2 DEF Voters, w, x
    <3>2. Cardinality(Voters(s, u)) = IF p \in Voters(r, u) THEN Cardinality(Voters(r, u))
                                      ELSE Cardinality(Voters(r, u)) + 1
      BY <1>2, <3>1, FS_AddElement
    <3>3. p \in Voters(r, u) => s.again
      BY <1>8, <2>2 DEF Voters, g
    <3>4. r.again => s.again
      BY <1>8 DEF g
    <3>. QED BY <1>2, <1>9, <2>2, <3>2, <3>3, <3>4 DEF Follows
  <2>3. CASE v # "none" /\ v # u
    <3>1. Voters(s, u) = Voters(r, u) \ {p}
      BY <1>2, <1>8, <2>3 DEF Voters, w, x
    <3>2. Cardinality(Voters(s, u)) = IF p \in Voters(r, u) THEN Cardinality(Voters(r, u)) - 1
                                      ELSE Cardinality(Voters(r, u))
      BY <1>2, <3>1, FS_RemoveElement
    <3>3. p \in Voters(r, u) => s.again
      BY <1>8, <2>3 DEF Voters, g
    <3>4. r.again => s.again
      BY <1>8 DEF g
    <3>. QED BY <1>2, <1>9, <2>3, <3>2, <3>3, <3>4 DEF Follows
  <2>. QED BY <2>1, <2>2, <2>3
<1>10. Follows(s, a, "need") /\ Follows(s, b, "greed") /\ Follows(s, c, "pass")
  BY <1>1, <1>9 DEF Exact, a, b, c
<1>11. DOMAIN s.vote = DOMAIN r.vote
  BY <1>5, <1>8
<1>12. Exact(s)
  BY <1>8, <1>10, <1>11 DEF Exact
<1>. QED BY <1>7, <1>8, <1>12 DEF s

\* _removeRolls() takes back the vote of a player who leaves.
LEMMA ForgetExact ==
    ASSUME NEW r \in RollRecord, Exact(r), NEW p
    PROVE  LET s == Forget(r, p)
           IN  s \in RollRecord /\ Exact(s) /\ s.corpse = r.corpse /\ s.valid = r.valid
<1>1. CASE p \notin DOMAIN r.vote
  BY <1>1 DEF Forget
<1>2. CASE p \in DOMAIN r.vote
  <2>. DEFINE s == Forget(r, p)
              D == DOMAIN r.vote \ {p}
  <2>1. /\ r.corpse \in Corpse /\ r.valid \in BOOLEAN /\ r.again \in BOOLEAN
        /\ r = [corpse |-> r.corpse, valid |-> r.valid, vote |-> r.vote, again |-> r.again,
                rolling |-> r.rolling, need |-> r.need, greed |-> r.greed, pass |-> r.pass]
    BY DEF RollRecord
  <2>2. /\ DOMAIN r.vote \subseteq Player /\ r.vote \in [DOMAIN r.vote -> Vote]
        /\ IsFiniteSet(DOMAIN r.vote)
        /\ \A w : IsFiniteSet(Voters(r, w)) /\ Cardinality(Voters(r, w)) \in Nat
    BY VotersFinite
  <2>3. /\ s.corpse = r.corpse /\ s.valid = r.valid /\ s.rolling = r.rolling - 1
        /\ s.vote = Restrict(r.vote, D) /\ s.again = r.again
        /\ s.need  = IF r.vote[p] = "need"  THEN r.need - 1 ELSE r.need
        /\ s.greed = IF r.vote[p] = "greed" THEN r.greed - 1 ELSE r.greed
        /\ s.pass  = IF r.vote[p] = "pass"  THEN r.pass - 1 ELSE r.pass
        /\ s = [corpse |-> s.corpse, valid |-> s.valid, vote |-> s.vote, again |-> s.again,
                rolling |-> s.rolling, need |-> s.need, greed |-> s.greed, pass |-> s.pass]
    BY <1>2, <2>1 DEF Forget
  <2>. HIDE DEF s
  <2>4. s.vote = [q \in D |-> r.vote[q]]
    BY <2>3 DEF Restrict
  <2>5. s.vote \in [D -> Vote] /\ DOMAIN s.vote = D /\ D \in SUBSET Player
    BY <2>2, <2>4
  <2>6. s.vote \in Votes
    BY <2>5 DEF Votes
  <2>7. s.rolling = Cardinality(D)
    BY <1>2, <2>2, <2>3, FS_RemoveElement DEF Exact
  <2>8. ASSUME NEW w \in {"need", "greed", "pass"}
        PROVE  /\ Cardinality(Voters(s, w)) = IF r.vote[p] = w
                                              THEN Cardinality(Voters(r, w)) - 1
                                              ELSE Cardinality(Voters(r, w))
               /\ Cardinality(Voters(s, w)) \in Nat
    <3>1. Voters(s, w) = Voters(r, w) \ {p}
      BY <2>4, <2>5 DEF Voters
    <3>2. p \in Voters(r, w) <=> r.vote[p] = w
      BY <1>2 DEF Voters
    <3>3. IsFiniteSet(Voters(s, w))
      BY <2>2, <3>1, FS_RemoveElement
    <3>. QED BY <2>2, <3>1, <3>2, <3>3, FS_RemoveElement, FS_CardinalityType
  <2>9. ASSUME NEW w \in {"need", "greed", "pass"}, NEW t \in Nat, Follows(r, t, w)
        PROVE  LET u == IF r.vote[p] = w THEN t - 1 ELSE t IN u \in Nat /\ Follows(s, u, w)
    <3>1. t >= Cardinality(Voters(r, w)) /\ (~s.again => t = Cardinality(Voters(r, w)))
      BY <2>3, <2>9 DEF Follows
    <3>. QED BY <2>2, <2>8, <3>1 DEF Follows
  <2>10. /\ Exact(s)
         /\ {s.rolling, s.need, s.greed, s.pass} \subseteq Nat
    <3>1. IsFiniteSet(D) /\ {r.need, r.greed, r.pass} \subseteq Nat
      BY <2>2, FS_RemoveElement DEF RollRecord
    <3>2. s.rolling \in Nat
      BY <2>7, <3>1, FS_CardinalityType
    <3>3. s.need \in Nat /\ Follows(s, s.need, "need")
      BY <2>3, <2>9, <3>1 DEF Exact
    <3>4. s.greed \in Nat /\ Follows(s, s.greed, "greed")
      BY <2>3, <2>9, <3>1 DEF Exact
    <3>5. s.pass \in Nat /\ Follows(s, s.pass, "pass")
      BY <2>3, <2>9, <3>1 DEF Exact
    <3>. QED BY <2>5, <2>7, <3>2, <3>3, <3>4, <3>5 DEF Exact
  <2>11. s \in RollRecord
    BY <2>1, <2>3, <2>6, <2>10 DEF RollRecord
  <2>. QED BY <2>3, <2>10, <2>11 DEF s
<1>. QED BY <1>1, <1>2
-----------------------------------------------------------------------------
(* The actions.                                                            *)

LEMMA InitInv == Init => IInv
<1>. SUFFICES ASSUME Init PROVE IInv
  OBVIOUS
<1>1. members \in Seq(Player) /\ IsInjective(members) /\ members # <<>>
  <2>1. PICK S \in SUBSET Player : Cardinality(S) >= 2 /\ members = SetToSeq(S)
    BY DEF Init
  <2>. DEFINE n == Cardinality(S)
  <2>2. n \in Nat /\ n >= 2 /\ ExistsBijection(1 .. n, S)
    BY <2>1, LootConstants, FS_Subset, FS_CardinalityType
  <2>3. PICK f \in [1 .. n -> S] : IsInjective(f)
    BY <2>2 DEF ExistsBijection, Bijection, Injection
  <2>4. members \in [1 .. n -> S] /\ IsInjective(members)
    BY <2>1, <2>3 DEF SetToSeq
  <2>. HIDE DEF n
  <2>. QED BY <2>2, <2>4
<1>2. Member(leader)
  BY <1>1 DEF Init, Member, Range
<1>3. GroupTypes
  BY <1>1, <1>2 DEF GroupTypes, Init
<1>4. LootTypes
  BY DEF LootTypes, Init, ItemState
<1>5. Totals /\ OneRoll /\ RolledBlocked
  BY DEF Totals, OneRoll, RolledBlocked, Init
<1>6. NotGivenYet /\ GivenOnce
  BY DEF NotGivenYet, GivenOnce, Init
<1>. QED BY <1>3, <1>4, <1>5, <1>6 DEF IInv, Items

\* An action that touches neither rolls nor items.
LEMMA OnlyGroup ==
    ASSUME IInv, GroupTypes', UNCHANGED <<rolls, item, gifts>>,
           timer' \in [Corpse -> BOOLEAN], timerGroup' \in [Corpse -> Player \cup {0}]
    PROVE  IInv'
<1>1. LootTypes'
  BY DEF IInv, LootTypes, gifts
<1>2. Totals' /\ Items'
  BY DEF IInv, Totals, Items, OneRoll, RolledBlocked, NotGivenYet, GivenOnce, gifts
<1>. QED BY <1>1, <1>2 DEF IInv

\* A corpse without a valid roll starts one, or its item is free.
LEMMA StartRollInv == ASSUME IInv, NEW p \in Player, NEW c \in Corpse, StartRoll(p, c) PROVE IInv'
<1>1. GroupTypes /\ LootTypes /\ Totals /\ OneRoll /\ RolledBlocked /\ NotGivenYet /\ GivenOnce
  BY DEF IInv, Items
<1>2. UNCHANGED <<members, leader, method, online, given, extra>> /\ item[c] = "unfilled"
  BY DEF StartRoll, group, gifts
<1>3. GroupTypes'
  BY <1>1, <1>2 DEF GroupTypes, Member
<1>4. \A i \in DOMAIN rolls : rolls[i].valid => rolls[i].corpse # c
  BY <1>1, <1>2 DEF RolledBlocked
<1>5. ASSUME NEW x \in {"free", "blocked"}, item' = [item EXCEPT ![c] = x]
      PROVE  /\ item' \in [Corpse -> ItemState] /\ NotGivenYet' /\ GivenOnce'
             /\ \A i \in DOMAIN rolls : rolls[i].valid => item'[rolls[i].corpse] \in {"blocked", "handed"}
  <2>1. item' \in [Corpse -> ItemState]
    BY <1>1, <1>5 DEF LootTypes, ItemState
  <2>2. given[c] = 0
    BY <1>1, <1>2 DEF NotGivenYet
  <2>3. NotGivenYet' /\ GivenOnce'
    BY <1>1, <1>2, <1>5, <2>2 DEF LootTypes, NotGivenYet, GivenOnce
  <2>4. \A i \in DOMAIN rolls : rolls[i].corpse \in Corpse
    <3>1. \A i \in DOMAIN rolls : rolls[i] \in RollRecord
      BY <1>1 DEF LootTypes
    <3>. QED BY <3>1 DEF RollRecord
  <2>. QED BY <1>1, <1>4, <1>5, <2>1, <2>3, <2>4 DEF LootTypes, RolledBlocked
<1>6. CASE item' = [item EXCEPT ![c] = "free"] /\ UNCHANGED <<rolls, timer, timerGroup>>
  <2>1. LootTypes' /\ NotGivenYet' /\ GivenOnce' /\ RolledBlocked'
    BY <1>1, <1>2, <1>5, <1>6 DEF LootTypes, RolledBlocked
  <2>2. Totals' /\ OneRoll'
    BY <1>1, <1>6 DEF Totals, OneRoll
  <2>. QED BY <1>3, <2>1, <2>2 DEF IInv, Items
<1>7. ASSUME NEW S \in SUBSET Player, rolls' = Append(rolls, Roll(c, S)), Member(p),
             item' = [item EXCEPT ![c] = "blocked"],
             \/ UNCHANGED <<timer, timerGroup>>
             \/ /\ timer' = [timer EXCEPT ![c] = TRUE]
                /\ timerGroup' = [timerGroup EXCEPT ![c] = leader]
      PROVE  IInv'
  <2>. DEFINE r == Roll(c, S)
              n == Len(rolls)
  <2>1. r \in RollRecord /\ Exact(r)
    BY RollExact
  <2>2. r.corpse = c /\ r.valid = TRUE
    BY DEF Roll
  <2>. HIDE DEF r
  <2>3. rolls \in Seq(RollRecord)
    BY <1>1 DEF LootTypes
  <2>4. /\ rolls' \in Seq(RollRecord) /\ n \in Nat
        /\ DOMAIN rolls = 1 .. n /\ DOMAIN rolls' = 1 .. n + 1
        /\ \A i \in 1 .. n : rolls'[i] = rolls[i]
        /\ rolls'[n + 1] = r
    BY <1>7, <2>1, <2>3 DEF r
  <2>. HIDE DEF n
  <2>5. leader \in Player \cup {0}
    BY <1>1 DEF GroupTypes, Member, Range
  <2>6. LootTypes'
    BY <1>1, <1>2, <1>5, <1>7, <2>4, <2>5 DEF LootTypes
  <2>7. \A i \in 1 .. n + 1 : i \in 1 .. n \/ i = n + 1
    BY <2>4
  <2>8. Totals'
    BY <1>1, <2>1, <2>4, <2>7 DEF Totals
  <2>9. OneRoll'
    BY <1>1, <1>4, <2>2, <2>4, <2>7 DEF OneRoll
  <2>10. item'[c] = "blocked"
    BY <1>1, <1>7 DEF LootTypes
  <2>11. RolledBlocked'
    BY <1>5, <1>7, <2>2, <2>4, <2>7, <2>10 DEF RolledBlocked
  <2>. QED BY <1>3, <1>5, <1>7, <2>6, <2>8, <2>9, <2>11 DEF IInv, Items
<1>8. CASE ~(item' = [item EXCEPT ![c] = "free"] /\ UNCHANGED <<rolls, timer, timerGroup>>)
  <2>. DEFINE near == Range(members) \cap online \cap Near[c]
              S    == IF method = "need" THEN near \cap Usable[c] ELSE near
  <2>1. S \in SUBSET Player
    BY <1>1 DEF GroupTypes, Range
  <2>2. /\ rolls' = Append(rolls, Roll(c, S)) /\ Member(p)
        /\ item' = [item EXCEPT ![c] = "blocked"]
        /\ \/ UNCHANGED <<timer, timerGroup>>
           \/ /\ timer' = [timer EXCEPT ![c] = TRUE]
              /\ timerGroup' = [timerGroup EXCEPT ![c] = leader]
    BY <1>8 DEF StartRoll
  <2>. HIDE DEF S
  <2>. QED BY <1>7, <2>1, <2>2
<1>. QED BY <1>6, <1>8

\* What the end of rolls does to the items: those rolled for are given once or not, except
\* that two threads give one twice.
LEMMA CountTheRollsItems ==
    ASSUME LootTypes, RolledBlocked, NotGivenYet, GivenOnce,
           NEW rs, NEW twice, CountTheRolls(rs, twice),
           \A r \in rs : \E i \in DOMAIN rolls :
                r.corpse = rolls[i].corpse /\ r.valid = rolls[i].valid
    PROVE  /\ item' \in [Corpse -> ItemState]
           /\ given' \in [Corpse -> Nat] /\ extra' \in [Corpse -> Nat]
           /\ NotGivenYet' /\ GivenOnce'
           /\ \A c \in Corpse : (\A r \in rs : ~(r.valid /\ r.corpse = c)) => item'[c] = item[c]
<1>. DEFINE ended == [c \in Corpse |-> {r \in rs : r.corpse = c /\ r.valid}]
            after == [c \in Corpse |-> IF ended[c] = {} THEN {item[c]}
                                       ELSE UNION {Results(r) : r \in ended[c]}]
            won(c) == ended[c] # {} /\ item'[c] = "looted"
<1>1. /\ item' \in [Corpse -> UNION Range(after)] /\ \A c \in Corpse : item'[c] \in after[c]
      /\ given' = [c \in Corpse |-> IF won(c) THEN given[c] + (IF c \in twice THEN 2 ELSE 1)
                                    ELSE given[c]]
      /\ extra' = [c \in Corpse |-> IF won(c) /\ c \in twice THEN extra[c] + 1 ELSE extra[c]]
  BY DEF CountTheRolls
<1>2. /\ item \in [Corpse -> ItemState] /\ given \in [Corpse -> Nat] /\ extra \in [Corpse -> Nat]
  BY DEF LootTypes
<1>3. ASSUME NEW c \in Corpse, ended[c] = {}
      PROVE  item'[c] = item[c] /\ given'[c] = given[c] /\ extra'[c] = extra[c]
  BY <1>1, <1>3
<1>4. ASSUME NEW c \in Corpse, ended[c] # {}
      PROVE  /\ item'[c] \in ItemState
             /\ \/ item'[c] = "handed" /\ given'[c] = given[c] /\ extra'[c] = extra[c]
                \/ item'[c] \in {"free", "blocked"} /\ given'[c] = 0 /\ extra'[c] = extra[c]
                \/ item'[c] = "looted" /\ given'[c] = 1 /\ extra'[c] = extra[c]
                \/ item'[c] = "looted" /\ given'[c] = 2 /\ extra'[c] = extra[c] + 1
  <2>1. \A r \in ended[c] : r \in rs /\ r.corpse = c /\ r.valid
    OBVIOUS
  <2>2. item[c] \in {"blocked", "handed"}
    BY <1>4, <2>1 DEF RolledBlocked
  <2>3. item[c] = "blocked" => given[c] = 0
    BY <2>2 DEF NotGivenYet
  <2>4. item'[c] \in UNION {Results(r) : r \in ended[c]}
    BY <1>1, <1>4
  <2>5. PICK r \in ended[c] : item'[c] \in Results(r)
    BY <2>4
  <2>6. IF item[c] = "handed" THEN item'[c] = "handed" ELSE item'[c] \in {"free", "looted", item[c]}
    BY <2>1, <2>5 DEF Results
  <2>7. /\ won(c) <=> item'[c] = "looted"
        /\ given'[c] = IF won(c) THEN given[c] + (IF c \in twice THEN 2 ELSE 1) ELSE given[c]
        /\ extra'[c] = IF won(c) /\ c \in twice THEN extra[c] + 1 ELSE extra[c]
    BY <1>1, <1>4
  <2>. HIDE DEF won
  <2>8. CASE item[c] = "handed"
    BY <2>6, <2>7, <2>8 DEF ItemState
  <2>9. CASE item[c] = "blocked"
    BY <2>3, <2>6, <2>7, <2>9 DEF ItemState
  <2>. QED BY <2>2, <2>8, <2>9
<1>5. \A c \in Corpse : (\A r \in rs : ~(r.valid /\ r.corpse = c)) => ended[c] = {}
  OBVIOUS
<1>. HIDE DEF ended, after, won
<1>6. /\ item' \in [Corpse -> ItemState]
      /\ given' \in [Corpse -> Nat] /\ extra' \in [Corpse -> Nat]
  <2>1. DOMAIN item' = Corpse /\ item' = [c \in Corpse |-> item'[c]]
    BY <1>1
  <2>2. \A c \in Corpse : item'[c] \in ItemState /\ given'[c] \in Nat /\ extra'[c] \in Nat
    BY <1>2, <1>3, <1>4
  <2>. QED BY <1>1, <2>1, <2>2
<1>7. NotGivenYet'
  BY <1>3, <1>4 DEF NotGivenYet
<1>8. GivenOnce'
  BY <1>2, <1>3, <1>4 DEF GivenOnce
<1>. QED BY <1>3, <1>5, <1>6, <1>7, <1>8

\* A vote is counted; the last one ends the roll, and only that one.
LEMMA CountRollVoteInv ==
    ASSUME IInv, NEW p \in Player, NEW i \in DOMAIN rolls, NEW v \in Vote,
           CountRollVote(p, i, v)
    PROVE  IInv'
<1>. DEFINE r == Voted(rolls[i], p, v)
<1>1. GroupTypes /\ LootTypes /\ Totals /\ OneRoll /\ RolledBlocked /\ NotGivenYet /\ GivenOnce
  BY DEF IInv, Items
<1>2. GroupTypes' /\ UNCHANGED <<timer, timerGroup>>
  BY <1>1 DEF CountRollVote, group, GroupTypes, Member
<1>3. rolls \in Seq(RollRecord) /\ rolls[i] \in RollRecord /\ Exact(rolls[i])
  BY <1>1 DEF LootTypes, Totals
<1>4. p \in DOMAIN rolls[i].vote
  BY DEF CountRollVote
<1>5. /\ r \in RollRecord /\ Exact(r)
      /\ r.corpse = rolls[i].corpse /\ r.valid = rolls[i].valid
  BY <1>3, <1>4, VotedExact
<1>6. CASE ~Complete(r)
  <2>1. rolls' = [rolls EXCEPT ![i] = r] /\ UNCHANGED <<item, given, extra>>
    BY <1>6 DEF CountRollVote, gifts
  <2>. HIDE DEF r
  <2>2. /\ rolls' \in Seq(RollRecord) /\ DOMAIN rolls' = DOMAIN rolls
        /\ \A j \in DOMAIN rolls : rolls'[j] = IF j = i THEN r ELSE rolls[j]
    BY <1>3, <1>5, <2>1
  <2>3. LootTypes' /\ Totals'
    BY <1>1, <1>2, <1>5, <2>1, <2>2 DEF LootTypes, Totals
  <2>4. OneRoll' /\ RolledBlocked'
    BY <1>1, <1>5, <2>1, <2>2 DEF OneRoll, RolledBlocked
  <2>5. NotGivenYet' /\ GivenOnce'
    BY <1>1, <2>1 DEF NotGivenYet, GivenOnce
  <2>. QED BY <1>2, <2>3, <2>4, <2>5 DEF IInv, Items
<1>7. CASE Complete(r)
  <2>1. rolls' = RemoveAt(rolls, i) /\ CountTheRolls({r}, {})
    BY <1>7 DEF CountRollVote
  <2>. HIDE DEF r
  <2>2. /\ item' \in [Corpse -> ItemState]
        /\ given' \in [Corpse -> Nat] /\ extra' \in [Corpse -> Nat]
        /\ NotGivenYet' /\ GivenOnce'
        /\ \A c \in Corpse : ~(r.valid /\ r.corpse = c) => item'[c] = item[c]
    BY <1>1, <1>5, <2>1, CountTheRollsItems
  <2>. DEFINE at(j) == IF j < i THEN j ELSE j + 1
  <2>3. /\ rolls' \in Seq(RollRecord) /\ DOMAIN rolls' = 1 .. Len(rolls) - 1
        /\ \A j \in DOMAIN rolls' : rolls'[j] = IF j < i THEN rolls[j] ELSE rolls[j + 1]
    BY <1>3, <2>1, RemoveAtSeq
  <2>4. DOMAIN rolls = 1 .. Len(rolls) /\ Len(rolls) \in Nat
    BY <1>3
  <2>5. \A j \in DOMAIN rolls' : at(j) \in DOMAIN rolls /\ at(j) # i /\ rolls'[j] = rolls[at(j)]
    BY <2>3, <2>4
  <2>6. \A j, k \in DOMAIN rolls' : at(j) = at(k) => j = k
    BY <2>3, <2>4
  <2>. HIDE DEF at
  <2>7. LootTypes' /\ Totals'
    BY <1>1, <1>2, <2>2, <2>3, <2>5 DEF LootTypes, Totals
  <2>8. OneRoll'
    BY <1>1, <2>5, <2>6 DEF OneRoll
  <2>9. RolledBlocked'
    <3>. SUFFICES ASSUME NEW j \in DOMAIN rolls', rolls'[j].valid
                  PROVE  item'[rolls'[j].corpse] \in {"blocked", "handed"}
      BY DEF RolledBlocked
    <3>1. ~(r.valid /\ r.corpse = rolls'[j].corpse)
      BY <1>1, <1>5, <2>5 DEF OneRoll
    <3>2. rolls'[j] \in RollRecord
      BY <2>3
    <3>3. rolls'[j].corpse \in Corpse
      BY <3>2 DEF RollRecord
    <3>. QED BY <1>1, <2>2, <2>5, <3>1, <3>3 DEF RolledBlocked
  <2>. QED BY <1>2, <2>2, <2>7, <2>8, <2>9 DEF IInv, Items
<1>. QED BY <1>6, <1>7

\* All rolls of the group end, counted by one thread or by two.
LEMMA EndRollInv ==
    ASSUME IInv, GroupTypes', NEW twice, EndRoll(twice),
           timer' \in [Corpse -> BOOLEAN], timerGroup' \in [Corpse -> Player \cup {0}]
    PROVE  IInv'
<1>1. GroupTypes /\ LootTypes /\ Totals /\ OneRoll /\ RolledBlocked /\ NotGivenYet /\ GivenOnce
  BY DEF IInv, Items
<1>2. rolls' = <<>> /\ CountTheRolls(Range(rolls), twice)
  BY DEF EndRoll
<1>3. /\ item' \in [Corpse -> ItemState]
      /\ given' \in [Corpse -> Nat] /\ extra' \in [Corpse -> Nat]
      /\ NotGivenYet' /\ GivenOnce'
  BY <1>1, <1>2, CountTheRollsItems DEF Range
<1>4. LootTypes'
  BY <1>2, <1>3 DEF LootTypes
<1>5. Totals' /\ OneRoll' /\ RolledBlocked'
  BY <1>2 DEF Totals, OneRoll, RolledBlocked
<1>. QED BY <1>3, <1>4, <1>5 DEF IInv, Items

\* The timer of a corpse ends all rolls of the group it finds, or none when it lapses; two
\* timers end them together.
LEMMA TimerInv ==
    ASSUME IInv, NEW c \in Corpse,
           TimerExpires(c) \/ TimerLapses(c) \/ \E d \in Corpse : TimersRace(c, d)
    PROVE  IInv'
<1>1. GroupTypes /\ LootTypes
  BY DEF IInv
<1>2. UNCHANGED group
  BY DEF TimerExpires, TimerLapses, TimersRace
<1>3. GroupTypes'
  BY <1>1, <1>2 DEF group, GroupTypes, Member
<1>4. timer' \in [Corpse -> BOOLEAN] /\ timerGroup' \in [Corpse -> Player \cup {0}]
  BY <1>1 DEF TimerExpires, TimerLapses, TimersRace, LootTypes
<1>5. CASE UNCHANGED <<rolls, item, gifts>>
  BY <1>3, <1>4, <1>5, OnlyGroup
<1>6. CASE \E twice : EndRoll(twice)
  BY <1>3, <1>4, <1>6, EndRollInv
<1>. QED BY <1>5, <1>6 DEF TimerExpires, TimerLapses, TimersRace

\* An item that is free is taken: nobody rolls for it.
LEMMA TakeItemInv == ASSUME IInv, NEW c \in Corpse, TakeItem(c) PROVE IInv'
<1>1. GroupTypes /\ LootTypes /\ Totals /\ OneRoll /\ RolledBlocked /\ NotGivenYet /\ GivenOnce
  BY DEF IInv, Items
<1>2. /\ item[c] = "free" /\ item' = [item EXCEPT ![c] = "looted"]
      /\ given' = [given EXCEPT ![c] = @ + 1]
      /\ UNCHANGED <<members, leader, method, online, rolls, timer, timerGroup, extra>>
  BY DEF TakeItem, Lootable, group
<1>3. GroupTypes' /\ Totals' /\ OneRoll'
  BY <1>1, <1>2 DEF GroupTypes, Member, Totals, OneRoll
<1>4. given[c] = 0
  BY <1>1, <1>2 DEF NotGivenYet
<1>5. LootTypes' /\ NotGivenYet' /\ GivenOnce'
  BY <1>1, <1>2, <1>4 DEF LootTypes, ItemState, NotGivenYet, GivenOnce
<1>6. RolledBlocked'
  BY <1>1, <1>2 DEF LootTypes, RolledBlocked
<1>. QED BY <1>3, <1>5, <1>6 DEF IInv, Items

\* The master gives what waits for its roll, or what was looted.
LEMMA MasterGiveInv == ASSUME IInv, NEW c \in Corpse, MasterGive(c) PROVE IInv'
<1>1. GroupTypes /\ LootTypes /\ Totals /\ OneRoll /\ RolledBlocked /\ NotGivenYet /\ GivenOnce
  BY DEF IInv, Items
<1>2. /\ item[c] \in {"blocked", "free", "looted"} /\ item' = [item EXCEPT ![c] = "handed"]
      /\ given' = [given EXCEPT ![c] = @ + 1]
      /\ extra' = [extra EXCEPT ![c] = IF item[c] = "looted" THEN @ + 1 ELSE @]
      /\ UNCHANGED <<members, leader, method, online, rolls, timer, timerGroup>>
  BY DEF MasterGive, group
<1>3. GroupTypes' /\ Totals' /\ OneRoll'
  BY <1>1, <1>2 DEF GroupTypes, Member, Totals, OneRoll
<1>4. item[c] # "looted" => given[c] = 0
  BY <1>1, <1>2 DEF NotGivenYet
<1>5. LootTypes'
  BY <1>1, <1>2 DEF LootTypes, ItemState
<1>6. NotGivenYet' /\ RolledBlocked'
  BY <1>1, <1>2 DEF LootTypes, NotGivenYet, RolledBlocked
<1>7. GivenOnce'
  BY <1>1, <1>2, <1>4 DEF LootTypes, GivenOnce
<1>. QED BY <1>3, <1>5, <1>6, <1>7 DEF IInv, Items

\* The rolls of a corpse that goes are kept without their loot.
LEMMA RemoveCorpseInv == ASSUME IInv, NEW c \in Corpse, RemoveCorpse(c) PROVE IInv'
<1>1. GroupTypes /\ LootTypes /\ Totals /\ OneRoll /\ RolledBlocked /\ NotGivenYet /\ GivenOnce
  BY DEF IInv, Items
<1>2. /\ item' = [item EXCEPT ![c] = "gone"]
      /\ given' = [given EXCEPT ![c] = 0] /\ extra' = [extra EXCEPT ![c] = 0]
      /\ UNCHANGED <<members, leader, method, online, timer, timerGroup>>
  BY DEF RemoveCorpse, group
<1>3. rolls \in Seq(RollRecord) /\ \A i \in DOMAIN rolls : rolls[i] \in RollRecord
  BY <1>1 DEF LootTypes
<1>. DEFINE cut(i) == [rolls[i] EXCEPT !.valid = @ /\ rolls[i].corpse # c]
<1>4. rolls' = [i \in DOMAIN rolls |-> cut(i)]
  BY DEF RemoveCorpse
<1>5. ASSUME NEW i \in DOMAIN rolls
      PROVE  /\ cut(i) \in RollRecord
             /\ cut(i).corpse = rolls[i].corpse
             /\ cut(i).valid = (rolls[i].valid /\ rolls[i].corpse # c)
             /\ Exact(cut(i))
  <2>1. rolls[i] \in RollRecord
    BY <1>3
  <2>2. /\ cut(i).corpse = rolls[i].corpse
        /\ cut(i).valid = (rolls[i].valid /\ rolls[i].corpse # c)
        /\ cut(i).vote = rolls[i].vote /\ cut(i).rolling = rolls[i].rolling
        /\ cut(i).again = rolls[i].again
        /\ cut(i).need = rolls[i].need /\ cut(i).greed = rolls[i].greed
        /\ cut(i).pass = rolls[i].pass
    BY <2>1 DEF RollRecord
  <2>3. cut(i) \in RollRecord
    BY <2>1 DEF RollRecord
  <2>4. Exact(rolls[i])
    BY <1>1 DEF Totals
  <2>. HIDE DEF cut
  <2>. QED BY <2>2, <2>3, <2>4 DEF Exact, Follows, Voters
<1>. HIDE DEF cut
<1>6. /\ rolls' \in Seq(RollRecord) /\ DOMAIN rolls' = DOMAIN rolls
      /\ \A i \in DOMAIN rolls : rolls'[i] = cut(i)
  BY <1>3, <1>4, <1>5
<1>7. GroupTypes' /\ Totals'
  BY <1>1, <1>2, <1>5, <1>6 DEF GroupTypes, Member, Totals
<1>8. LootTypes' /\ NotGivenYet' /\ GivenOnce'
  BY <1>1, <1>2, <1>6 DEF LootTypes, ItemState, NotGivenYet, GivenOnce
<1>9. OneRoll'
  BY <1>1, <1>5, <1>6 DEF OneRoll
<1>10. RolledBlocked'
  <2>. SUFFICES ASSUME NEW i \in DOMAIN rolls, rolls'[i].valid
                PROVE  item'[rolls'[i].corpse] \in {"blocked", "handed"}
    BY <1>6 DEF RolledBlocked
  <2>1. rolls[i].valid /\ rolls[i].corpse # c /\ rolls'[i].corpse = rolls[i].corpse
    BY <1>5, <1>6
  <2>2. rolls[i].corpse \in Corpse
    BY <1>3 DEF RollRecord
  <2>. QED BY <1>1, <1>2, <2>1, <2>2 DEF LootTypes, RolledBlocked
<1>. QED BY <1>7, <1>8, <1>9, <1>10 DEF IInv, Items

\* A corpse that is gone has no valid roll when the creature dies again.
LEMMA RespawnInv == ASSUME IInv, NEW c \in Corpse, Respawn(c) PROVE IInv'
<1>1. GroupTypes /\ LootTypes /\ Totals /\ OneRoll /\ RolledBlocked /\ NotGivenYet /\ GivenOnce
  BY DEF IInv, Items
<1>2. /\ item[c] = "gone" /\ item' = [item EXCEPT ![c] = "unfilled"]
      /\ UNCHANGED <<members, leader, method, online, rolls, timer, timerGroup, given, extra>>
  BY DEF Respawn, group, gifts
<1>3. GroupTypes' /\ Totals' /\ OneRoll'
  BY <1>1, <1>2 DEF GroupTypes, Member, Totals, OneRoll
<1>4. LootTypes' /\ NotGivenYet' /\ GivenOnce'
  BY <1>1, <1>2 DEF LootTypes, ItemState, NotGivenYet, GivenOnce
<1>5. RolledBlocked'
  BY <1>1, <1>2 DEF LootTypes, RolledBlocked
<1>. QED BY <1>3, <1>4, <1>5 DEF IInv, Items

\* The first of the rest is a member that is left.
LEMMA RemovedMember ==
    ASSUME GroupTypes, Len(members) > 2, NEW k \in DOMAIN members,
           members' = RemoveAt(members, k), leader' = NextLeader(members[k], members'),
           UNCHANGED <<method, online>>
    PROVE  GroupTypes'
<1>1. members \in Seq(Player) /\ IsInjective(members) /\ members # <<>>
  BY DEF GroupTypes
<1>2. /\ members' \in Seq(Player) /\ IsInjective(members')
      /\ ToSet(members') = ToSet(members) \ {members[k]}
  BY <1>1, RemoveAtSet
<1>3. Len(members') = Len(members) - 1
  BY <1>1, RemoveAtSeq
<1>4. Len(members) \in Nat /\ members' # <<>> /\ members'[1] \in ToSet(members')
  BY <1>1, <1>2, <1>3 DEF ToSet
<1>5. leader \in ToSet(members)
  BY <1>1 DEF GroupTypes, Member, Range, ToSet
<1>6. leader' \in ToSet(members')
  BY <1>2, <1>4, <1>5 DEF NextLeader
<1>7. Member(leader)'
  BY <1>6 DEF Member, Range, ToSet
<1>. QED BY <1>2, <1>4, <1>7 DEF GroupTypes

\* Who leaves takes the vote along; the last two end the group and its rolls.
LEMMA RemoveMemberInv == ASSUME IInv, NEW p \in Player, RemoveMember(p) PROVE IInv'
<1>1. GroupTypes /\ LootTypes /\ Totals /\ OneRoll /\ RolledBlocked /\ NotGivenYet /\ GivenOnce
  BY DEF IInv, Items
<1>2. UNCHANGED <<method, online, item, timer, timerGroup, given, extra>>
  BY DEF RemoveMember, gifts
<1>3. NotGivenYet' /\ GivenOnce'
  BY <1>1, <1>2 DEF NotGivenYet, GivenOnce
<1>4. CASE Len(members) > 2
  <2>1. PICK k \in DOMAIN members :
          /\ members[k] = p /\ members' = RemoveAt(members, k)
          /\ leader' = NextLeader(p, members')
          /\ rolls' = [i \in DOMAIN rolls |-> Forget(rolls[i], p)]
    BY <1>4 DEF RemoveMember
  <2>2. GroupTypes'
    BY <1>1, <1>2, <1>4, <2>1, RemovedMember
  <2>3. rolls \in Seq(RollRecord)
    BY <1>1 DEF LootTypes
  <2>4. ASSUME NEW i \in DOMAIN rolls
        PROVE  LET s == Forget(rolls[i], p)
               IN  /\ s \in RollRecord /\ Exact(s)
                   /\ s.corpse = rolls[i].corpse /\ s.valid = rolls[i].valid
    BY <1>1, <2>3, ForgetExact DEF Totals
  <2>5. /\ rolls' \in Seq(RollRecord) /\ DOMAIN rolls' = DOMAIN rolls
        /\ \A i \in DOMAIN rolls : /\ Exact(rolls'[i])
                                   /\ rolls'[i].corpse = rolls[i].corpse
                                   /\ rolls'[i].valid = rolls[i].valid
    BY <2>1, <2>3, <2>4
  <2>6. LootTypes' /\ Totals'
    BY <1>1, <1>2, <2>5 DEF LootTypes, Totals
  <2>7. OneRoll' /\ RolledBlocked'
    BY <1>1, <1>2, <2>5 DEF OneRoll, RolledBlocked
  <2>. QED BY <1>3, <2>2, <2>6, <2>7 DEF IInv, Items
<1>5. CASE ~(Len(members) > 2)
  <2>1. members' = <<>> /\ leader' = 0 /\ rolls' = <<>>
    BY <1>5 DEF RemoveMember
  <2>2. GroupTypes' /\ LootTypes'
    BY <1>1, <1>2, <2>1 DEF GroupTypes, LootTypes, IsInjective
  <2>3. Totals' /\ OneRoll' /\ RolledBlocked'
    BY <2>1 DEF Totals, OneRoll, RolledBlocked
  <2>. QED BY <1>3, <2>2, <2>3 DEF IInv, Items
<1>. QED BY <1>4, <1>5

\* A new member has no part in the rolls that run.
LEMMA AddMemberInv == ASSUME IInv, NEW p \in Player, AddMember(p) PROVE IInv'
<1>1. GroupTypes /\ LootTypes
  BY DEF IInv
<1>2. UNCHANGED <<online, rolls, item, timer, timerGroup, gifts>>
  BY DEF AddMember, loot
<1>3. members \in Seq(Player) /\ IsInjective(members) /\ p \notin ToSet(members)
  BY <1>1 DEF AddMember, GroupTypes, Member, Range, ToSet
<1>4. CASE members # <<>> /\ members' = Append(members, p) /\ UNCHANGED <<leader, method>>
  <2>1. /\ members' \in Seq(Player) /\ IsInjective(members') /\ members' # <<>>
        /\ ToSet(members') = ToSet(members) \cup {p}
    BY <1>3, <1>4, AppendNew
  <2>2. Member(leader)'
    BY <1>1, <1>4, <2>1 DEF GroupTypes, Member, Range, ToSet
  <2>3. GroupTypes'
    BY <1>1, <1>2, <1>4, <2>1, <2>2 DEF GroupTypes
  <2>. QED BY <1>1, <1>2, <2>3, OnlyGroup DEF LootTypes
<1>5. ASSUME NEW q \in online \ {p}, members' = <<q, p>>, leader' = q, method' = "group"
      PROVE  IInv'
  <2>1. q \in Player /\ q # p
    BY <1>1 DEF GroupTypes
  <2>2. members' \in Seq(Player) /\ IsInjective(members') /\ members' # <<>> /\ members'[1] = q
    BY <1>5, <2>1 DEF IsInjective
  <2>3. Member(leader)'
    BY <1>5, <2>2 DEF Member, Range
  <2>4. GroupTypes'
    BY <1>1, <1>2, <1>5, <2>2, <2>3 DEF GroupTypes, Method
  <2>. QED BY <1>1, <1>2, <2>4, OnlyGroup DEF LootTypes
<1>. QED BY <1>4, <1>5 DEF AddMember

\* The other steps of the group.
LEMMA GroupInv ==
    ASSUME IInv,
           \/ \E p \in Player : ChangeLeader(p) \/ LoseConnection(p) \/ ComeBack(p)
           \/ SetLootMethod \/ UNCHANGED vars
    PROVE  IInv'
<1>1. GroupTypes /\ LootTypes
  BY DEF IInv
<1>2. UNCHANGED <<rolls, item, timer, timerGroup, gifts, members>>
  BY DEF ChangeLeader, LoseConnection, ComeBack, SetLootMethod, loot, vars, group
<1>3. GroupTypes'
  <2>1. CASE \E p \in Player : ChangeLeader(p)
    BY <1>1, <2>1 DEF ChangeLeader, GroupTypes, Member, Range
  <2>2. CASE SetLootMethod \/ UNCHANGED vars
    BY <1>1, <2>2 DEF SetLootMethod, vars, group, GroupTypes, Member, Method
  <2>3. CASE \E p \in Player : LoseConnection(p) \/ ComeBack(p)
    BY <1>1, <2>3 DEF LoseConnection, ComeBack, GroupTypes, Member
  <2>. QED BY <2>1, <2>2, <2>3
<1>. QED BY <1>1, <1>2, <1>3, OnlyGroup DEF LootTypes

LEMMA NextIInv == ASSUME IInv, [Next]_vars PROVE IInv'
<1>1. CASE \E c \in Corpse : \/ TimerExpires(c) \/ TimerLapses(c) \/ TakeItem(c) \/ MasterGive(c)
                             \/ RemoveCorpse(c) \/ Respawn(c)
                             \/ \E p \in Player : StartRoll(p, c)
                             \/ \E d \in Corpse : TimersRace(c, d)
  BY <1>1, StartRollInv, TimerInv, TakeItemInv, MasterGiveInv, RemoveCorpseInv, RespawnInv
<1>2. CASE \E p \in Player : RemoveMember(p) \/ AddMember(p)
  BY <1>2, RemoveMemberInv, AddMemberInv
<1>3. CASE \E p \in Player : \E i \in DOMAIN rolls, v \in Vote : CountRollVote(p, i, v)
  BY <1>3, CountRollVoteInv
<1>4. CASE \/ \E p \in Player : ChangeLeader(p) \/ LoseConnection(p) \/ ComeBack(p)
           \/ SetLootMethod \/ UNCHANGED vars
  BY <1>4, GroupInv
<1>. QED BY <1>1, <1>2, <1>3, <1>4 DEF Next

LEMMA Invariance == Spec => []IInv
<1>1. IInv /\ [Next]_vars => IInv'
  BY NextIInv
<1>. QED BY <1>1, InitInv, PTL DEF Spec
-----------------------------------------------------------------------------
\* The group has a leader exactly while it has members, and no player twice; rolls are of
\* players for items of corpses.
THEOREM TypeCorrect == Spec => []TypeOK
<1>1. IInv => TypeOK
  <2>. SUFFICES ASSUME IInv PROVE TypeOK
    OBVIOUS
  <2>1. GroupTypes /\ LootTypes
    BY DEF IInv
  <2>2. Range(members) \subseteq Player
    BY <2>1 DEF GroupTypes, Range
  <2>3. ASSUME NEW i \in DOMAIN rolls
        PROVE  /\ rolls[i].corpse \in Corpse /\ {rolls[i].valid, rolls[i].again} \subseteq BOOLEAN
               /\ DOMAIN rolls[i].vote \subseteq Player /\ Range(rolls[i].vote) \subseteq Vote
               /\ {rolls[i].rolling, rolls[i].need, rolls[i].greed, rolls[i].pass} \subseteq Nat
    <3>1. rolls[i] \in RollRecord
      BY <2>1 DEF LootTypes
    <3>2. /\ DOMAIN rolls[i].vote \subseteq Player
          /\ rolls[i].vote \in [DOMAIN rolls[i].vote -> Vote]
      BY <3>1, VotersFinite
    <3>3. Range(rolls[i].vote) \subseteq Vote
      BY <3>2 DEF Range
    <3>. QED BY <3>1, <3>2, <3>3 DEF RollRecord
  <2>. QED BY <2>1, <2>2, <2>3 DEF TypeOK, GroupTypes, LootTypes
<1>. QED BY <1>1, Invariance, PTL

\* The uint8 totals of every roll cover its votes, whatever the members do: none goes below
\* zero when a vote is taken back.  As long as nobody answers twice they are those votes, and
\* CountTheRoll() never speaks of votes that nobody has.
THEOREM TotalsFollowVotes == Spec => []TotalsExact
<1>1. IInv => TotalsExact
  BY DEF IInv, Totals, Exact, TotalsExact
<1>. QED BY <1>1, Invariance, PTL

\* The item of a corpse is given away once: by its roll, by a timer that ends the rolls of
\* other corpses too, by the master, or to who takes it from the corpse after all have
\* passed.  The gifts beyond the first are those of a master who gives what was looted and
\* of two map threads that decide one roll (TimersRace, with MapUpdate.Threads > 1).
THEOREM GivenOnceAlways == Spec => []GivenOnce
<1>1. IInv => GivenOnce
  BY DEF IInv, Items
<1>. QED BY <1>1, Invariance, PTL

\* Two rolls of the group are never for the loot of the same corpse, though a roll
\* outlives its corpse and the creature can die again before it ends.
THEOREM OneRollPerCorpse == Spec => []OneRoll
<1>1. IInv => OneRoll
  BY DEF IInv, Items
<1>. QED BY <1>1, Invariance, PTL
=============================================================================
