------------------------------ MODULE GroupLoot ------------------------------
(***************************************************************************)
(* A group, the corpses it loots, and the rolls for their items.  Handlers *)
(* run on the world thread, one at a time, and corpses are updated between *)
(* them, by the world thread or by MapUpdate.Threads threads.  What is     *)
(* hard is the order of events: members vote, vote again, leave, are made  *)
(* leader, go offline and come back, corpses decay and respawn, the master *)
(* gives items away, and the timer that ends the rolls belongs to the      *)
(* corpse and looks its group up by leader.                                *)
(*                                                                         *)
(* A corpse has one item over the threshold.  Players are numbered as      *)
(* their GUIDs are ordered.  Who is near a corpse and can use its item are *)
(* constants; the random numbers are choices.                              *)
(***************************************************************************)
EXTENDS Integers, FiniteSets, Sequences, SequencesExt

CONSTANTS Player,     \* GUIDs
          Corpse,
          Near,       \* of each corpse: the players near enough, whom its item allows
          Usable,     \* of each corpse: the players who can use the item
          MapOf,      \* of each corpse: its map
          MapThreads, \* MapUpdate.Threads, 1 by default
          MaxEvent    \* bound on departures, changes of leader and of method,
                      \* lost connections and respawns, taken together

ASSUME LootConstants ==
    /\ Player \subseteq Nat \ {0} /\ IsFiniteSet(Player) /\ Cardinality(Player) >= 2
    /\ {Near, Usable} \subseteq [Corpse -> SUBSET Player]
    /\ MapThreads \in Nat \ {0} /\ MaxEvent \in Nat

VARIABLES
    members,    \* m_memberSlots; empty when there is no group
    leader,     \* m_leaderGuid, 0 without a group
    method,     \* m_lootMethod: "group" (group loot), "need" (need before greed) or
                \* "master" (those without rolls)
    online,     \* players in the world
    rolls,      \* RollId
    item,       \* of each corpse: "unfilled", "blocked", "free", "looted", "handed" (by
                \* the master, who leaves a count of 0), "gone"
    timer,      \* the corpse's m_groupLootTimer runs
    timerGroup, \* its lootingGroupLeaderGUID
    given,      \* how often the item of the corpse was given away (history)
    extra,      \* the gifts of an item that was gone: by a master who does not see that it
                \* was looted, by two map threads that decide one roll (history)
    events

group  == <<members, leader, method, online>>
loot   == <<rolls, item, timer, timerGroup>>
gifts  == <<given, extra>>
vars   == <<group, loot, gifts, events>>

ItemState == {"unfilled", "blocked", "free", "looted", "handed", "gone"}
Method == {"group", "need", "master"}
Vote == {"none", "pass", "need", "greed"}

Init ==
    /\ \E S \in SUBSET Player :         \* in some order of joining
          Cardinality(S) >= 2 /\ members = SetToSeq(S)
    /\ leader = members[1]
    /\ method \in Method
    /\ online = Player
    /\ rolls = <<>>
    /\ item = [c \in Corpse |-> "unfilled"]
    /\ timer = [c \in Corpse |-> FALSE]
    /\ timerGroup = [c \in Corpse |-> 0]
    /\ given = [c \in Corpse |-> 0] /\ extra = [c \in Corpse |-> 0]
    /\ events = 0
-----------------------------------------------------------------------------
(* The rolls.                                                              *)

Member(p) == p \in Range(members)

\* A roll of the players in S for the item of c; again: somebody voted twice (history).
Roll(c, S) ==
    [corpse |-> c, valid |-> TRUE, vote |-> [p \in S |-> "none"], again |-> FALSE,
     rolling |-> Cardinality(S), need |-> 0, greed |-> 0, pass |-> 0]

Voters(r, v) == {p \in DOMAIN r.vote : r.vote[p] = v}

\* The vote of p in r; it is counted by its total, again if p has voted before.  A choice
\* that is none of the three changes nothing.
Voted(r, p, v) ==
    [r EXCEPT !.vote[p] = IF v = "none" THEN @ ELSE v,
              !.again = @ \/ (v # "none" /\ r.vote[p] # "none"),
              !.need  = IF v = "need"  THEN @ + 1 ELSE @,
              !.greed = IF v = "greed" THEN @ + 1 ELSE @,
              !.pass  = IF v = "pass"  THEN @ + 1 ELSE @]

Complete(r) == r.pass + r.greed + r.need >= r.rolling

\* Who can win r: the highest number of those who need, else of those who greed; the
\* first of all if the totals speak of votes that nobody has; nobody if all passed.
Winners(r) ==
    LET first == CHOOSE p \in DOMAIN r.vote : \A q \in DOMAIN r.vote : p <= q
        best  == IF r.need > 0 THEN Voters(r, "need") ELSE Voters(r, "greed")
    IN  IF r.need + r.greed = 0 \/ DOMAIN r.vote = {} THEN {}
        ELSE IF best = {} THEN {first} ELSE best

Passed(r) == r.need + r.greed = 0

\* CountTheRoll(): what can become of the item of r.  The winner may have no room in
\* the bags; an offline winner leaves the item as it is; what the master has given is
\* looted, and its count of 0 makes no item.
Results(r) ==
    IF item[r.corpse] = "handed" THEN {"handed"}
    ELSE IF Passed(r) THEN {"free"}
    ELSE (IF Winners(r) \cap online # {} THEN {"looted", "free"} ELSE {})
         \cup (IF Winners(r) \subseteq online /\ Winners(r) # {} THEN {} ELSE {item[r.corpse]})

\* The rolls in rs end one after the other; one whose loot was deleted just goes.  Those
\* for the corpses in twice are ended by two threads.
CountTheRolls(rs, twice) ==
    LET ended == [c \in Corpse |-> {r \in rs : r.corpse = c /\ r.valid}]
        after == [c \in Corpse |-> IF ended[c] = {} THEN {item[c]}
                                   ELSE UNION {Results(r) : r \in ended[c]}]
        won(c) == ended[c] # {} /\ item'[c] = "looted"
    IN  /\ item' \in {f \in [Corpse -> UNION Range(after)] : \A c \in Corpse : f[c] \in after[c]}
        /\ given' = [c \in Corpse |-> IF won(c) THEN given[c] + (IF c \in twice THEN 2 ELSE 1)
                                      ELSE given[c]]
        /\ extra' = [c \in Corpse |-> IF won(c) /\ c \in twice THEN extra[c] + 1 ELSE extra[c]]

\* GroupLoot() or NeedBeforeGreed(), when p is the first to open the corpse.
StartRoll(p, c) ==
    /\ item[c] = "unfilled" /\ p \in online
    /\ IF ~Member(p) \/ method = "master"
       THEN item' = [item EXCEPT ![c] = "free"] /\ UNCHANGED <<rolls, timer, timerGroup>>
       ELSE LET near == Range(members) \cap online \cap Near[c]
                S    == IF method = "need" THEN near \cap Usable[c] ELSE near IN
            IF method = "need" /\ S = {}
            THEN item' = [item EXCEPT ![c] = "free"] /\ UNCHANGED <<rolls, timer, timerGroup>>
            ELSE /\ rolls' = Append(rolls, Roll(c, S))
                 /\ item' = [item EXCEPT ![c] = "blocked"]
                 /\ IF method = "group"
                    THEN /\ timer' = [timer EXCEPT ![c] = TRUE]
                         /\ timerGroup' = [timerGroup EXCEPT ![c] = leader]
                    ELSE UNCHANGED <<timer, timerGroup>>
    /\ UNCHANGED <<group, gifts, events>>

\* HandleLootRoll() and CountRollVote(): nothing tells a second answer of p from the
\* first.  A loot without items is not counted.
CountRollVote(p, i, v) ==
    LET r == Voted(rolls[i], p, v) IN
    /\ p \in online /\ Member(p) /\ p \in DOMAIN rolls[i].vote
    /\ IF ~Complete(r)
       THEN rolls' = [rolls EXCEPT ![i] = r] /\ UNCHANGED <<item, gifts>>
       ELSE /\ rolls' = RemoveAt(rolls, i)
            /\ CountTheRolls({r}, {})
    /\ UNCHANGED <<group, timer, timerGroup, events>>

\* EndRoll(): every roll of the group, whichever corpse it is for.
EndRoll(twice) ==
    /\ CountTheRolls(Range(rolls), twice)
    /\ rolls' = <<>>

\* Mutated: the group is looked up by its first member.
TimerGroupFoundFirst(c) == leader # 0 /\ members[1] = timerGroup[c]

\* GetGroupByLeader() with the leader at the time the roll began.
TimerGroupFound(c) == leader # 0 /\ leader = timerGroup[c]

\* Creature::Update() or GameObject::Update(): the timer of a corpse runs out in this
\* tick: the group it finds ends its rolls.
TimerExpires(c) ==
    /\ timer[c] /\ item[c] # "gone"
    /\ IF TimerGroupFound(c) THEN EndRoll({}) ELSE UNCHANGED <<rolls, item, gifts>>
    /\ timer' = [timer EXCEPT ![c] = FALSE]
    /\ timerGroup' = [timerGroup EXCEPT ![c] = 0]
    /\ UNCHANGED <<group, events>>

\* The tick takes just what was left of the timer: it is 0, which means that none runs.
TimerLapses(c) ==
    /\ timer[c] /\ item[c] # "gone"
    /\ timer' = [timer EXCEPT ![c] = FALSE]
    /\ UNCHANGED <<group, rolls, item, timerGroup, gifts, events>>

\* The timers of two corpses on different maps run out in the same tick, on two threads
\* without a lock between them.  Both walk RollId; a roll is counted by one or by both (or
\* the list breaks and the server with it).
TimersRace(c, d) ==
    /\ MapThreads > 1 /\ MapOf[c] # MapOf[d] /\ rolls # <<>>
    /\ \A b \in {c, d} : timer[b] /\ item[b] # "gone" /\ TimerGroupFound(b)
    /\ \E twice \in SUBSET Corpse : EndRoll(twice)
    /\ timer' = [b \in Corpse |-> timer[b] /\ b \notin {c, d}]
    /\ timerGroup' = [b \in Corpse |-> IF b \in {c, d} THEN 0 ELSE timerGroup[b]]
    /\ UNCHANGED <<group, events>>
-----------------------------------------------------------------------------
(* The corpses.                                                            *)

\* Mutated: an item can be taken although it is being rolled for.
LootableBlocked(c) == item[c] \in {"free", "blocked"}

\* HandleAutostoreLootItemOpcode(): the item is neither looted nor blocked.
Lootable(c) == item[c] = "free"

TakeItem(c) ==
    /\ Lootable(c) /\ online # {}
    /\ item' = [item EXCEPT ![c] = "looted"]
    /\ given' = [given EXCEPT ![c] = @ + 1]
    /\ UNCHANGED <<group, rolls, timer, timerGroup, extra, events>>

\* HandleLootMasterGiveOpcode(): the group's looter gives the item to somebody near.  The
\* handler looks at neither the method, is_blocked nor is_looted; it leaves a count of 0,
\* so a second gift makes no item.
MasterGive(c) ==
    /\ Range(members) \cap online # {} /\ item[c] \in {"blocked", "free", "looted"}
    /\ item' = [item EXCEPT ![c] = "handed"]
    /\ given' = [given EXCEPT ![c] = @ + 1]
    /\ extra' = [extra EXCEPT ![c] = IF item[c] = "looted" THEN @ + 1 ELSE @]
    /\ UNCHANGED <<group, rolls, timer, timerGroup, events>>

\* Loot::clear(): the rolls lose their loot but stay in the list.  The timer keeps
\* its value.
RemoveCorpse(c) ==
    /\ item[c] # "gone" /\ item' = [item EXCEPT ![c] = "gone"]
    /\ rolls' = [i \in DOMAIN rolls |->
                   [rolls[i] EXCEPT !.valid = @ /\ rolls[i].corpse # c]]
    /\ given' = [given EXCEPT ![c] = 0] /\ extra' = [extra EXCEPT ![c] = 0]
    /\ UNCHANGED <<group, timer, timerGroup, events>>

\* The creature comes back and dies again.
Respawn(c) ==
    /\ item[c] = "gone" /\ events < MaxEvent /\ events' = events + 1
    /\ item' = [item EXCEPT ![c] = "unfilled"]
    /\ UNCHANGED <<group, rolls, timer, timerGroup, gifts>>
-----------------------------------------------------------------------------
(* The group.                                                              *)

\* Mutated: the vote goes, its total stays.
ForgetKeepsTotals(r, p) ==
    IF p \notin DOMAIN r.vote THEN r
    ELSE [r EXCEPT !.vote = Restrict(@, DOMAIN @ \ {p}), !.rolling = @ - 1]

\* _removeRolls() for one roll: the vote and what it added.  The vote is erased before
\* CountRollVote() is called, which therefore finds nothing to count: the roll is not
\* decided by a departure.
Forget(r, p) ==
    IF p \notin DOMAIN r.vote THEN r
    ELSE [r EXCEPT !.vote    = Restrict(@, DOMAIN @ \ {p}),
                   !.rolling = @ - 1,
                   !.need    = IF r.vote[p] = "need"  THEN @ - 1 ELSE @,
                   !.greed   = IF r.vote[p] = "greed" THEN @ - 1 ELSE @,
                   !.pass    = IF r.vote[p] = "pass"  THEN @ - 1 ELSE @]

\* Mutated: the leader is replaced only when more than two stay.
NextLeaderOfMany(p, rest) == IF leader = p /\ Len(rest) > 2 THEN rest[1] ELSE leader

\* The first of the rest follows the leader p.
NextLeader(p, rest) == IF leader = p THEN rest[1] ELSE leader

\* RemoveMember(): by leaving, being kicked or logging out; Disband() when no more than
\* two are left before.
RemoveMember(p) ==
    /\ Member(p) /\ events < MaxEvent /\ events' = events + 1
    /\ IF Len(members) > 2
       THEN \E k \in DOMAIN members :
            LET rest == RemoveAt(members, k)
            IN  /\ members[k] = p
                /\ members' = rest
                /\ leader' = NextLeader(p, rest)
                /\ rolls' = [i \in DOMAIN rolls |-> Forget(rolls[i], p)]
       ELSE members' = <<>> /\ leader' = 0 /\ rolls' = <<>>
    /\ UNCHANGED <<method, online, item, timer, timerGroup, gifts>>

\* AddMember(), or Create() of a new group and its first other member.
AddMember(p) ==
    /\ p \in online /\ ~Member(p)
    /\ IF members # <<>>
       THEN members' = Append(members, p) /\ UNCHANGED <<leader, method>>
       ELSE \E q \in online \ {p} :
            members' = <<q, p>> /\ leader' = q /\ method' = "group"
    /\ UNCHANGED <<online, loot, gifts, events>>

ChangeLeader(p) ==
    /\ p \in online /\ Member(p) /\ leader \in online /\ p # leader
    /\ events < MaxEvent /\ events' = events + 1
    /\ leader' = p
    /\ UNCHANGED <<members, method, online, loot, gifts>>

SetLootMethod ==
    /\ leader \in online /\ events < MaxEvent /\ events' = events + 1
    /\ method' \in Method \ {method}
    /\ UNCHANGED <<members, leader, online, loot, gifts>>

\* A lost connection leaves the player in the group.
LoseConnection(p) ==
    /\ p \in online /\ events < MaxEvent /\ events' = events + 1
    /\ online' = online \ {p}
    /\ UNCHANGED <<members, leader, method, loot, gifts>>

ComeBack(p) ==
    /\ p \notin online /\ online' = online \cup {p}
    /\ UNCHANGED <<members, leader, method, loot, gifts, events>>
-----------------------------------------------------------------------------
Next ==
    \/ \E c \in Corpse : \/ TimerExpires(c) \/ TimerLapses(c) \/ TakeItem(c) \/ MasterGive(c)
                         \/ RemoveCorpse(c) \/ Respawn(c)
                         \/ \E p \in Player : StartRoll(p, c)
                         \/ \E d \in Corpse : TimersRace(c, d)
    \/ \E p \in Player : \/ RemoveMember(p) \/ AddMember(p) \/ ChangeLeader(p)
                         \/ LoseConnection(p) \/ ComeBack(p)
                         \/ \E i \in DOMAIN rolls, v \in Vote : CountRollVote(p, i, v)
    \/ SetLootMethod

Spec == Init /\ [][Next]_vars

\* Corpses are updated in every tick of their map, so that a timer runs out or lapses.
FairSpec == Spec /\ \A c \in Corpse : WF_vars(TimerLapses(c) \/ TimerExpires(c))
-----------------------------------------------------------------------------
\* Type invariant.
TypeOK ==
    /\ IsInjective(members) /\ Range(members) \subseteq Player
    /\ IF members = <<>> THEN leader = 0 ELSE Member(leader)
    /\ method \in Method /\ online \subseteq Player
    /\ \A i \in DOMAIN rolls :
         /\ rolls[i].corpse \in Corpse /\ {rolls[i].valid, rolls[i].again} \subseteq BOOLEAN
         /\ DOMAIN rolls[i].vote \subseteq Player /\ Range(rolls[i].vote) \subseteq Vote
         /\ {rolls[i].rolling, rolls[i].need, rolls[i].greed, rolls[i].pass} \subseteq Nat
    /\ item \in [Corpse -> ItemState]
    /\ timer \in [Corpse -> BOOLEAN] /\ timerGroup \in [Corpse -> Player \cup {0}]
    /\ {given, extra} \subseteq [Corpse -> Nat]

\* The total of the votes v is at least their number, and just that if nobody voted again.
Follows(r, total, v) ==
    LET votes == Cardinality(Voters(r, v))
    IN  total >= votes /\ (~r.again => total = votes)

\* The uint8 totals of a roll, which votes add to and departures take from, cover the votes
\* that are in it, whoever has left, come back or been replaced since, so none falls below
\* zero and wraps; and they are those votes, so that the winner is one who voted and not the
\* first of a map that holds no such vote, unless a member answered more than once.
TotalsExact ==
    \A i \in DOMAIN rolls : LET r == rolls[i] IN
        /\ r.rolling = Cardinality(DOMAIN r.vote)
        /\ Follows(r, r.need, "need") /\ Follows(r, r.greed, "greed") /\ Follows(r, r.pass, "pass")

\* An item is given away once, although it can be rolled for, left by all and taken from
\* the corpse, be handed out by the master while it is rolled for, or be rolled for when a
\* timer ends the rolls of other corpses.  Two ways give it again: the master gives what
\* was looted, and two map threads decide the same roll.
GivenOnce == \A c \in Corpse : given[c] <= 1 + extra[c]

Rolled(c) == \E i \in DOMAIN rolls : rolls[i].corpse = c /\ rolls[i].valid

\* The timer reached 0 without ending a roll.
Lapsed(c) == ~timer[c] /\ timerGroup[c] # 0

\* A roll with a timer is decided although members do not answer, leave or are offline,
\* unless the group gets another leader, by which the corpse no longer finds it, or the
\* last tick of the timer is just as long as what was left of it.
RollsDecided ==
    \A c \in Corpse : (Rolled(c) /\ timer[c])
                      ~> (~Rolled(c) \/ Lapsed(c) \/ (timer[c] /\ leader # timerGroup[c]))
=============================================================================
