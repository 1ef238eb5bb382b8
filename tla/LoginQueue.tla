----------------------------- MODULE LoginQueue -----------------------------
(***************************************************************************)
(* What the login queue of World promises, without saying how sessions are *)
(* stored or removed: a first-come first-served queue in front of a world  *)
(* of limited size.  A session that leaves frees its slot for the first    *)
(* session waiting and for no other.  A newcomer waits only behind a full  *)
(* server, and plays at once only when nobody waits, with two exceptions:  *)
(* some newcomers are entitled to (staff, and clients that were connected  *)
(* a moment ago), and nobody is fetched from the queue when the limit is   *)
(* raised, so that until the queue has emptied newcomers may walk past it. *)
(***************************************************************************)
EXTENDS Integers, FiniteSets, SequencesExt

CONSTANTS Session, NoSession

VARIABLES playing,   \* sessions let in
          waiting,   \* sessions in the queue, first come first
          limit,     \* the player limit; zero or less is no limit
          raised,    \* the limit was raised while some waited, and some still wait
          entitled   \* newcomers who need not wait

vars == <<playing, waiting, limit, raised, entitled>>

Full(n) == limit > 0 /\ n >= limit

\* The queue after `gone` left it, if it was there.
Place(s) == CHOOSE i \in DOMAIN waiting : waiting[i] = s
Without(gone) == IF gone \in Range(waiting) THEN RemoveAt(waiting, Place(gone)) ELSE waiting

Init == /\ playing = {} /\ waiting = <<>> /\ limit \in Int
        /\ ~raised /\ entitled \subseteq Session

\* Whether s may play, or has to wait, when it finds n others.
MayPlay(s, n) == s \in entitled \/ (~Full(n) /\ (waiting = <<>> \/ raised))
MustWait(s, n) == s \notin entitled /\ Full(n)

\* A session leaves, the first one waiting takes a free slot, and another one may
\* arrive in its place: a client that connects again.  Whether that one has to wait
\* depends on all who were there, except its old session when it was playing: a
\* client that was waiting counts itself.
Depart(gone, came) ==
    LET stay  == Without(gone)
        left  == playing \ {gone}
        first == IF stay # <<>> /\ ~Full(Cardinality(left)) THEN {Head(stay)} ELSE {}
        rest  == IF first # {} THEN Tail(stay) ELSE stay
        others == Cardinality(left) + Len(waiting)
    IN  \/ /\ \A s \in came : MayPlay(s, others)
           /\ playing' = left \cup first \cup came /\ waiting' = rest
        \/ \E s \in came : /\ MustWait(s, others)
                           /\ playing' = left \cup first
                           /\ waiting' = Append(rest, s)

Leave(gone) == Depart(gone, {})
Replace(gone, s) == Depart(gone, {s})

\* A session arrives: it is let in, or it waits behind a full server.
Arrive(s) ==
    LET others == Cardinality(playing) + Len(waiting)
    IN  \/ MayPlay(s, others) /\ playing' = playing \cup {s} /\ waiting' = waiting
        \/ MustWait(s, others) /\ waiting' = Append(waiting, s) /\ playing' = playing

\* The queue is given up at shutdown: those who waited are no longer waiting.
GiveUp == playing' = playing \cup Range(waiting) /\ waiting' = <<>>

Step ==
    \/ \E s \in Session \ (playing \cup Range(waiting)) : Arrive(s)
    \/ \E gone \in playing \cup Range(waiting) :
          Leave(gone) \/ \E s \in Session \ (playing \cup Range(waiting)) : Replace(gone, s)
    \/ GiveUp

\* Nobody is let in when the limit changes.
SetLimit ==
    /\ limit' \in Int /\ UNCHANGED <<playing, waiting>>
    /\ raised' = (raised \/ (waiting # <<>> /\ limit' # limit /\ (limit' > limit \/ limit' <= 0)))

Next ==
    /\ entitled' \subseteq Session
    /\ \/ Step /\ UNCHANGED limit /\ raised' = (raised /\ waiting' # <<>>)
       \/ SetLimit
       \/ UNCHANGED <<playing, waiting, limit, raised>>

Spec == Init /\ [][Next]_vars
=============================================================================
