------------------------- MODULE WorldSessionsProofs -------------------------
(***************************************************************************)
(* Theorems about WorldSessions, for any accounts, connections, limits and *)
(* bounds.                                                                 *)
(***************************************************************************)
EXTENDS WorldSessions, DataLemmas, TLAPS

-----------------------------------------------------------------------------
(* The lists of World.                                                     *)

\* The strengthening: accounts still to be visited have a session, and the one
\* being updated is not visited again.
TodoConsistent ==
    /\ \A a \in todo : sessions[a] # NoSession
    /\ cur # NoSession => pc \in {"update", "lastupdate"} /\ AccountOf[cur] \notin todo

Inv == TypeOK /\ ListsConsistent /\ TodoConsistent

\* What RemoveQueuedPlayer() does to a queue without duplicates: it loses the
\* session, if it was there, and the one let in, and nothing else.
LEMMA RemovalFromQueue ==
    ASSUME ListTypes, IsInjective(queue), NEW s \in Session
    PROVE  LET left == RemoveQueuedPlayer(s)
           IN  /\ left.rest \in Seq(Session) /\ IsInjective(left.rest)
               /\ left.in \subseteq ToSet(queue) \ {s}
               /\ ToSet(left.rest) = (ToSet(queue) \ {s}) \ left.in
<1>. DEFINE k == Skipped(s)
<1>1. queue \in Seq(Session)
  BY DEF ListTypes
<1>2. k \in Seq(Session) /\ IsInjective(k) /\ ToSet(k) = ToSet(queue) \ {s}
  <2>1. CASE Contains(queue, s)
    <3>1. QueuePos(s) \in DOMAIN queue /\ queue[QueuePos(s)] = s
      BY <1>1, <2>1 DEF QueuePos, Contains
    <3>2. k = RemoveAt(queue, QueuePos(s))
      BY <2>1 DEF Skipped
    <3>. QED BY <1>1, <3>1, <3>2, RemoveAtSet
  <2>2. CASE ~Contains(queue, s)
    <3>1. s \notin ToSet(queue)
      BY <2>2, ContainsIsMember
    <3>2. k = queue
      BY <2>2 DEF Skipped
    <3>. QED BY <1>1, <3>1, <3>2
  <2>. QED BY <2>1, <2>2
<1>. HIDE DEF k
<1>3. CASE FreeSlot(Remaining(s)) /\ k # <<>>
  <2>1. RemoveQueuedPlayer(s) = [rest |-> Tail(k), in |-> {Head(k)}]
    BY <1>3 DEF RemoveQueuedPlayer, k
  <2>2. /\ Tail(k) \in Seq(Session) /\ IsInjective(Tail(k))
        /\ Head(k) \in ToSet(k) /\ ToSet(Tail(k)) = ToSet(k) \ {Head(k)}
    BY <1>2, <1>3, TailSet
  <2>. QED BY <2>1, <2>2, <1>2
<1>4. CASE ~(FreeSlot(Remaining(s)) /\ k # <<>>)
  <2>1. RemoveQueuedPlayer(s) = [rest |-> k, in |-> {}]
    BY <1>4 DEF RemoveQueuedPlayer, k
  <2>. QED BY <2>1, <1>2
<1>. QED BY <1>3, <1>4

\* A mapped session is alive and of the account it is mapped to.
LEMMA MappedLive ==
    ASSUME ListTypes, ListsConsistent, NEW a \in Account, sessions[a] # NoSession
    PROVE  sessions[a] \in Session /\ place[sessions[a]] = "live" /\ AccountOf[sessions[a]] = a
  BY DEF ListTypes, ListsConsistent, MapConsistent

\* Steps that leave the lists alone.
LEMMA ListsUnchanged ==
    ASSUME ListsConsistent, Halting => Halting',
           place' = place, sessions' = sessions, addSessQueue' = addSessQueue,
           queue' = queue, inQueue' = inQueue,
           cur' # NoSession => place[cur'] = "live"
    PROVE  ListsConsistent'
<1>1. Live' = Live
  BY DEF Live
<1>. QED BY <1>1 DEF ListsConsistent, MapConsistent, AddingConsistent, QueueConsistent

\* A closed session is removed.
LEMMA RemoveClosedLists ==
    ASSUME SessionConstants, ListTypes, ObjectTypes, ListsConsistent, NEW s \in Live,
           RemoveClosed(s), addSessQueue' = addSessQueue, cur' = NoSession, pc' = pc
    PROVE  ListsConsistent' /\ ListTypes'
<1>. DEFINE left == RemoveQueuedPlayer(s)
<1>1. s \in Session /\ AccountOf[s] \in Account /\ place[s] = "live" /\ sessions[AccountOf[s]] = s
  BY DEF SessionConstants, Live, ListsConsistent, MapConsistent
<1>2. /\ left.rest \in Seq(Session) /\ IsInjective(left.rest)
      /\ left.in \subseteq ToSet(queue) \ {s}
      /\ ToSet(left.rest) = (ToSet(queue) \ {s}) \ left.in
  BY <1>1, RemovalFromQueue DEF ListsConsistent, QueueConsistent
<1>. HIDE DEF left
<1>3. /\ queue' = left.rest
      /\ inQueue' = [t \in Session |-> inQueue[t] /\ t \notin left.in
                                       /\ (t = s => ~Contains(queue, s))]
      /\ sessions' = [sessions EXCEPT ![AccountOf[s]] = NoSession]
      /\ place' = [place EXCEPT ![s] = "dead"]
  BY DEF RemoveClosed, left
<1>11. raised' \in BOOLEAN
  BY Zenon DEF RemoveClosed
<1>4. \A t \in Session : place'[t] = IF t = s THEN "dead" ELSE place[t]
  BY <1>3 DEF ObjectTypes
<1>5. Live' = Live \ {s}
  BY <1>1, <1>4 DEF Live
<1>6. \A a \in Account : sessions'[a] = IF a = AccountOf[s] THEN NoSession ELSE sessions[a]
  BY <1>3 DEF ListTypes
<1>7. MapConsistent'
  <2>1. ASSUME NEW a \in Account, sessions'[a] # NoSession
        PROVE  place'[sessions'[a]] = "live" /\ AccountOf[sessions'[a]] = a
    <3>1. sessions'[a] = sessions[a] /\ a # AccountOf[s]
      BY <1>6, <2>1
    <3>2. sessions[a] \in Session /\ place[sessions[a]] = "live" /\ AccountOf[sessions[a]] = a
      BY <3>1, <2>1 DEF ListsConsistent, MapConsistent, ListTypes
    <3>. QED BY <3>1, <3>2, <1>4
  <2>2. ASSUME NEW t \in Live' PROVE sessions'[AccountOf[t]] = t
    <3>1. t \in Live /\ t # s /\ AccountOf[t] \in Account
      BY <1>5, <2>2 DEF SessionConstants, Live
    <3>2. sessions[AccountOf[t]] = t
      BY <3>1 DEF ListsConsistent, MapConsistent
    <3>. QED BY <1>1, <1>6, <3>1, <3>2
  <2>. QED BY <2>1, <2>2 DEF MapConsistent
<1>8. AddingConsistent'
  BY <1>1, <1>4 DEF ListsConsistent, AddingConsistent
<1>9. QueueConsistent'
  <2>1. ToSet(queue') = (ToSet(queue) \ {s}) \ left.in
    BY <1>2, <1>3
  <2>2. ToSet(queue') \subseteq Live'
    BY <2>1, <1>5 DEF ListsConsistent, QueueConsistent
  <2>3. \A t \in Session : t \in ToSet(queue') => inQueue'[t]
    BY <2>1, <1>3 DEF ListsConsistent, QueueConsistent
  <2>4. ASSUME ~Halting', NEW t \in Session, inQueue'[t] PROVE t \in ToSet(queue')
    <3>1. ~Halting
      BY <2>4 DEF Halting
    <3>2. t \in ToSet(queue) /\ t \notin left.in /\ (t = s => ~Contains(queue, s))
      BY <3>1, <2>4, <1>3 DEF ListsConsistent, QueueConsistent
    <3>3. t # s
      BY <3>2, ContainsIsMember
    <3>. QED BY <3>2, <3>3, <2>1
  <2>. QED BY <1>2, <1>3, <2>2, <2>3, <2>4 DEF QueueConsistent
<1>10. ListTypes'
  BY <1>1, <1>2, <1>3, <1>11 DEF ListTypes
<1>. QED BY <1>7, <1>8, <1>9, <1>10 DEF ListsConsistent

\* The newcomer at the head of addSessQueue is taken from it.
LEMMA HeadAdded ==
    ASSUME ListTypes, ListsConsistent, addSessQueue # <<>>, addSessQueue' = Tail(addSessQueue)
    PROVE  LET s == Head(addSessQueue)
           IN  /\ s \in Session /\ place[s] = "adding"
               /\ addSessQueue' \in Seq(Session) /\ IsInjective(addSessQueue)'
               /\ \A t \in Session : (place[t] = "adding" /\ t # s) <=> t \in ToSet(addSessQueue')
<1>1. addSessQueue \in Seq(Session) /\ IsInjective(addSessQueue)
  BY DEF ListTypes, ListsConsistent, AddingConsistent
<1>2. Head(addSessQueue) \in Session
  BY <1>1
<1>3. \A t \in Session : place[t] = "adding" <=> t \in ToSet(addSessQueue)
  BY DEF ListsConsistent, AddingConsistent
<1>. QED BY <1>1, <1>2, <1>3, TailSet

\* A refused newcomer leaves no trace in the lists.
LEMMA RefuseSessionLists ==
    ASSUME SessionConstants, ListTypes, ObjectTypes, ListsConsistent, addSessQueue # <<>>,
           addSessQueue' = Tail(addSessQueue), RefuseSession(Head(addSessQueue)),
           raised' \in BOOLEAN, cur' = NoSession, pc' = pc
    PROVE  ListsConsistent' /\ ListTypes'
<1>. DEFINE s == Head(addSessQueue)
<1>1. /\ s \in Session /\ place[s] = "adding"
      /\ addSessQueue' \in Seq(Session) /\ IsInjective(addSessQueue)'
      /\ \A t \in Session : (place[t] = "adding" /\ t # s) <=> t \in ToSet(addSessQueue')
  BY HeadAdded
<1>2. place' = [place EXCEPT ![s] = "dead"] /\ UNCHANGED <<sessions, queue, inQueue>>
  BY DEF RefuseSession
<1>. HIDE DEF s
<1>3. \A t \in Session : place'[t] = IF t = s THEN "dead" ELSE place[t]
  BY <1>2 DEF ObjectTypes
<1>4. Live' = Live
  BY <1>1, <1>3 DEF Live
<1>5. MapConsistent'
  <2>1. \A a \in Account : sessions[a] # NoSession =>
            sessions[a] \in Session /\ place[sessions[a]] = "live" /\ AccountOf[sessions[a]] = a
    BY DEF ListsConsistent, MapConsistent, ListTypes
  <2>2. \A a \in Account : sessions'[a] # NoSession =>
            place'[sessions'[a]] = "live" /\ AccountOf[sessions'[a]] = a
    BY <2>1, <1>1, <1>2, <1>3
  <2>3. \A t \in Live' : sessions'[AccountOf[t]] = t
    BY <1>2, <1>4 DEF ListsConsistent, MapConsistent
  <2>. QED BY <2>2, <2>3 DEF MapConsistent
<1>6. AddingConsistent'
  <2>1. \A t \in Session : place'[t] = "adding" <=> t \in ToSet(addSessQueue')
    BY <1>1, <1>3
  <2>. QED BY <2>1, <1>1 DEF AddingConsistent
<1>7. QueueConsistent'
  <2>1. IsInjective(queue) /\ ToSet(queue) \subseteq Live
        /\ (\A t \in Session : t \in ToSet(queue) => inQueue[t])
        /\ (~Halting => \A t \in Session : inQueue[t] => t \in ToSet(queue))
    BY DEF ListsConsistent, QueueConsistent
  <2>2. Halting' <=> Halting
    BY DEF Halting
  <2>. QED BY <2>1, <2>2, <1>2, <1>4 DEF QueueConsistent
<1>8. ListTypes'
  BY <1>1, <1>2 DEF ListTypes
<1>. QED BY <1>5, <1>6, <1>7, <1>8 DEF ListsConsistent

\* An accepted newcomer replaces the old session of its account in every list.
LEMMA AcceptSessionLists ==
    ASSUME SessionConstants, ListTypes, ObjectTypes, ListsConsistent, addSessQueue # <<>>,
           addSessQueue' = Tail(addSessQueue), AcceptSession(Head(addSessQueue)),
           raised' \in BOOLEAN, cur' = NoSession, pc' = pc
    PROVE  ListsConsistent' /\ ListTypes'
<1>. DEFINE s == Head(addSessQueue)
            a == AccountOf[s]
            gone == {sessions[a]} \ {NoSession}
            left == IF gone = {} THEN [rest |-> queue, in |-> {}]
                    ELSE RemoveQueuedPlayer(sessions[a])
<1>1. /\ s \in Session /\ place[s] = "adding"
      /\ addSessQueue' \in Seq(Session) /\ IsInjective(addSessQueue)'
      /\ \A t \in Session : (place[t] = "adding" /\ t # s) <=> t \in ToSet(addSessQueue')
  BY HeadAdded
<1>2. PICK wait \in BOOLEAN :
         /\ sessions' = [sessions EXCEPT ![a] = s]
         /\ queue' = IF wait THEN Append(left.rest, s) ELSE left.rest
         /\ inQueue' = [t \in Session |-> IF t = s THEN wait
                                          ELSE inQueue[t] /\ t \notin left.in \cup gone]
         /\ place' = [t \in Session |-> IF t = s THEN "live"
                                        ELSE IF t \in gone THEN "dead" ELSE place[t]]
  BY DEF AcceptSession, MustWait
<1>. HIDE DEF s
<1>3. a \in Account /\ s \notin Live /\ s \notin ToSet(queue)
  BY <1>1 DEF SessionConstants, Live, ListsConsistent, QueueConsistent
<1>4. /\ gone \subseteq Live
      /\ \A t \in Live : t \in gone <=> AccountOf[t] = a
  <2>1. sessions[a] # NoSession =>
          sessions[a] \in Session /\ place[sessions[a]] = "live" /\ AccountOf[sessions[a]] = a
    BY <1>3, MappedLive
  <2>2. \A t \in Live : sessions[AccountOf[t]] = t /\ t # NoSession
    BY DEF ListsConsistent, MapConsistent, Live, SessionConstants
  <2>. QED BY <2>1, <2>2 DEF Live
<1>5. /\ left.rest \in Seq(Session) /\ IsInjective(left.rest)
      /\ left.in \subseteq ToSet(queue) \ gone
      /\ ToSet(left.rest) = (ToSet(queue) \ gone) \ left.in
  <2>1. IsInjective(queue) /\ queue \in Seq(Session)
    BY DEF ListsConsistent, QueueConsistent, ListTypes
  <2>2. CASE gone = {}
    BY <2>1, <2>2
  <2>3. CASE gone # {}
    <3>1. sessions[a] \in Session /\ gone = {sessions[a]}
      BY <2>3, <1>3 DEF ListTypes
    <3>2. left = RemoveQueuedPlayer(sessions[a])
      BY <2>3
    <3>. QED BY <2>1, <3>1, <3>2, RemovalFromQueue
  <2>. QED BY <2>2, <2>3
<1>. HIDE DEF a, gone, left
<1>6. Live' = (Live \ gone) \cup {s}
  BY <1>1, <1>2, <1>4 DEF Live
<1>7. /\ queue' \in Seq(Session) /\ IsInjective(queue')
      /\ ToSet(queue') = ((ToSet(queue) \ gone) \ left.in) \cup (IF wait THEN {s} ELSE {})
  BY <1>1, <1>2, <1>3, <1>5, AppendNew
<1>8. MapConsistent'
  <2>1. ASSUME NEW b \in Account, sessions'[b] # NoSession
        PROVE  place'[sessions'[b]] = "live" /\ AccountOf[sessions'[b]] = b
    <3>1. CASE b = a
      BY <3>1, <1>1, <1>2, <1>3 DEF ListTypes, a
    <3>2. CASE b # a
      <4>1. sessions'[b] = sessions[b]
        BY <3>2, <1>2 DEF ListTypes
      <4>2. sessions[b] \in Live /\ AccountOf[sessions[b]] = b
        BY <2>1, <4>1 DEF ListsConsistent, MapConsistent, ListTypes, Live
      <4>3. sessions[b] \in Live'
        BY <4>2, <3>2, <1>4, <1>6
      <4>. QED BY <4>1, <4>2, <4>3 DEF Live
    <3>. QED BY <3>1, <3>2
  <2>2. ASSUME NEW t \in Live' PROVE sessions'[AccountOf[t]] = t
    <3>1. CASE t = s
      BY <3>1, <1>2, <1>3 DEF a, ListTypes
    <3>2. CASE t # s
      <4>1. t \in Live /\ t \notin gone
        BY <3>2, <1>6
      <4>2. AccountOf[t] # a /\ AccountOf[t] \in Account /\ sessions[AccountOf[t]] = t
        BY <4>1, <1>4 DEF ListsConsistent, MapConsistent, SessionConstants, Live
      <4>. QED BY <4>2, <1>2 DEF ListTypes
    <3>. QED BY <3>1, <3>2
  <2>. QED BY <2>1, <2>2 DEF MapConsistent
<1>9. AddingConsistent'
  <2>1. \A t \in gone : place[t] = "live"
    BY <1>4 DEF Live
  <2>2. \A t \in Session : place'[t] = "adding" <=> t \in ToSet(addSessQueue')
    BY <1>1, <1>2, <2>1
  <2>. QED BY <2>2, <1>1 DEF AddingConsistent
<1>10. QueueConsistent'
  <2>1. ToSet(queue') \subseteq Live'
    BY <1>6, <1>7 DEF ListsConsistent, QueueConsistent
  <2>2. ASSUME NEW t \in Session, t \in ToSet(queue') PROVE inQueue'[t]
    BY <2>2, <1>2, <1>3, <1>7 DEF ListsConsistent, QueueConsistent
  <2>3. ASSUME ~Halting', NEW t \in Session, inQueue'[t] PROVE t \in ToSet(queue')
    <3>1. ~Halting
      BY <2>3 DEF Halting
    <3>2. CASE t = s
      BY <3>2, <2>3, <1>2, <1>7
    <3>3. CASE t # s
      <4>1. inQueue[t] /\ t \notin left.in /\ t \notin gone
        BY <3>3, <2>3, <1>2
      <4>2. t \in ToSet(queue)
        BY <3>1, <4>1 DEF ListsConsistent, QueueConsistent
      <4>. QED BY <4>1, <4>2, <1>7
    <3>. QED BY <3>2, <3>3
  <2>. QED BY <2>1, <2>2, <2>3, <1>7 DEF QueueConsistent
<1>11. ListTypes'
  BY <1>1, <1>2, <1>3, <1>7 DEF ListTypes
<1>. QED BY <1>8, <1>9, <1>10, <1>11 DEF ListsConsistent
-----------------------------------------------------------------------------
(* The invariant.                                                          *)

\* It holds when the server starts.
LEMMA InitInv == ASSUME SessionConstants, Init PROVE Inv
<1>1. TypeOK
  <2>1. ObjectTypes
    BY DEF Init, ObjectTypes
  <2>2. ListTypes
    <3>1. raised \in BOOLEAN
      BY Zenon DEF Init
    <3>. QED BY <3>1 DEF Init, ListTypes
  <2>3. LoginTypes
    BY DEF Init, LoginTypes
  <2>4. WorldTypes
    BY DEF Init, WorldTypes, SessionConstants, Never, SEC_PLAYER
  <2>. QED BY <2>1, <2>2, <2>3, <2>4 DEF TypeOK
<1>2. Live = {} /\ ToSet(queue) = {} /\ ToSet(addSessQueue) = {}
  BY DEF Init, Live, ToSet
<1>3. MapConsistent
  BY <1>2 DEF Init, MapConsistent
<1>4. AddingConsistent
  BY <1>2 DEF Init, AddingConsistent, IsInjective
<1>5. QueueConsistent
  BY <1>2 DEF Init, QueueConsistent, IsInjective
<1>. QED BY <1>1, <1>3, <1>4, <1>5 DEF Inv, ListsConsistent, TodoConsistent, Init

\* AddSession_() keeps the lists consistent.
LEMMA AddSession_Lists ==
    ASSUME SessionConstants, Inv, AddSession_ PROVE ListsConsistent' /\ ListTypes'
<1>1. /\ ListTypes /\ ObjectTypes /\ ListsConsistent
      /\ addSessQueue # <<>> /\ addSessQueue' = Tail(addSessQueue) /\ cur' = cur /\ pc' = pc
      /\ \/ RefuseSession(Head(addSessQueue)) \/ AcceptSession(Head(addSessQueue))
  BY DEF Inv, TypeOK, AddSession_, tick
<1>2. cur' = NoSession
  BY <1>1 DEF Inv, TodoConsistent, AddSession_
<1>3. raised' \in BOOLEAN
  <2>1. RefuseSession(Head(addSessQueue)) => raised' \in BOOLEAN
    BY <1>1 DEF RefuseSession, ListTypes
  <2>2. AcceptSession(Head(addSessQueue)) => raised' \in BOOLEAN
    BY Zenon DEF AcceptSession
  <2>. QED BY <1>1, <2>1, <2>2
<1>. QED BY <1>1, <1>2, <1>3, RefuseSessionLists, AcceptSessionLists

\* EndUpdate() keeps the lists consistent.
LEMMA EndUpdateLists ==
    ASSUME SessionConstants, Inv, EndUpdate PROVE ListsConsistent' /\ ListTypes'
<1>1. /\ ListTypes /\ ObjectTypes /\ ListsConsistent
      /\ cur # NoSession /\ cur' = NoSession /\ addSessQueue' = addSessQueue /\ pc' = pc
      /\ cur \in Session
  BY DEF Inv, TypeOK, EndUpdate, WorldTypes
<1>2. cur \in Live
  BY <1>1 DEF ListsConsistent, MapConsistent, Live
<1>3. CASE RemoveClosed(cur)
  BY <1>1, <1>2, <1>3, RemoveClosedLists
<1>4. CASE UNCHANGED <<place, sessions, queue, inQueue, raised>>
  <2>1. ListsConsistent'
    BY <1>1, <1>4, ListsUnchanged DEF Halting
  <2>2. ListTypes'
    BY <1>1, <1>4 DEF ListTypes
  <2>. QED BY <2>1, <2>2
<1>. QED BY <1>3, <1>4 DEF EndUpdate

\* A network thread's steps keep the lists consistent.
LEMMA NetworkLists ==
    ASSUME SessionConstants, Inv, NEW s \in Session, Network(s) PROVE ListsConsistent'
<1>1. /\ TypeOK /\ ListsConsistent
      /\ addSessQueue \in Seq(Session) /\ place \in [Session -> {"none", "built", "adding", "live", "dead"}]
  BY DEF Inv, TypeOK, ListTypes, ObjectTypes
<1>2. cur # NoSession => place[cur] = "live"
  BY <1>1 DEF ListsConsistent, MapConsistent
<1>3. CASE HandleAuthSession(s)
  <2>1. /\ place[s] = "none" /\ UNCHANGED <<sessions, addSessQueue, queue, inQueue, cur, pc>>
        /\ place' = place \/ place' = [place EXCEPT ![s] = "built"]
    BY <1>3 DEF HandleAuthSession, objects, lists, tick
  <2>2. CASE place' = place
    BY <1>1, <1>2, <2>1, <2>2, ListsUnchanged DEF Halting
  <2>3. CASE place' = [place EXCEPT ![s] = "built"]
    <3>1. \A t \in Session : place'[t] = place[t] \/ (place[t] = "none" /\ place'[t] = "built")
      BY <1>1, <2>1, <2>3
    <3>2. \A t \in Session : /\ place'[t] = "live" <=> place[t] = "live"
                             /\ place'[t] = "adding" <=> place[t] = "adding"
      BY <3>1
    <3>3. Live' = Live
      BY <3>2 DEF Live
    <3>4. MapConsistent'
      <4>1. \A b \in Account : sessions[b] # NoSession =>
              sessions[b] \in Session /\ place[sessions[b]] = "live" /\ AccountOf[sessions[b]] = b
        BY <1>1, MappedLive DEF TypeOK
      <4>2. cur # NoSession => cur \in Session
        BY <1>1 DEF TypeOK, WorldTypes
      <4>3. \A t \in Live : sessions[AccountOf[t]] = t
        BY <1>1 DEF ListsConsistent, MapConsistent
      <4>. QED BY <4>1, <4>2, <4>3, <3>2, <3>3, <1>2, <2>1 DEF MapConsistent
    <3>5. AddingConsistent'
      BY <1>1, <2>1, <3>2 DEF ListsConsistent, AddingConsistent
    <3>6. QueueConsistent'
      BY <1>1, <2>1, <3>3 DEF ListsConsistent, QueueConsistent, Halting
    <3>. QED BY <3>4, <3>5, <3>6 DEF ListsConsistent
  <2>. QED BY <2>1, <2>2, <2>3
<1>4. CASE AddSession(s)
  <2>1. /\ place[s] = "built" /\ place' = [place EXCEPT ![s] = "adding"]
        /\ addSessQueue' = Append(addSessQueue, s)
        /\ UNCHANGED <<sessions, queue, inQueue, cur, pc>>
    BY <1>4 DEF AddSession, tick
  <2>2. \A t \in Session : place'[t] = IF t = s THEN "adding" ELSE place[t]
    BY <1>1, <2>1
  <2>3. Live' = Live
    BY <2>1, <2>2 DEF Live
  <2>4. MapConsistent'
    <3>1. \A b \in Account : sessions[b] # NoSession =>
            sessions[b] \in Session /\ place[sessions[b]] = "live" /\ AccountOf[sessions[b]] = b
      BY <1>1, MappedLive DEF TypeOK
    <3>2. cur # NoSession => cur \in Session
      BY <1>1 DEF TypeOK, WorldTypes
    <3>3. \A t \in Live : sessions[AccountOf[t]] = t
      BY <1>1 DEF ListsConsistent, MapConsistent
    <3>. QED BY <3>1, <3>2, <3>3, <1>2, <2>1, <2>2, <2>3 DEF MapConsistent
  <2>5. AddingConsistent'
    <3>1. \A t \in Session : place[t] = "adding" <=> t \in ToSet(addSessQueue)
      BY <1>1 DEF ListsConsistent, AddingConsistent
    <3>2. IsInjective(addSessQueue)
      BY <1>1 DEF ListsConsistent, AddingConsistent
    <3>3. s \notin ToSet(addSessQueue)
      BY <2>1, <3>1
    <3>4. IsInjective(addSessQueue') /\ ToSet(addSessQueue') = ToSet(addSessQueue) \cup {s}
      BY <1>1, <2>1, <3>2, <3>3, AppendNew
    <3>5. \A t \in Session : place'[t] = "adding" <=> t \in ToSet(addSessQueue')
      BY <2>1, <2>2, <3>1, <3>4
    <3>. QED BY <3>4, <3>5 DEF AddingConsistent
  <2>6. QueueConsistent'
    BY <1>1, <2>1, <2>3 DEF ListsConsistent, QueueConsistent, Halting
  <2>. QED BY <2>4, <2>5, <2>6 DEF ListsConsistent
<1>5. CASE Disconnect(s)
  <2>1. UNCHANGED <<place, sessions, addSessQueue, queue, inQueue, cur, pc>>
    BY <1>5 DEF Disconnect, lists, tick
  <2>. QED BY <1>1, <1>2, <2>1, ListsUnchanged DEF Halting
<1>6. ASSUME NEW p \in Packets, Receive(s, p) PROVE ListsConsistent'
  <2>1. UNCHANGED <<place, sessions, addSessQueue, queue, inQueue, cur, pc>>
    BY <1>6 DEF Receive, lists, tick
  <2>. QED BY <1>1, <1>2, <2>1, ListsUnchanged DEF Halting
<1>. QED BY <1>3, <1>4, <1>5, <1>6 DEF Network

\* World::KickAll() drops the queue.
LEMMA KickAllLists == ASSUME SessionConstants, Inv, KickAll PROVE ListsConsistent'
<1>1. /\ UNCHANGED <<place, sessions, addSessQueue, cur>> /\ queue' = <<>>
      /\ pc' = "lastadd"
  BY DEF KickAll, AfterKickAll
<1>2. Live' = Live /\ ToSet(queue') = {} /\ IsInjective(queue')
  BY <1>1 DEF Live, ToSet, IsInjective
<1>3. QueueConsistent'
  BY <1>1, <1>2 DEF QueueConsistent, Halting
<1>. QED BY <1>1, <1>2, <1>3 DEF Inv, ListsConsistent, MapConsistent, AddingConsistent

\* Every step keeps the lists consistent.
LEMMA ListsStep == ASSUME SessionConstants, Inv, [Next]_vars PROVE ListsConsistent'
<1>1. /\ TypeOK /\ ListsConsistent /\ TodoConsistent
      /\ cur # NoSession => place[cur] = "live"
  BY DEF Inv, ListsConsistent, MapConsistent
<1>2. ASSUME UNCHANGED <<place, sessions, addSessQueue, queue, inQueue, cur>>,
             Halting => Halting' PROVE ListsConsistent'
  BY <1>1, <1>2, ListsUnchanged
<1>3. CASE \E s \in Session : Network(s)
  BY <1>3, NetworkLists
<1>4. CASE AddSession_
  BY <1>4, AddSession_Lists
<1>5. CASE StartUpdates
  BY <1>2, <1>5 DEF StartUpdates, objects, lists, Halting
<1>6. CASE BeginUpdate
  <2>1. PICK a \in todo : cur' = sessions[a]
    BY <1>6 DEF BeginUpdate
  <2>2. a \in Account /\ sessions[a] # NoSession
    BY <1>1, <2>1 DEF TypeOK, WorldTypes, TodoConsistent
  <2>3. place[cur'] = "live"
    BY <1>1, <2>1, <2>2, MappedLive DEF TypeOK
  <2>4. UNCHANGED <<place, sessions, addSessQueue, queue, inQueue, pc>>
    BY <1>6 DEF BeginUpdate, lists
  <2>. QED BY <1>1, <2>3, <2>4, ListsUnchanged DEF Halting
<1>7. CASE HandlePacket
  BY <1>2, <1>7 DEF HandlePacket, lists, tick, Halting
<1>8. CASE EndUpdate
  BY <1>8, EndUpdateLists
<1>9. CASE EndUpdates
  BY <1>2, <1>9 DEF EndUpdates, objects, lists, Halting
<1>10. CASE HandlePlayerLoginCallback
  BY <1>2, <1>10 DEF HandlePlayerLoginCallback, lists, tick, Halting
<1>11. CASE EndResults
  BY <1>2, <1>11 DEF EndResults, objects, lists, Halting
<1>12. CASE ProcessCliCommands
  BY <1>2, <1>12 DEF ProcessCliCommands, lists, Halting
<1>13. CASE NextTick
  BY <1>2, <1>13 DEF NextTick, objects, lists, Halting
<1>14. CASE KickAll
  BY <1>14, KickAllLists
<1>15. CASE AnswerLogin
  BY <1>2, <1>15 DEF AnswerLogin, objects, lists, tick, Halting
<1>16. CASE Tick
  BY <1>2, <1>16 DEF Tick, objects, lists, tick, Halting
<1>17. CASE StopNow
  BY <1>2, <1>17 DEF StopNow, objects, lists, Halting
<1>18. CASE UNCHANGED vars
  BY <1>2, <1>18 DEF vars, objects, lists, tick, Halting
<1>. QED BY <1>3, <1>4, <1>5, <1>6, <1>7, <1>8, <1>9, <1>10, <1>11, <1>12, <1>13, <1>14, <1>15,
            <1>16, <1>17, <1>18 DEF Next, World, Terminated

\* The accounts still to be visited keep their sessions.
LEMMA TodoStep == ASSUME SessionConstants, Inv, [Next]_vars PROVE TodoConsistent'
<1>1. TypeOK /\ ListsConsistent /\ TodoConsistent /\ ListTypes
  BY DEF Inv, TypeOK
<1>2. CASE \E s \in Session : Network(s)
  <2>1. PICK s \in Session : Network(s)
    BY <1>2
  <2>2. UNCHANGED <<todo, sessions, cur, pc>>
    BY <2>1 DEF Network, HandleAuthSession, AddSession, Receive, Disconnect, lists, tick
  <2>. QED BY <1>1, <2>2 DEF TodoConsistent
<1>3. CASE AddSession_
  <2>1. /\ UNCHANGED <<todo, cur, pc>> /\ cur = NoSession /\ addSessQueue # <<>>
    BY <1>1, <1>3 DEF AddSession_, tick, TodoConsistent
  <2>2. Head(addSessQueue) \in Session
    BY <1>1, <2>1 DEF ListTypes
  <2>3. CASE RefuseSession(Head(addSessQueue))
    BY <1>1, <2>1, <2>3 DEF RefuseSession, TodoConsistent
  <2>4. CASE AcceptSession(Head(addSessQueue))
    <3>1. sessions' = [sessions EXCEPT ![AccountOf[Head(addSessQueue)]] = Head(addSessQueue)]
      BY <2>4 DEF AcceptSession
    <3>2. Head(addSessQueue) # NoSession /\ todo \subseteq Account
      BY <1>1, <2>2 DEF SessionConstants, TypeOK, WorldTypes
    <3>3. \A a \in todo : sessions'[a] # NoSession
      BY <1>1, <3>1, <3>2 DEF TodoConsistent, ListTypes
    <3>. QED BY <2>1, <3>3 DEF TodoConsistent
  <2>. QED BY <1>3, <2>3, <2>4 DEF AddSession_
<1>4. CASE StartUpdates
  <2>1. /\ todo' = {a \in Account : sessions[a] # NoSession} /\ UNCHANGED <<sessions, cur>>
        /\ cur = NoSession
    BY <1>1, <1>4 DEF StartUpdates, lists, TodoConsistent
  <2>. QED BY <2>1 DEF TodoConsistent
<1>5. CASE BeginUpdate
  <2>1. PICK a \in todo : todo' = todo \ {a} /\ cur' = sessions[a]
    BY <1>5 DEF BeginUpdate
  <2>2. /\ UNCHANGED <<sessions, pc>> /\ pc \in {"update", "lastupdate"}
    BY <1>5 DEF BeginUpdate, lists
  <2>3. AccountOf[cur'] = a
    BY <1>1, <2>1, MappedLive DEF TypeOK, WorldTypes, TodoConsistent
  <2>. QED BY <1>1, <2>1, <2>2, <2>3 DEF TodoConsistent
<1>6. CASE EndUpdate
  <2>1. /\ cur' = NoSession /\ UNCHANGED <<todo, pc>> /\ AccountOf[cur] \notin todo
        /\ \/ sessions' = [sessions EXCEPT ![AccountOf[cur]] = NoSession]
           \/ sessions' = sessions
    BY <1>1, <1>6 DEF EndUpdate, RemoveClosed, TodoConsistent
  <2>2. todo \subseteq Account
    BY <1>1 DEF TypeOK, WorldTypes
  <2>3. \A a \in todo : sessions'[a] = sessions[a]
    BY <1>1, <2>1, <2>2 DEF ListTypes
  <2>. QED BY <1>1, <2>1, <2>3 DEF TodoConsistent
<1>7. ASSUME UNCHANGED <<todo, sessions, cur>>, cur = NoSession \/ pc' = pc PROVE TodoConsistent'
  BY <1>1, <1>7 DEF TodoConsistent
<1>8. CASE HandlePacket
  BY <1>7, <1>8 DEF HandlePacket, lists, tick
<1>9. CASE EndUpdates
  BY <1>7, <1>9 DEF EndUpdates, lists
<1>10. CASE HandlePlayerLoginCallback
  BY <1>7, <1>10 DEF HandlePlayerLoginCallback, lists, tick
<1>11. CASE EndResults \/ ProcessCliCommands \/ NextTick \/ KickAll
  <2>1. UNCHANGED <<todo, sessions, cur>> /\ pc \notin {"update", "lastupdate"}
    BY <1>11 DEF EndResults, ProcessCliCommands, NextTick, KickAll, lists
  <2>. QED BY <1>1, <1>7, <2>1 DEF TodoConsistent
<1>12. CASE AnswerLogin \/ Tick \/ StopNow \/ UNCHANGED vars
  BY <1>7, <1>12 DEF AnswerLogin, Tick, StopNow, vars, lists, tick
<1>. QED BY <1>2, <1>3, <1>4, <1>5, <1>6, <1>8, <1>9, <1>10, <1>11, <1>12
         DEF Next, World, Terminated
-----------------------------------------------------------------------------
(* Types.                                                                  *)

\* The destructors keep the types.
LEMMA DestructTypes ==
    ASSUME SessionConstants, ObjectTypes, LoginTypes, NEW gone, Destruct(gone)
    PROVE  /\ closed' \in [Session -> BOOLEAN] /\ recv' \in [Session -> Seq(Packets)]
           /\ player' \in [Session -> BOOLEAN] /\ logout' \in [Session -> BOOLEAN]
           /\ activeRealm' \in [Account -> BOOLEAN] /\ online' \in [Account -> BOOLEAN]
<1>1. /\ closed' = [s \in Session |-> closed[s] \/ s \in gone]
      /\ player' = [s \in Session |-> player[s] /\ s \notin gone]
      /\ logout' = [s \in Session |-> logout[s] /\ s \notin gone]
      /\ activeRealm' = [a \in Account |-> activeRealm[a] /\ \A s \in gone : AccountOf[s] # a]
      /\ online' = [a \in Account |-> online[a] /\ \A s \in gone : AccountOf[s] # a]
      /\ recv' = [s \in Session |-> IF s \in gone THEN <<>> ELSE recv[s]]
  BY DEF Destruct
<1>2. recv' \in [Session -> Seq(Packets)]
  BY <1>1 DEF ObjectTypes
<1>. QED BY <1>1, <1>2 DEF LoginTypes, ObjectTypes

\* Sessions as objects.
LEMMA ObjectStep == ASSUME SessionConstants, Inv, [Next]_vars PROVE ObjectTypes'
<1>1. /\ ObjectTypes /\ ListTypes /\ LoginTypes /\ WorldTypes
      /\ cur # NoSession => cur \in Session
  BY DEF Inv, TypeOK, WorldTypes
<1>. DEFINE Places == {"none", "built", "adding", "live", "dead"}
<1>2. /\ place \in [Session -> Places] /\ closed \in [Session -> BOOLEAN]
      /\ recv \in [Session -> Seq(Packets)] /\ sent \in [Session -> Nat]
      /\ idle \in [Session -> Nat] /\ TimeOut \in Nat /\ diff \in Nat
  BY <1>1 DEF ObjectTypes, SessionConstants, WorldTypes
<1>3. ASSUME NEW s \in Session, Network(s) PROVE ObjectTypes'
  <2>1. CASE HandleAuthSession(s)
    BY <1>2, <2>1 DEF HandleAuthSession, objects, ObjectTypes
  <2>2. CASE AddSession(s)
    BY <1>2, <2>2 DEF AddSession, ObjectTypes
  <2>3. CASE Disconnect(s)
    BY <1>2, <2>3 DEF Disconnect, ObjectTypes
  <2>4. ASSUME NEW p \in Packets, Receive(s, p) PROVE ObjectTypes'
    <3>1. Append(recv[s], p) \in Seq(Packets)
      BY <1>2
    <3>. QED BY <1>2, <2>4, <3>1 DEF Receive, ObjectTypes
  <2>. QED BY <1>3, <2>1, <2>2, <2>3, <2>4 DEF Network
<1>4. CASE AddSession_
  <2>1. PICK gone : Destruct(gone)
    BY <1>4 DEF AddSession_, RefuseSession, AcceptSession
  <2>2. closed' \in [Session -> BOOLEAN] /\ recv' \in [Session -> Seq(Packets)]
    BY <1>1, <2>1, DestructTypes
  <2>3. place' \in [Session -> Places]
    <3>1. CASE RefuseSession(Head(addSessQueue))
      BY <1>2, <3>1 DEF RefuseSession
    <3>2. CASE AcceptSession(Head(addSessQueue))
      BY <1>2, <3>2 DEF AcceptSession
    <3>. QED BY <1>4, <3>1, <3>2 DEF AddSession_
  <2>. QED BY <1>2, <1>4, <2>2, <2>3 DEF AddSession_, ObjectTypes
<1>5. CASE BeginUpdate
  <2>1. \A n \in Nat : Elapse(n) \in Nat
    BY <1>2 DEF Elapse
  <2>2. idle' \in [Session -> Nat]
    BY <1>2, <1>5, <2>1 DEF BeginUpdate
  <2>3. closed' \in [Session -> BOOLEAN]
    <3>1. PICK b \in BOOLEAN : closed' = [closed EXCEPT ![cur'] = closed[cur'] \/ b]
      BY <1>5 DEF BeginUpdate
    <3>. QED BY <1>2, <3>1
  <2>. QED BY <1>2, <1>5, <2>2, <2>3 DEF BeginUpdate, ObjectTypes
<1>6. CASE HandlePacket
  <2>1. cur \in Session /\ recv[cur] # <<>>
    BY <1>1, <1>6 DEF HandlePacket
  <2>2. recv' \in [Session -> Seq(Packets)]
    <3>1. Tail(recv[cur]) \in Seq(Packets)
      BY <1>2, <2>1
    <3>. QED BY <1>2, <1>6, <3>1 DEF HandlePacket
  <2>3. closed' \in [Session -> BOOLEAN]
    <3>0. Head(recv[cur]) \in Packets
      BY <1>2, <2>1
    <3>1. Head(recv[cur]) \in {"login", "logout", "cancel"}
      BY <3>0 DEF SessionConstants
    <3>2. \/ HandlePlayerLoginOpcode(cur) \/ HandleLogoutRequestOpcode(cur)
          \/ HandleLogoutCancelOpcode(cur)
      BY <1>6, <3>1 DEF HandlePacket
    <3>. QED BY <1>2, <3>2 DEF HandlePlayerLoginOpcode, HandleLogoutRequestOpcode,
                               HandleLogoutCancelOpcode
  <2>. QED BY <1>2, <1>6, <2>2, <2>3 DEF HandlePacket, ObjectTypes
<1>7. CASE EndUpdate
  <2>1. CASE RemoveClosed(cur)
    <3>1. closed' \in [Session -> BOOLEAN] /\ recv' \in [Session -> Seq(Packets)]
      BY <1>1, <2>1, DestructTypes DEF RemoveClosed
    <3>2. place' \in [Session -> Places]
      BY <1>2, <2>1 DEF RemoveClosed
    <3>. QED BY <1>2, <1>7, <3>1, <3>2 DEF EndUpdate, ObjectTypes
  <2>2. CASE UNCHANGED <<place, closed, recv>>
    BY <1>2, <1>7, <2>2 DEF EndUpdate, ObjectTypes
  <2>. QED BY <1>7, <2>1, <2>2 DEF EndUpdate
<1>8. CASE HandlePlayerLoginCallback
  <2>1. closed' = closed \/ \E s : closed' = [closed EXCEPT ![s] = TRUE]
    BY <1>8 DEF HandlePlayerLoginCallback, HandlePlayerLogin
  <2>2. closed' \in [Session -> BOOLEAN]
    BY <1>2, <2>1
  <2>. QED BY <1>2, <1>8, <2>2 DEF HandlePlayerLoginCallback, ObjectTypes
<1>9. CASE ProcessCliCommands
  <2>1. closed' \in [Session -> BOOLEAN]
    BY <1>2, <1>9 DEF ProcessCliCommands, HandleServerPLimitCommand, KickPlayer
  <2>. QED BY <1>2, <1>9, <2>1 DEF ProcessCliCommands, ObjectTypes
<1>10. CASE KickAll
  BY <1>2, <1>10 DEF KickAll, ObjectTypes
<1>11. CASE UNCHANGED objects
  BY <1>2, <1>11 DEF objects, ObjectTypes
<1>12. CASE StartUpdates \/ EndUpdates \/ EndResults \/ NextTick \/ AnswerLogin \/ Tick \/ StopNow
            \/ UNCHANGED vars
  BY <1>11, <1>12 DEF StartUpdates, EndUpdates, EndResults, NextTick, AnswerLogin, Tick,
                      StopNow, vars
<1>. QED BY <1>3, <1>4, <1>5, <1>6, <1>7, <1>8, <1>9, <1>10, <1>12 DEF Next, World, Terminated

\* The lists.
LEMMA ListTypesStep == ASSUME SessionConstants, Inv, [Next]_vars PROVE ListTypes'
<1>1. ListTypes
  BY DEF Inv, TypeOK
<1>2. CASE UNCHANGED lists
  BY <1>1, <1>2 DEF lists, ListTypes
<1>3. ASSUME NEW s \in Session, AddSession(s) PROVE ListTypes'
  BY <1>1, <1>3 DEF AddSession, ListTypes
<1>4. CASE AddSession_
  BY <1>4, AddSession_Lists
<1>5. CASE EndUpdate
  BY <1>5, EndUpdateLists
<1>6. CASE KickAll
  <2>1. raised' \in BOOLEAN
    BY <1>6, Zenon DEF KickAll
  <2>. QED BY <1>1, <1>6, <2>1 DEF KickAll, ListTypes
<1>7. ASSUME NEW s \in Session, Network(s) PROVE ListTypes'
  BY <1>2, <1>3, <1>7 DEF Network, HandleAuthSession, Receive, Disconnect
<1>9. CASE ProcessCliCommands
  <2>1. raised' \in BOOLEAN
    <3>1. raised \in BOOLEAN
      BY <1>1 DEF ListTypes
    <3>2. HandleServerPLimitCommand => raised' \in BOOLEAN
      BY Zenon DEF HandleServerPLimitCommand
    <3>3. raised' = raised => raised' \in BOOLEAN
      BY <3>1
    <3>. QED BY <1>9, <3>2, <3>3 DEF ProcessCliCommands, KickPlayer
  <2>. QED BY <1>1, <1>9, <2>1 DEF ProcessCliCommands, ListTypes
<1>8. CASE World
  BY <1>2, <1>4, <1>5, <1>6, <1>8, <1>9 DEF World, StartUpdates, BeginUpdate, HandlePacket, EndUpdates,
         HandlePlayerLoginCallback, EndResults, NextTick
<1>. QED BY <1>2, <1>7, <1>8 DEF Next, Terminated, AnswerLogin, Tick, StopNow, vars

\* Logins and the two databases.
LEMMA LoginStep == ASSUME SessionConstants, Inv, [Next]_vars PROVE LoginTypes'
<1>1. /\ ObjectTypes /\ LoginTypes /\ ListTypes /\ TodoConsistent
      /\ cur # NoSession => cur \in Session
  BY DEF Inv, TypeOK, WorldTypes
<1>2. /\ loading \in [Session -> BOOLEAN] /\ player \in [Session -> BOOLEAN]
      /\ logout \in [Session -> BOOLEAN] /\ strays \in [Account -> Nat]
      /\ holders \in Seq(Holder) /\ results \in Seq(Holder)
      /\ activeRealm \in [Account -> BOOLEAN] /\ online \in [Account -> BOOLEAN]
  BY <1>1 DEF LoginTypes
<1>3. CASE UNCHANGED <<logins, columns>>
  BY <1>2, <1>3 DEF logins, columns, LoginTypes
<1>4. ASSUME NEW s \in Session, Network(s) PROVE LoginTypes'
  <2>1. CASE HandleAuthSession(s)
    <3>1. activeRealm' \in [Account -> BOOLEAN]
      BY <1>2, <2>1 DEF HandleAuthSession
    <3>. QED BY <1>2, <2>1, <3>1 DEF HandleAuthSession, logins, LoginTypes
  <2>. QED BY <1>3, <1>4, <2>1 DEF Network, AddSession, Receive, Disconnect
<1>5. CASE AddSession_
  <2>1. PICK gone : Destruct(gone)
    BY <1>5 DEF AddSession_, RefuseSession, AcceptSession
  <2>. QED BY <1>1, <1>2, <1>5, <2>1, DestructTypes DEF AddSession_, LoginTypes
<1>6. CASE HandlePacket
  <2>1. cur \in Session /\ AccountOf[cur] \in Account
    BY <1>1, <1>6 DEF HandlePacket, SessionConstants
  <2>2. UNCHANGED <<strays, results, activeRealm>>
    BY <1>6 DEF HandlePacket
  <2>3. CASE HandlePlayerLoginOpcode(cur)
    <3>1. holders' \in Seq(Holder)
      <4>1. \A b \in BOOLEAN : [account |-> AccountOf[cur], loads |-> b] \in Holder
        BY <2>1 DEF Holder
      <4>2. \A h \in Holder : Append(holders, h) \in Seq(Holder)
        BY <1>2
      <4>3. \/ holders' = holders
            \/ \E b \in BOOLEAN :
                  holders' = Append(holders, [account |-> AccountOf[cur], loads |-> b])
        BY <2>3 DEF HandlePlayerLoginOpcode
      <4>4. ASSUME NEW b \in BOOLEAN,
                   holders' = Append(holders, [account |-> AccountOf[cur], loads |-> b])
            PROVE  holders' \in Seq(Holder)
        BY <4>1, <4>2, <4>4
      <4>. QED BY <1>2, <4>3, <4>4
    <3>2. loading' \in [Session -> BOOLEAN]
      BY <1>2, <2>3 DEF HandlePlayerLoginOpcode
    <3>. QED BY <1>2, <2>2, <2>3, <3>1, <3>2 DEF HandlePlayerLoginOpcode, LoginTypes
  <2>4. CASE HandleLogoutRequestOpcode(cur)
    <3>1. /\ player' \in [Session -> BOOLEAN] /\ logout' \in [Session -> BOOLEAN]
          /\ online' \in [Account -> BOOLEAN]
      BY <1>2, <2>4 DEF HandleLogoutRequestOpcode, LogoutPlayer
    <3>. QED BY <1>2, <2>2, <2>4, <3>1 DEF HandleLogoutRequestOpcode, LoginTypes
  <2>5. CASE HandleLogoutCancelOpcode(cur)
    <3>1. logout' \in [Session -> BOOLEAN]
      BY <1>2, <2>5 DEF HandleLogoutCancelOpcode
    <3>. QED BY <1>2, <2>2, <2>5, <3>1 DEF HandleLogoutCancelOpcode, LoginTypes
  <2>6. Head(recv[cur]) \in {"login", "logout", "cancel"}
    <3>1. Head(recv[cur]) \in Packets
      BY <1>1, <1>6, <2>1 DEF HandlePacket, ObjectTypes
    <3>. QED BY <3>1 DEF SessionConstants
  <2>. QED BY <1>6, <2>3, <2>4, <2>5, <2>6 DEF HandlePacket
<1>7. CASE EndUpdate
  <2>1. UNCHANGED <<loading, strays, holders, results>>
    BY <1>7 DEF EndUpdate
  <2>2. CASE RemoveClosed(cur)
    BY <1>1, <1>2, <2>1, <2>2, DestructTypes DEF RemoveClosed, LoginTypes
  <2>3. CASE LogoutPlayer(cur) /\ UNCHANGED activeRealm
    <3>1. /\ player' \in [Session -> BOOLEAN] /\ logout' \in [Session -> BOOLEAN]
          /\ online' \in [Account -> BOOLEAN]
      BY <1>2, <2>3 DEF LogoutPlayer
    <3>. QED BY <1>2, <2>1, <2>3, <3>1 DEF LoginTypes
  <2>4. CASE UNCHANGED <<logout, player, online, activeRealm>>
    BY <1>2, <2>1, <2>4 DEF LoginTypes
  <2>. QED BY <1>7, <2>2, <2>3, <2>4 DEF EndUpdate
<1>8. CASE HandlePlayerLoginCallback
  <2>1. /\ results' = Tail(results) /\ results # <<>> /\ UNCHANGED <<logout, holders>>
    BY <1>8 DEF HandlePlayerLoginCallback
  <2>2. results' \in Seq(Holder)
    BY <1>2, <2>1
  <2>3. \/ UNCHANGED <<loading, player, strays, columns>>
        \/ \E s \in Session : HandlePlayerLogin(s, Head(results).loads)
    <3>1. Head(results) \in Holder
      BY <1>2, <2>1
    <3>2. sessions[Head(results).account] \in Session \cup {NoSession}
      BY <1>1, <3>1 DEF Holder, ListTypes
    <3>. QED BY <1>8, <3>2 DEF HandlePlayerLoginCallback
  <2>4. CASE UNCHANGED <<loading, player, strays, columns>>
    BY <1>2, <2>1, <2>2, <2>4 DEF LoginTypes, columns
  <2>5. ASSUME NEW s \in Session, HandlePlayerLogin(s, Head(results).loads) PROVE LoginTypes'
    <3>1. loading' \in [Session -> BOOLEAN] /\ player' \in [Session -> BOOLEAN]
      BY <1>2, <2>5 DEF HandlePlayerLogin, Loaded
    <3>2. strays' \in [Account -> Nat]
      BY <1>2, <2>5 DEF HandlePlayerLogin
    <3>3. activeRealm' \in [Account -> BOOLEAN] /\ online' \in [Account -> BOOLEAN]
      BY <1>2, <2>5 DEF HandlePlayerLogin, MarkOnline, columns
    <3>. QED BY <1>2, <2>1, <2>2, <3>1, <3>2, <3>3 DEF LoginTypes
  <2>. QED BY <2>3, <2>4, <2>5
<1>9. CASE AnswerLogin
  <2>1. results' = Append(results, Head(holders)) /\ holders' = Tail(holders) /\ holders # <<>>
    BY <1>9 DEF AnswerLogin
  <2>2. Head(holders) \in Holder /\ Tail(holders) \in Seq(Holder)
    BY <1>2, <2>1
  <2>3. results' \in Seq(Holder) /\ holders' \in Seq(Holder)
    BY <1>2, <2>1, <2>2
  <2>. QED BY <1>2, <1>9, <2>3 DEF AnswerLogin, columns, LoginTypes
<1>10. CASE World
  BY <1>3, <1>5, <1>6, <1>7, <1>8, <1>10 DEF World, StartUpdates, BeginUpdate, EndUpdates,
         EndResults, ProcessCliCommands, NextTick, KickAll
<1>. QED BY <1>3, <1>4, <1>9, <1>10 DEF Next, Terminated, Tick, StopNow, vars

\* The world thread, the limits and the clock.
LEMMA WorldStep == ASSUME SessionConstants, Inv, [Next]_vars PROVE WorldTypes'
<1>1. WorldTypes /\ ListTypes
  BY DEF Inv, TypeOK
<1>2. CASE UNCHANGED <<limits, clock, tick>>
  BY <1>1, <1>2 DEF limits, clock, tick, WorldTypes
<1>3. ASSUME NEW s \in Session, Network(s) PROVE WorldTypes'
  <2>1. CASE HandleAuthSession(s)
    BY <1>1, <2>1 DEF HandleAuthSession, clock, tick, WorldTypes, SessionConstants
  <2>. QED BY <1>2, <1>3, <2>1 DEF Network, AddSession, Receive, Disconnect
<1>4. CASE AddSession_
  BY <1>2, <1>4 DEF AddSession_
<1>5. CASE StartUpdates
  BY <1>1, <1>5 DEF StartUpdates, limits, clock, WorldTypes, SessionConstants
<1>6. CASE BeginUpdate
  <2>1. PICK a \in todo : todo' = todo \ {a} /\ cur' = sessions[a]
    BY <1>6 DEF BeginUpdate
  <2>2. cur' \in Session \cup {NoSession} /\ todo' \subseteq Account
    BY <1>1, <2>1 DEF WorldTypes, ListTypes
  <2>. QED BY <1>1, <1>6, <2>2 DEF BeginUpdate, limits, clock, WorldTypes
<1>7. CASE HandlePacket
  BY <1>2, <1>7 DEF HandlePacket
<1>8. CASE EndUpdate
  <2>1. disconnects' \in [Account -> Nat \cup {Never}]
    BY <1>1, <1>8 DEF EndUpdate, RemoveClosed, WorldTypes
  <2>. QED BY <1>1, <1>8, <2>1 DEF EndUpdate, limits, WorldTypes
<1>9. CASE EndUpdates
  BY <1>1, <1>9 DEF EndUpdates, limits, clock, WorldTypes
<1>10. CASE HandlePlayerLoginCallback
  BY <1>2, <1>10 DEF HandlePlayerLoginCallback
<1>11. CASE EndResults
  BY <1>1, <1>11 DEF EndResults, limits, clock, WorldTypes
<1>12. CASE ProcessCliCommands
  <2>1. limit' \in Int /\ allowed' \in Nat
    BY <1>1, <1>12 DEF ProcessCliCommands, HandleServerPLimitCommand, KickPlayer, limits,
                       SessionConstants, WorldTypes
  <2>. QED BY <1>1, <1>12, <2>1 DEF ProcessCliCommands, clock, WorldTypes
<1>13. CASE NextTick
  BY <1>1, <1>13 DEF NextTick, limits, clock, WorldTypes
<1>14. CASE KickAll
  BY <1>1, <1>14 DEF KickAll, AfterKickAll, limits, clock, WorldTypes
<1>15. CASE AnswerLogin
  BY <1>2, <1>15 DEF AnswerLogin
<1>16. CASE Tick
  BY <1>1, <1>16 DEF Tick, limits, tick, WorldTypes
<1>17. CASE StopNow
  BY <1>1, <1>17 DEF StopNow, limits, clock, WorldTypes
<1>18. CASE UNCHANGED vars
  BY <1>2, <1>18 DEF vars
<1>. QED BY <1>3, <1>4, <1>5, <1>6, <1>7, <1>8, <1>9, <1>10, <1>11, <1>12, <1>13, <1>14, <1>15,
            <1>16, <1>17, <1>18 DEF Next, World, Terminated
-----------------------------------------------------------------------------

\* The invariant is inductive.
LEMMA InvHolds == Spec => []Inv
<1>1. Init => Inv
  BY InitInv, SessionConstants
<1>2. Inv /\ [Next]_vars => Inv'
  <2>. SUFFICES ASSUME Inv, [Next]_vars PROVE Inv'
    OBVIOUS
  <2>1. ListsConsistent' /\ TodoConsistent'
    BY ListsStep, TodoStep, SessionConstants
  <2>2. ObjectTypes' /\ ListTypes' /\ LoginTypes' /\ WorldTypes'
    BY ObjectStep, ListTypesStep, LoginStep, WorldStep, SessionConstants
  <2>. QED BY <2>1, <2>2 DEF Inv, TypeOK
<1>. QED BY <1>1, <1>2, PTL DEF Spec

\* The type invariant, for any accounts, connections and bounds.
THEOREM TypeCorrect == Spec => []TypeOK
<1>1. Inv => TypeOK
  BY DEF Inv
<1>. QED BY <1>1, InvHolds, PTL

\* The session map, addSessQueue and the login queue agree and hold no deleted
\* session, whoever connects, reconnects, waits, leaves or is kicked.
THEOREM ListsAlwaysConsistent == Spec => []ListsConsistent
<1>1. Inv => ListsConsistent
  BY DEF Inv
<1>. QED BY <1>1, InvHolds, PTL
-----------------------------------------------------------------------------
(* Players.                                                                *)

\* A live session that is loading dies only when its socket was closed: a newcomer of
\* its account is refused.
LEMMA LoadingKept ==
    ASSUME SessionConstants, Inv, [Next]_vars, NEW s \in Session,
           loading[s], place[s] = "live", place'[s] = "dead"
    PROVE  closed[s]
<1>1. ObjectTypes /\ ListTypes /\ ListsConsistent
  BY DEF Inv, TypeOK
<1>2. place' # place
  OBVIOUS
<1>3. CASE AddSession_
  <2>. DEFINE n == Head(addSessQueue)
  <2>1. n \in Session /\ place[n] = "adding" /\ AccountOf[n] \in Account
    BY <1>1, <1>3, HeadAdded DEF AddSession_, SessionConstants
  <2>2. CASE RefuseSession(n)
    <3>1. place' = [place EXCEPT ![n] = "dead"]
      BY <2>2 DEF RefuseSession
    <3>. QED BY <1>1, <2>1, <3>1 DEF ObjectTypes
  <2>3. CASE ~IsLoading(AccountOf[n]) /\ AcceptSession(n)
    <3>1. place' = [t \in Session |->
                      IF t = n THEN "live"
                      ELSE IF t \in {sessions[AccountOf[n]]} \ {NoSession} THEN "dead" ELSE place[t]]
      BY <2>3 DEF AcceptSession
    <3>2. s = sessions[AccountOf[n]] /\ s # NoSession
      BY <3>1, <1>2 DEF SessionConstants
    <3>. QED BY <2>3, <3>2 DEF IsLoading
  <2>. QED BY <1>3, <2>2, <2>3 DEF AddSession_
<1>4. CASE EndUpdate
  <2>1. closed[cur] /\ RemoveClosed(cur)
    BY <1>2, <1>4 DEF EndUpdate, Gone
  <2>2. place' = [place EXCEPT ![cur] = "dead"]
    BY <2>1 DEF RemoveClosed
  <2>. QED BY <1>1, <2>1, <2>2 DEF ObjectTypes
<1>5. ASSUME NEW t \in Session, Network(t) PROVE FALSE
  <2>1. place' = place \/ \E p \in {"built", "adding"} : place' = [place EXCEPT ![t] = p]
                             /\ place[t] \in {"none", "built"}
    BY <1>5 DEF Network, HandleAuthSession, AddSession, Receive, Disconnect, objects
  <2>. QED BY <1>1, <2>1 DEF ObjectTypes
<1>6. CASE UNCHANGED place
  BY <1>2, <1>6
<1>7. CASE World
  BY <1>3, <1>4, <1>6, <1>7 DEF World, StartUpdates, BeginUpdate, HandlePacket, EndUpdates,
         HandlePlayerLoginCallback, EndResults, ProcessCliCommands, NextTick, KickAll, objects
<1>. QED BY <1>5, <1>6, <1>7 DEF Next, Terminated, AnswerLogin, Tick, StopNow, vars, objects

\* A session whose character is being loaded keeps its place in the map until its own
\* socket is closed: World::RemoveSession() refuses the newcomer.
THEOREM LoadingKeepsItsPlace == Spec => LoadingNotReplaced
<1>1. Inv /\ [Next]_vars =>
          [\A s \in Session : loading[s] /\ place[s] = "live" /\ place'[s] = "dead"
                                => closed[s]]_vars
  BY LoadingKept, SessionConstants
<1>. QED BY <1>1, InvHolds, PTL DEF Spec, LoadingNotReplaced

\* The strengthening for the players: only a session of the map has one, and not while
\* it is loading another; its account is recorded as online, and no account without
\* one; during the shutdown every session with a player is closed, and is still to be
\* visited by the last UpdateSessions().
PlayersMapped == \A s \in Session : player[s] => place[s] = "live" /\ ~loading[s]
Recorded == \A s \in Session : player[s] => online[AccountOf[s]] /\ activeRealm[AccountOf[s]]
OnlyRecorded == \A a \in Account : online[a] => \E s \in Session : AccountOf[s] = a /\ player[s]
Unloading ==
    /\ pc \in {"lastadd", "lastupdate"} => \A s \in Session : player[s] => closed[s]
    /\ pc = "lastupdate" => \A s \in Session : player[s] => AccountOf[s] \in todo \/ cur = s
    /\ pc = "halted" => \A s \in Session : ~player[s]
PlayersInv == PlayersMapped /\ Recorded /\ OnlyRecorded /\ Unloading

\* Steps within one phase of the tick that bring no player into the world.
LEMMA PlayersKept ==
    ASSUME PlayersInv,
           \A s \in Session : player'[s] =>
               /\ player[s] /\ place'[s] = "live" /\ ~loading'[s]
               /\ closed[s] => closed'[s]
               /\ online'[AccountOf[s]] /\ activeRealm'[AccountOf[s]],
           OnlyRecorded',
           pc' = pc, todo' = todo, cur' = cur
    PROVE  PlayersInv'
<1>1. PlayersMapped'
  BY DEF PlayersMapped
<1>2. Recorded'
  BY DEF Recorded
<1>3. Unloading'
  BY DEF PlayersInv, Unloading
<1>. QED BY <1>1, <1>2, <1>3 DEF PlayersInv

\* Steps of the world thread from one phase to another.
LEMMA PhasesKeepPlayers ==
    ASSUME PlayersInv, UNCHANGED <<player, place, loading, online, activeRealm>>, Unloading'
    PROVE  PlayersInv'
<1>1. PlayersMapped'
  BY DEF PlayersInv, PlayersMapped
<1>2. Recorded' /\ OnlyRecorded'
  BY DEF PlayersInv, Recorded, OnlyRecorded
<1>. QED BY <1>1, <1>2 DEF PlayersInv

\* The facts about one player that every step starts from.
LEMMA PlayerFacts ==
    ASSUME Inv, PlayersInv, NEW s \in Session, player[s]
    PROVE  /\ place[s] = "live" /\ ~loading[s] /\ sessions[AccountOf[s]] = s
           /\ online[AccountOf[s]] /\ activeRealm[AccountOf[s]]
  BY DEF PlayersInv, PlayersMapped, Recorded, Live, Inv, ListsConsistent, MapConsistent

\* The steps of the network threads.
LEMMA NetworkPlayers ==
    ASSUME SessionConstants, Inv, PlayersInv, NEW t \in Session, Network(t)
    PROVE  PlayersInv'
<1>1. /\ ObjectTypes /\ LoginTypes
      /\ player' = player /\ loading' = loading /\ online' = online
      /\ pc' = pc /\ todo' = todo /\ cur' = cur
  BY DEF Inv, TypeOK, Network, HandleAuthSession, AddSession, Receive, Disconnect, logins, columns, tick
<1>2. ASSUME NEW s \in Session, player[s] PROVE place'[s] = "live"
  <2>1. place[s] = "live"
    BY <1>2, PlayerFacts
  <2>2. \/ place' = place
        \/ /\ place[t] \in {"none", "built"}
           /\ \E p \in {"built", "adding"} : place' = [place EXCEPT ![t] = p]
    BY DEF Network, HandleAuthSession, AddSession, Receive, Disconnect, objects
  <2>. QED BY <1>1, <2>1, <2>2 DEF ObjectTypes
<1>3. ASSUME NEW s \in Session, player[s] PROVE closed[s] => closed'[s]
  <2>1. closed' = closed \/ closed' = [closed EXCEPT ![t] = TRUE]
    BY DEF Network, HandleAuthSession, AddSession, Receive, Disconnect, objects
  <2>. QED BY <1>1, <2>1 DEF ObjectTypes
<1>4. ASSUME NEW s \in Session, player[s] PROVE activeRealm'[AccountOf[s]]
  <2>1. activeRealm[AccountOf[s]] /\ AccountOf[s] \in Account
    BY <1>4, PlayerFacts DEF SessionConstants
  <2>2. activeRealm' = activeRealm \/ activeRealm' = [activeRealm EXCEPT ![AccountOf[t]] = TRUE]
    BY DEF Network, HandleAuthSession, AddSession, Receive, Disconnect, columns
  <2>. QED BY <1>1, <2>1, <2>2 DEF LoginTypes
<1>5. \A s \in Session : player'[s] => ~loading'[s] /\ online'[AccountOf[s]]
  BY <1>1, PlayerFacts
<1>6. OnlyRecorded'
  BY <1>1 DEF PlayersInv, OnlyRecorded
<1>. QED BY <1>1, <1>2, <1>3, <1>4, <1>5, <1>6, PlayersKept

\* The destructors of `gone` write offline only accounts of which no player is left.
LEMMA DestructPlayers ==
    ASSUME SessionConstants, Inv, PlayersInv, NEW gone, Destruct(gone),
           NEW s \in Session, player'[s],
           \A g \in gone : AccountOf[g] = AccountOf[s] => g = s
    PROVE  /\ player[s] /\ s \notin gone /\ (closed[s] => closed'[s])
           /\ online'[AccountOf[s]] /\ activeRealm'[AccountOf[s]]
<1>1. /\ closed' = [t \in Session |-> closed[t] \/ t \in gone]
      /\ player' = [t \in Session |-> player[t] /\ t \notin gone]
      /\ activeRealm' = [a \in Account |-> activeRealm[a] /\ \A g \in gone : AccountOf[g] # a]
      /\ online' = [a \in Account |-> online[a] /\ \A g \in gone : AccountOf[g] # a]
  BY DEF Destruct
<1>2. player[s] /\ s \notin gone /\ AccountOf[s] \in Account
  BY <1>1 DEF SessionConstants
<1>3. online[AccountOf[s]] /\ activeRealm[AccountOf[s]]
  BY <1>2, PlayerFacts
<1>4. \A g \in gone : AccountOf[g] # AccountOf[s]
  BY <1>2
<1>. QED BY <1>1, <1>2, <1>3, <1>4

\* ... and every account they leave recorded as online has a player left.
LEMMA DestructOnline ==
    ASSUME SessionConstants, PlayersInv, NEW gone, Destruct(gone) PROVE OnlyRecorded'
<1>. SUFFICES ASSUME NEW a \in Account, online'[a]
              PROVE  \E s \in Session : AccountOf[s] = a /\ player'[s]
  BY DEF OnlyRecorded
<1>1. online[a] /\ \A g \in gone : AccountOf[g] # a
  BY DEF Destruct
<1>2. PICK s \in Session : AccountOf[s] = a /\ player[s]
  BY <1>1 DEF PlayersInv, OnlyRecorded
<1>3. player'[s]
  BY <1>1, <1>2 DEF Destruct
<1>. QED BY <1>2, <1>3

\* A newcomer, refused or accepted.
LEMMA AddSession_Players ==
    ASSUME SessionConstants, Inv, PlayersInv, AddSession_ PROVE PlayersInv'
<1>. DEFINE n == Head(addSessQueue)
            a == AccountOf[n]
<1>1. /\ ObjectTypes /\ ListTypes /\ LoginTypes /\ ListsConsistent
      /\ loading' = loading /\ pc' = pc /\ todo' = todo /\ cur' = cur
  BY DEF Inv, TypeOK, AddSession_, tick
<1>2. n \in Session /\ place[n] = "adding" /\ a \in Account
  BY <1>1, HeadAdded DEF AddSession_, SessionConstants
<1>3. ~player[n]
  BY <1>2, PlayerFacts
<1>4. CASE IsLoading(a) /\ RefuseSession(n)
  <2>1. Destruct({n}) /\ place' = [place EXCEPT ![n] = "dead"]
    BY <1>4 DEF RefuseSession
  <2>2. ASSUME NEW s \in Session, player'[s]
        PROVE  /\ player[s] /\ place'[s] = "live" /\ ~loading'[s] /\ (closed[s] => closed'[s])
               /\ online'[AccountOf[s]] /\ activeRealm'[AccountOf[s]]
    <3>1. player[s] /\ s # n
      BY <1>3, <2>1, <2>2 DEF Destruct
    <3>2. place[s] = "live" /\ ~loading[s] /\ sessions[AccountOf[s]] = s
      BY <3>1, PlayerFacts
    <3>3. AccountOf[s] # a
      BY <1>4, <3>2 DEF IsLoading
    <3>4. \A g \in {n} : AccountOf[g] = AccountOf[s] => g = s
      BY <3>3
    <3>5. /\ closed[s] => closed'[s]
          /\ online'[AccountOf[s]] /\ activeRealm'[AccountOf[s]]
      BY <2>1, <2>2, <3>4, DestructPlayers
    <3>6. place'[s] = "live"
      BY <1>1, <2>1, <3>1, <3>2 DEF ObjectTypes
    <3>. QED BY <1>1, <3>1, <3>2, <3>5, <3>6
  <2>3. OnlyRecorded'
    BY <2>1, DestructOnline
  <2>. QED BY <1>1, <2>2, <2>3, PlayersKept
<1>5. CASE AcceptSession(n)
  <2>. DEFINE gone == {sessions[a]} \ {NoSession}
  <2>1. /\ Destruct(gone)
        /\ place' = [t \in Session |-> IF t = n THEN "live"
                                       ELSE IF t \in gone THEN "dead" ELSE place[t]]
    BY <1>5 DEF AcceptSession
  <2>2. ASSUME NEW s \in Session, player'[s]
        PROVE  /\ player[s] /\ place'[s] = "live" /\ ~loading'[s] /\ (closed[s] => closed'[s])
               /\ online'[AccountOf[s]] /\ activeRealm'[AccountOf[s]]
    <3>1. player[s] /\ s \notin gone
      BY <2>1, <2>2 DEF Destruct
    <3>2. place[s] = "live" /\ ~loading[s] /\ sessions[AccountOf[s]] = s
      BY <3>1, PlayerFacts
    <3>3. \A g \in gone : AccountOf[g] = AccountOf[s] => g = s
      <4>1. \A g \in gone : g = sessions[a] /\ AccountOf[g] = a
        BY <1>1, <1>2, MappedLive
      <4>. QED BY <4>1, <3>2
    <3>4. /\ closed[s] => closed'[s]
          /\ online'[AccountOf[s]] /\ activeRealm'[AccountOf[s]]
      BY <2>1, <2>2, <3>3, DestructPlayers
    <3>5. place'[s] = "live"
      BY <2>1, <3>1, <3>2
    <3>. QED BY <1>1, <3>1, <3>2, <3>4, <3>5
  <2>3. OnlyRecorded'
    BY <2>1, DestructOnline
  <2>. QED BY <1>1, <2>2, <2>3, PlayersKept
<1>. QED BY <1>4, <1>5 DEF AddSession_

\* The character of `s` is saved and leaves the world.
LEMMA LogoutKeepsOthers ==
    ASSUME SessionConstants, Inv, PlayersInv, NEW t \in Session, LogoutPlayer(t),
           NEW s \in Session, player'[s]
    PROVE  player[s] /\ s # t /\ online'[AccountOf[s]]
<1>1. /\ player' = [player EXCEPT ![t] = FALSE]
      /\ online' = [online EXCEPT ![AccountOf[t]] = @ /\ ~player[t]]
      /\ LoginTypes /\ AccountOf[s] \in Account /\ AccountOf[t] \in Account
  BY DEF LogoutPlayer, Inv, TypeOK, SessionConstants
<1>2. player[s] /\ s # t
  BY <1>1 DEF LoginTypes
<1>3. online[AccountOf[s]] /\ sessions[AccountOf[s]] = s
  BY <1>2, PlayerFacts
<1>4. player[t] => AccountOf[t] # AccountOf[s]
  BY <1>2, <1>3, PlayerFacts
<1>5. online'[AccountOf[s]]
  BY <1>1, <1>3, <1>4 DEF LoginTypes
<1>. QED BY <1>2, <1>5

\* Its account is recorded as online only for another player.
LEMMA LogoutOnline ==
    ASSUME SessionConstants, Inv, PlayersInv, NEW t \in Session, LogoutPlayer(t) PROVE OnlyRecorded'
<1>1. /\ player' = [player EXCEPT ![t] = FALSE]
      /\ online' = [online EXCEPT ![AccountOf[t]] = @ /\ ~player[t]]
      /\ LoginTypes /\ AccountOf[t] \in Account
  BY DEF LogoutPlayer, Inv, TypeOK, SessionConstants
<1>. SUFFICES ASSUME NEW a \in Account, online'[a]
              PROVE  \E s \in Session : AccountOf[s] = a /\ player'[s]
  BY DEF OnlyRecorded
<1>2. online[a] /\ (AccountOf[t] = a => ~player[t])
  BY <1>1 DEF LoginTypes
<1>3. PICK s \in Session : AccountOf[s] = a /\ player[s]
  BY <1>2 DEF PlayersInv, OnlyRecorded
<1>4. player'[s]
  BY <1>1, <1>2, <1>3 DEF LoginTypes
<1>. QED BY <1>3, <1>4

\* A packet of the session being updated.
LEMMA PacketPlayers ==
    ASSUME SessionConstants, Inv, PlayersInv, HandlePacket PROVE PlayersInv'
<1>1. /\ ObjectTypes /\ LoginTypes /\ cur \in Session
      /\ place' = place /\ activeRealm' = activeRealm
      /\ pc' = pc /\ todo' = todo /\ cur' = cur
  BY DEF Inv, TypeOK, WorldTypes, HandlePacket, tick
<1>2. Head(recv[cur]) \in {"login", "logout", "cancel"}
  <2>1. Head(recv[cur]) \in Packets
    BY <1>1 DEF HandlePacket, ObjectTypes
  <2>. QED BY <2>1 DEF SessionConstants
<1>3. /\ \A s \in Session : closed[s] => closed'[s]
      /\ \A s \in Session : player[s] /\ ~loading[s] => ~loading'[s]
      /\ \/ player' = player /\ online' = online
         \/ LogoutPlayer(cur)
  <2>1. CASE HandlePlayerLoginOpcode(cur)
    BY <1>1, <2>1 DEF HandlePlayerLoginOpcode, ObjectTypes, LoginTypes
  <2>2. CASE HandleLogoutRequestOpcode(cur)
    BY <1>1, <2>2 DEF HandleLogoutRequestOpcode
  <2>3. CASE HandleLogoutCancelOpcode(cur)
    BY <1>1, <2>3 DEF HandleLogoutCancelOpcode
  <2>. QED BY <1>2, <2>1, <2>2, <2>3 DEF HandlePacket
<1>4. ASSUME NEW s \in Session, player'[s] PROVE player[s] /\ online'[AccountOf[s]]
  BY <1>1, <1>3, <1>4, PlayerFacts, LogoutKeepsOthers
<1>5. ASSUME NEW s \in Session, player'[s]
      PROVE  place'[s] = "live" /\ ~loading'[s] /\ activeRealm'[AccountOf[s]]
  BY <1>1, <1>3, <1>4, <1>5, PlayerFacts
<1>6. OnlyRecorded'
  <2>1. CASE player' = player /\ online' = online
    BY <2>1 DEF PlayersInv, OnlyRecorded
  <2>. QED BY <1>1, <1>3, <2>1, LogoutOnline
<1>. QED BY <1>1, <1>3, <1>4, <1>5, <1>6, PlayersKept

\* The end of a session's update: it is removed, logged out, or left alone.
LEMMA EndUpdatePlayers ==
    ASSUME SessionConstants, Inv, PlayersInv, EndUpdate PROVE PlayersInv'
<1>1. /\ ObjectTypes /\ LoginTypes /\ cur \in Session /\ cur # NoSession /\ cur' = NoSession
      /\ loading' = loading /\ pc' = pc /\ todo' = todo
      /\ ListsConsistent /\ pc \in {"update", "lastupdate"}
  BY DEF Inv, TypeOK, WorldTypes, EndUpdate, TodoConsistent
<1>2. ASSUME NEW s \in Session, player'[s]
      PROVE  /\ player[s] /\ place'[s] = "live" /\ (closed[s] => closed'[s])
             /\ online'[AccountOf[s]] /\ activeRealm'[AccountOf[s]]
             /\ closed[cur] => s # cur
  <2>1. CASE closed[cur] /\ RemoveClosed(cur)
    <3>1. Destruct({cur}) /\ place' = [place EXCEPT ![cur] = "dead"]
      BY <2>1 DEF RemoveClosed
    <3>2. player[s] /\ s # cur
      BY <1>2, <3>1 DEF Destruct
    <3>3. place[s] = "live" /\ sessions[AccountOf[s]] = s
      BY <3>2, PlayerFacts
    <3>4. sessions[AccountOf[cur]] = cur
      BY <1>1 DEF ListsConsistent, MapConsistent, Live
    <3>5. \A g \in {cur} : AccountOf[g] = AccountOf[s] => g = s
      BY <3>3, <3>4
    <3>6. (closed[s] => closed'[s]) /\ online'[AccountOf[s]] /\ activeRealm'[AccountOf[s]]
      BY <1>2, <3>1, <3>5, DestructPlayers
    <3>7. place'[s] = "live"
      BY <1>1, <3>1, <3>2, <3>3 DEF ObjectTypes
    <3>. QED BY <3>2, <3>6, <3>7
  <2>2. CASE ~closed[cur] /\ LogoutPlayer(cur) /\ UNCHANGED <<place, closed, activeRealm>>
    BY <1>1, <1>2, <2>2, LogoutKeepsOthers, PlayerFacts
  <2>3. CASE ~closed[cur] /\ UNCHANGED <<place, closed, player, online, activeRealm>>
    BY <1>2, <2>3, PlayerFacts
  <2>. QED BY <2>1, <2>2, <2>3 DEF EndUpdate, Gone
<1>3. PlayersMapped'
  BY <1>1, <1>2, PlayerFacts DEF PlayersMapped
<1>4. Recorded'
  BY <1>2 DEF Recorded
<1>6. OnlyRecorded'
  <2>1. CASE RemoveClosed(cur)
    BY <2>1, DestructOnline DEF RemoveClosed
  <2>2. CASE LogoutPlayer(cur)
    BY <1>1, <2>2, LogoutOnline
  <2>3. CASE UNCHANGED <<player, online>>
    BY <2>3 DEF PlayersInv, OnlyRecorded
  <2>. QED BY <2>1, <2>2, <2>3 DEF EndUpdate
<1>5. Unloading'
  <2>1. /\ pc = "lastupdate" => \A s \in Session : player[s] => closed[s]
        /\ pc = "lastupdate" => \A s \in Session : player[s] => AccountOf[s] \in todo \/ cur = s
    BY DEF PlayersInv, Unloading
  <2>2. pc = "lastupdate" => \A s \in Session : player'[s] => closed'[s]
    BY <2>1, <1>2
  <2>3. pc = "lastupdate" => \A s \in Session : player'[s] => AccountOf[s] \in todo
    <3>1. ASSUME pc = "lastupdate", NEW s \in Session, player'[s] PROVE AccountOf[s] \in todo
      <4>1. player[s] /\ closed[s] /\ (closed[cur] => s # cur)
        BY <1>2, <2>1, <3>1
      <4>. QED BY <2>1, <3>1, <4>1
    <3>. QED BY <3>1
  <2>. QED BY <1>1, <2>2, <2>3 DEF Unloading
<1>. QED BY <1>3, <1>4, <1>5, <1>6 DEF PlayersInv

\* An answer of the delay thread: the character enters the world, or the client is kicked.
LEMMA CallbackPlayers ==
    ASSUME SessionConstants, Inv, PlayersInv, HandlePlayerLoginCallback PROVE PlayersInv'
<1>1. /\ ListTypes /\ LoginTypes /\ ListsConsistent
      /\ pc = "results" /\ pc' = pc /\ todo' = todo /\ cur' = cur /\ place' = place
      /\ results # <<>>
  BY DEF Inv, TypeOK, HandlePlayerLoginCallback, tick
<1>2. PICK a \in Account, b \in BOOLEAN :
         IF sessions[a] = NoSession
         THEN UNCHANGED <<closed, loading, player, strays, columns>>
         ELSE HandlePlayerLogin(sessions[a], b)
  <2>1. Head(results) \in Holder
    BY <1>1 DEF LoginTypes
  <2>. QED BY <2>1 DEF Holder, HandlePlayerLoginCallback
<1>3. Unloading'
  BY <1>1 DEF Unloading
<1>4. \A s \in Session : AccountOf[s] \in Account
  BY DEF SessionConstants
<1>5. CASE sessions[a] = NoSession
  BY <1>1, <1>2, <1>3, <1>5, PhasesKeepPlayers DEF columns
<1>6. CASE sessions[a] # NoSession
  <2>. DEFINE t == sessions[a]
  <2>1. t \in Session /\ place[t] = "live" /\ AccountOf[t] = a /\ HandlePlayerLogin(t, b)
    BY <1>1, <1>2, <1>6, MappedLive
  <2>2. loading' = [loading EXCEPT ![t] = FALSE]
    BY <2>1 DEF HandlePlayerLogin, Loaded
  <2>. HIDE DEF t
  <2>3. CASE b = TRUE
    <3>1. /\ player' = [player EXCEPT ![t] = TRUE]
          /\ online' = [online EXCEPT ![AccountOf[t]] = TRUE]
          /\ activeRealm' = [activeRealm EXCEPT ![AccountOf[t]] = TRUE]
      BY <2>1, <2>3 DEF HandlePlayerLogin, MarkOnline
    <3>2. ASSUME NEW s \in Session, player'[s]
          PROVE  /\ place'[s] = "live" /\ ~loading'[s]
                 /\ online'[AccountOf[s]] /\ activeRealm'[AccountOf[s]]
      <4>1. CASE s = t
        BY <1>1, <1>4, <2>1, <2>2, <3>1, <4>1 DEF LoginTypes
      <4>2. CASE s # t
        <5>1. player[s]
          BY <3>1, <3>2, <4>2 DEF LoginTypes, Inv, TypeOK
        <5>2. place[s] = "live" /\ ~loading[s] /\ online[AccountOf[s]] /\ activeRealm[AccountOf[s]]
          BY <5>1, PlayerFacts
        <5>. QED BY <1>1, <1>4, <2>1, <2>2, <3>1, <4>2, <5>2 DEF LoginTypes
      <4>. QED BY <4>1, <4>2
    <3>3. PlayersMapped'
      BY <3>2 DEF PlayersMapped
    <3>4. Recorded'
      BY <3>2 DEF Recorded
    <3>5. ASSUME NEW c \in Account, online'[c]
          PROVE  \E s \in Session : AccountOf[s] = c /\ player'[s]
      <4>1. CASE c = AccountOf[t]
        BY <2>1, <3>1, <4>1 DEF LoginTypes, Inv, TypeOK
      <4>2. CASE c # AccountOf[t]
        <5>1. online[c]
          BY <1>1, <3>1, <3>5, <4>2 DEF LoginTypes
        <5>2. PICK s \in Session : AccountOf[s] = c /\ player[s]
          BY <5>1 DEF PlayersInv, OnlyRecorded
        <5>3. player'[s]
          BY <1>1, <3>1, <5>2 DEF LoginTypes
        <5>. QED BY <5>2, <5>3
      <4>. QED BY <4>1, <4>2
    <3>6. OnlyRecorded'
      BY <3>5 DEF OnlyRecorded
    <3>. QED BY <1>3, <3>3, <3>4, <3>6 DEF PlayersInv
  <2>4. CASE b = FALSE
    <3>1. UNCHANGED <<player, online, activeRealm>>
      BY <2>1, <2>4 DEF HandlePlayerLogin, columns
    <3>2. PlayersMapped'
      BY <1>1, <2>1, <2>2, <3>1 DEF PlayersInv, PlayersMapped, LoginTypes
    <3>3. Recorded' /\ OnlyRecorded'
      BY <3>1 DEF PlayersInv, Recorded, OnlyRecorded
    <3>. QED BY <1>3, <3>2, <3>3 DEF PlayersInv
  <2>. QED BY <2>3, <2>4
<1>. QED BY <1>5, <1>6

\* From one phase of the tick to the next, and through the accounts of the last one.
LEMMA PhasesPlayers ==
    ASSUME SessionConstants, Inv, PlayersInv,
           StartUpdates \/ BeginUpdate \/ EndUpdates \/ EndResults
             \/ ProcessCliCommands \/ NextTick \/ KickAll
    PROVE  PlayersInv'
<1>1. UNCHANGED <<player, place, loading, online, activeRealm>>
  BY DEF StartUpdates, BeginUpdate, EndUpdates, EndResults, ProcessCliCommands, NextTick, KickAll,
         objects, logins, columns
<1>2. /\ pc \in {"lastadd", "lastupdate"} => \A s \in Session : player[s] => closed[s]
      /\ pc = "lastupdate" => \A s \in Session : player[s] => AccountOf[s] \in todo \/ cur = s
      /\ pc = "halted" => \A s \in Session : ~player[s]
      /\ \A s \in Session : player[s] =>
             AccountOf[s] \in Account /\ sessions[AccountOf[s]] = s /\ s \in Live
  BY PlayerFacts DEF PlayersInv, Unloading, Live, SessionConstants
<1>3. ObjectTypes
  BY DEF Inv, TypeOK
<1>4. CASE StartUpdates
  <2>1. /\ pc \in {"add", "lastadd"} /\ pc' = IF pc = "add" THEN "update" ELSE "lastupdate"
        /\ todo' = {a \in Account : sessions[a] # NoSession} /\ closed' = closed
    BY <1>4 DEF StartUpdates, objects
  <2>2. \A s \in Session : player[s] => AccountOf[s] \in todo'
    BY <1>2, <2>1 DEF SessionConstants
  <2>. QED BY <1>1, <1>2, <2>1, <2>2, PhasesKeepPlayers DEF Unloading
<1>5. CASE BeginUpdate
  <2>1. PICK a \in todo : todo' = todo \ {a} /\ cur' = sessions[a]
    BY <1>5 DEF BeginUpdate
  <2>2. /\ pc \in {"update", "lastupdate"} /\ pc' = pc /\ cur = NoSession
        /\ closed' = [closed EXCEPT ![cur'] = @ \/ (Elapse(idle[cur']) = 0 /\ ~inQueue[cur'])]
    BY <1>5 DEF BeginUpdate
  <2>3. \A s \in Session : closed[s] => closed'[s]
    BY <1>3, <2>2 DEF ObjectTypes
  <2>4. pc = "lastupdate" => \A s \in Session : player[s] => AccountOf[s] \in todo' \/ cur' = s
    BY <1>2, <2>1, <2>2 DEF SessionConstants
  <2>. QED BY <1>1, <1>2, <2>2, <2>3, <2>4, PhasesKeepPlayers DEF Unloading
<1>6. CASE EndUpdates
  <2>1. /\ cur = NoSession /\ todo = {} /\ pc \in {"update", "lastupdate"}
        /\ pc' = IF pc = "update" THEN "results" ELSE "halted"
    BY <1>6 DEF EndUpdates
  <2>2. pc = "lastupdate" => \A s \in Session : ~player[s]
    BY <1>2, <2>1 DEF SessionConstants
  <2>. QED BY <1>1, <2>1, <2>2, PhasesKeepPlayers DEF Unloading
<1>7. CASE EndResults \/ ProcessCliCommands \/ NextTick
  <2>1. pc' \in {"cli", "next", "add"}
    BY <1>7 DEF EndResults, ProcessCliCommands, NextTick
  <2>. QED BY <1>1, <2>1, PhasesKeepPlayers DEF Unloading
<1>8. CASE KickAll
  <2>1. pc' = "lastadd" /\ closed' = [s \in Session |-> closed[s] \/ s \in Live]
    BY <1>8 DEF KickAll, AfterKickAll
  <2>2. \A s \in Session : player[s] => closed'[s]
    BY <1>2, <2>1
  <2>. QED BY <1>1, <2>1, <2>2, PhasesKeepPlayers DEF Unloading
<1>. QED BY <1>4, <1>5, <1>6, <1>7, <1>8

LEMMA PlayersStep == ASSUME SessionConstants, Inv, PlayersInv, [Next]_vars PROVE PlayersInv'
<1>1. CASE AnswerLogin \/ Tick \/ StopNow \/ UNCHANGED vars
  <2>1. /\ UNCHANGED <<player, place, loading, online, activeRealm, closed, pc, todo, cur>>
    BY <1>1 DEF AnswerLogin, Tick, StopNow, vars, objects, logins, columns, tick
  <2>2. OnlyRecorded'
    BY <2>1 DEF PlayersInv, OnlyRecorded
  <2>. QED BY <2>1, <2>2, PlayerFacts, PlayersKept
<1>2. CASE World
  BY <1>2, AddSession_Players, PacketPlayers, EndUpdatePlayers, CallbackPlayers, PhasesPlayers DEF World
<1>. QED BY <1>1, <1>2, NetworkPlayers DEF Next, Terminated

LEMMA PlayersHold == Spec => [](Inv /\ PlayersInv)
<1>1. Init => PlayersInv
  BY DEF Init, PlayersInv, PlayersMapped, Recorded, OnlyRecorded, Unloading
<1>2. Inv /\ PlayersInv /\ [Next]_vars => PlayersInv'
  BY PlayersStep, SessionConstants
<1>. QED BY <1>1, <1>2, InvHolds, PTL DEF Spec

\* An account is recorded as online exactly while its session in the map has a player,
\* and on this realm then, however sessions of the account come, are refused, are
\* replaced and die.  Players that no session refers to any more are not counted.
THEOREM PlayersRecorded == Spec => []PlayerRecordedOnline
<1>1. ASSUME Inv, PlayersInv, NEW a \in Account, online[a]
      PROVE  sessions[a] # NoSession /\ player[sessions[a]] /\ activeRealm[a]
  <2>1. PICK s \in Session : AccountOf[s] = a /\ player[s]
    BY <1>1 DEF PlayersInv, OnlyRecorded
  <2>2. sessions[a] = s /\ activeRealm[a]
    BY <1>1, <2>1, PlayerFacts
  <2>. QED BY <2>1, <2>2, SessionConstants DEF SessionConstants
<1>2. ASSUME Inv, PlayersInv, NEW a \in Account, sessions[a] # NoSession, player[sessions[a]]
      PROVE  online[a]
  <2>1. sessions[a] \in Session /\ AccountOf[sessions[a]] = a
    BY <1>2, MappedLive DEF Inv, TypeOK
  <2>. QED BY <1>2, <2>1 DEF PlayersInv, Recorded
<1>3. Inv /\ PlayersInv => PlayerRecordedOnline
  BY <1>1, <1>2 DEF PlayerRecordedOnline
<1>. QED BY <1>3, PlayersHold, PTL

\* After KickAll() and the last UpdateSessions() no session has a player left, and no
\* account is left recorded as online.
THEOREM HaltUnloads == Spec => []HaltUnloadsPlayers
<1>1. PlayersInv => HaltUnloadsPlayers
  BY DEF PlayersInv, Unloading, OnlyRecorded, HaltUnloadsPlayers
<1>. QED BY <1>1, PlayersHold, PTL
-----------------------------------------------------------------------------
(* The login queue.                                                        *)

\* The operators that LoginQueue takes from the library are the ones used here.
LEMMA SameCardinality == ASSUME NEW S PROVE LQ!Cardinality(S) = Cardinality(S)
  BY Zenon DEF LQ!Cardinality, Cardinality, LQ!IsFiniteSet, IsFiniteSet

LEMMA SameRange == ASSUME NEW f PROVE LQ!Range(f) = ToSet(f)
  BY DEF LQ!Range, ToSet

LEMMA SameRemoveAt == ASSUME NEW q, NEW i PROVE LQ!RemoveAt(q, i) = RemoveAt(q, i)
  BY DEF LQ!RemoveAt, RemoveAt

\* Who is let in and who waits, in numbers.
LEMMA ActiveCount ==
    ASSUME Inv, IsFiniteSet(Live)
    PROVE  /\ IsFiniteSet(Active) /\ Cardinality(Active) \in Nat /\ Len(queue) \in Nat
           /\ Cardinality(Live) = Cardinality(Active) + Len(queue)
<1>1. queue \in Seq(Session) /\ IsInjective(queue) /\ ToSet(queue) \subseteq Live
  BY DEF Inv, TypeOK, ListTypes, ListsConsistent, QueueConsistent
<1>2. IsFiniteSet(ToSet(queue)) /\ Cardinality(ToSet(queue)) = Len(queue)
  BY <1>1, LenIsCardinality
<1>3. IsFiniteSet(Active)
  BY FS_Subset DEF Active
<1>4. Active \cap ToSet(queue) = {} /\ Active \cup ToSet(queue) = Live
  BY <1>1 DEF Active
<1>5. Cardinality(Active) \in Nat /\ Len(queue) \in Nat
  BY <1>1, <1>3, FS_CardinalityType
<1>6. Cardinality(Active \cup ToSet(queue))
        = Cardinality(Active) + Cardinality(ToSet(queue)) - Cardinality(Active \cap ToSet(queue))
  BY <1>2, <1>3, FS_Union
<1>7. Cardinality(Active \cap ToSet(queue)) = 0
  BY <1>4, FS_EmptySet
<1>8. Cardinality(Live) = Cardinality(Active) + Len(queue)
  <2>1. Cardinality(Live) = Cardinality(Active \cup ToSet(queue))
    BY <1>4
  <2>2. Cardinality(Live) = Cardinality(Active) + Len(queue) - 0
    BY <2>1, <1>2, <1>6, <1>7
  <2>. QED BY <2>2, <1>5
<1>. QED BY <1>3, <1>5, <1>8

\* RemoveQueuedPlayer() does what a departure from the abstract queue does: its counts,
\* taken before the session is erased, are those of the sessions that stay.
LEMMA RemovalIsDeparture ==
    ASSUME Inv, IsFiniteSet(Live), NEW s \in Live
    PROVE  LET left  == RemoveQueuedPlayer(s)
               stay  == LQ!Without(s)
               still == Active \ {s}
           IN  /\ IsFiniteSet(still) /\ Cardinality(still) \in Nat
               /\ Cardinality(still) = Remaining(s)
               /\ left.in = IF stay # <<>> /\ ~LQ!Full(Cardinality(still)) THEN {Head(stay)} ELSE {}
               /\ left.rest = IF left.in # {} THEN Tail(stay) ELSE stay
               /\ left.rest \in Seq(Session)
               /\ left.in \subseteq ToSet(queue) \ {s}
               /\ ToSet(left.rest) = (ToSet(queue) \ {s}) \ left.in
<1>. DEFINE left  == RemoveQueuedPlayer(s)
            stay  == LQ!Without(s)
            still == Active \ {s}
<1>1. /\ queue \in Seq(Session) /\ IsInjective(queue) /\ ToSet(queue) \subseteq Live
      /\ s \in Session /\ limit \in Int /\ ListTypes
  BY DEF Inv, TypeOK, ListTypes, WorldTypes, ListsConsistent, QueueConsistent, Live
<1>2. Contains(queue, s) <=> s \in ToSet(queue)
  BY ContainsIsMember
<1>3. stay = Skipped(s)
  BY <1>2, SameRange, SameRemoveAt DEF Skipped, QueuePos, LQ!Without, LQ!Place
<1>4. IsFiniteSet(still) /\ Cardinality(still) \in Nat
  BY ActiveCount, FS_RemoveElement, FS_CardinalityType
<1>5. Cardinality(still) = Remaining(s)
  <2>1. Cardinality(still) = IF s \in Active THEN Cardinality(Active) - 1 ELSE Cardinality(Active)
    BY ActiveCount, FS_RemoveElement
  <2>2. s \in Active <=> ~Contains(queue, s)
    BY <1>2 DEF Active
  <2>. QED BY <2>1, <2>2, ActiveCount DEF Remaining
<1>6. FreeSlot(Remaining(s)) <=> ~LQ!Full(Cardinality(still))
  BY <1>1, <1>4, <1>5 DEF FreeSlot, LQ!Full
<1>7. left.in = IF stay # <<>> /\ ~LQ!Full(Cardinality(still)) THEN {Head(stay)} ELSE {}
  BY <1>3, <1>6 DEF RemoveQueuedPlayer
<1>8. left.rest = IF left.in # {} THEN Tail(stay) ELSE stay
  BY <1>3, <1>6, <1>7 DEF RemoveQueuedPlayer
<1>9. /\ left.rest \in Seq(Session)
      /\ left.in \subseteq ToSet(queue) \ {s}
      /\ ToSet(left.rest) = (ToSet(queue) \ {s}) \ left.in
  BY <1>1, RemovalFromQueue
<1>. QED BY <1>4, <1>5, <1>7, <1>8, <1>9

\* In a full world each departure lets one in: it stays full.
LEMMA RemovalKeepsFull ==
    ASSUME Inv, IsFiniteSet(Live), NEW s \in Live, queue # <<>>,
           limit > 0, Cardinality(Active) >= limit
    PROVE  LET in == (Active \ {s}) \cup RemoveQueuedPlayer(s).in
           IN  IsFiniteSet(in) /\ Cardinality(in) >= limit
<1>. DEFINE still == Active \ {s}
            stay == LQ!Without(s)
            in == RemoveQueuedPlayer(s).in
<1>1. /\ IsFiniteSet(still) /\ Cardinality(still) \in Nat
      /\ in = IF stay # <<>> /\ ~LQ!Full(Cardinality(still)) THEN {Head(stay)} ELSE {}
      /\ in \subseteq ToSet(queue) \ {s} /\ limit \in Int
  BY RemovalIsDeparture DEF Inv, TypeOK, WorldTypes
<1>2. /\ IsFiniteSet(Active) /\ Cardinality(Active) \in Nat
      /\ Cardinality(still) = IF s \in Active THEN Cardinality(Active) - 1 ELSE Cardinality(Active)
  BY ActiveCount, FS_RemoveElement
<1>3. stay = <<>> => s \notin Active
  <2>1. s \notin LQ!Range(queue) => stay # <<>>
    BY DEF LQ!Without
  <2>. QED BY <2>1, SameRange DEF Active
<1>. HIDE DEF stay, in
<1>4. CASE in = {}
  <2>1. still \cup in = still
    BY <1>4
  <2>2. Cardinality(still) >= limit
    BY <1>1, <1>2, <1>3, <1>4 DEF LQ!Full
  <2>. QED BY <1>1, <2>1, <2>2 DEF in
<1>5. CASE in # {}
  <2>1. PICK h : in = {h} /\ h \notin still
    <3>1. PICK h : in = {h}
      BY <1>1, <1>5
    <3>2. h \notin Active
      BY <1>1, <3>1 DEF Active
    <3>. QED BY <3>1, <3>2
  <2>2. IsFiniteSet(still \cup {h}) /\ Cardinality(still \cup {h}) = Cardinality(still) + 1
    BY <1>1, <2>1, FS_AddElement
  <2>3. Cardinality(still) + 1 >= limit
    BY <1>1, <1>2
  <2>. QED BY <2>1, <2>2, <2>3 DEF in
<1>. QED BY <1>4, <1>5

\* The ordinary players let in by a step fit in the world, or there is no limit.
Fits(in) == \E all : IsFiniteSet(all) /\ Cardinality(all) <= limit /\ in \subseteq all
NoOverfill ==
    limit > 0 => (Active' \cap Ordinary) \subseteq Active \/ Fits(Active' \cap Ordinary)

\* The first session waiting is let in only where there is room for it.
LEMMA FirstFits ==
    ASSUME Inv, IsFiniteSet(Live), NEW s \in Live, limit > 0,
           RemoveQueuedPlayer(s).in # {}
    PROVE  Fits((Active \ {s}) \cup RemoveQueuedPlayer(s).in)
<1>. DEFINE still == Active \ {s}
<1>1. /\ IsFiniteSet(still) /\ Cardinality(still) \in Nat /\ ~LQ!Full(Cardinality(still))
      /\ limit \in Int
  BY RemovalIsDeparture DEF Inv, TypeOK, WorldTypes
<1>2. PICK h : RemoveQueuedPlayer(s).in = {h}
  BY RemovalIsDeparture
<1>3. IsFiniteSet(still \cup {h}) /\ Cardinality(still \cup {h}) <= Cardinality(still) + 1
  <2>1. /\ IsFiniteSet(still \cup {h})
        /\ Cardinality(still \cup {h})
             = IF h \in still THEN Cardinality(still) ELSE Cardinality(still) + 1
    BY <1>1, FS_AddElement
  <2>. QED BY <1>1, <2>1
<1>4. Cardinality(still \cup {h}) \in Nat
  BY <1>3, FS_CardinalityType
<1>5. Cardinality(still \cup {h}) <= limit
  BY <1>1, <1>3, <1>4 DEF LQ!Full
<1>. QED BY <1>2, <1>3, <1>5 DEF Fits

\* A closed session leaves the abstract queue.
LEMMA RemoveClosedLeaves ==
    ASSUME Inv, IsFiniteSet(Live), NEW s \in Live, RemoveClosed(s), limit' = limit,
           NobodyWaitsInVain
    PROVE  /\ LQ!Step /\ Live' = Live \ {s}
           /\ NoOverfill /\ NobodyWaitsInVain'
<1>. DEFINE left == RemoveQueuedPlayer(s)
<1>1. queue' = left.rest /\ place' = [place EXCEPT ![s] = "dead"]
  BY DEF RemoveClosed
<1>2. s \in Session /\ ToSet(queue) \subseteq Live /\ place \in [Session -> {"none", "built", "adding", "live", "dead"}]
  BY DEF Live, Inv, ListsConsistent, QueueConsistent, TypeOK, ObjectTypes
<1>3. Live' = Live \ {s}
  BY <1>1, <1>2 DEF Live
<1>4. /\ left.in \subseteq ToSet(queue) \ {s}
      /\ ToSet(left.rest) = (ToSet(queue) \ {s}) \ left.in
  BY RemovalIsDeparture
<1>. HIDE DEF left
<1>5. Active' = (Active \ {s}) \cup left.in
  BY <1>1, <1>2, <1>3, <1>4 DEF Active
<1>6. LQ!Depart(s, {})
  BY <1>1, <1>5, RemovalIsDeparture, SameCardinality DEF LQ!Depart, left
<1>7. s \in Active \cup LQ!Range(queue)
  BY SameRange DEF Active
<1>8. LQ!Step
  BY <1>6, <1>7 DEF LQ!Step, LQ!Leave
<1>9. NoOverfill
  BY <1>5, FirstFits DEF NoOverfill, Fits, left
<1>10. NobodyWaitsInVain'
  <2>1. SUFFICES ASSUME queue' # <<>>, ~raised'
                 PROVE  limit > 0 /\ Cardinality(Active') >= limit
    BY DEF NobodyWaitsInVain
  <2>2. queue # <<>> /\ ~raised
    <3>1. left.rest # <<>> /\ ~raised
      BY <1>1, <2>1 DEF RemoveClosed, left
    <3>2. left.rest \in Seq(Session)
      BY RemovalIsDeparture DEF left
    <3>3. left.rest[1] \in ToSet(queue)
      <4>1. 1 \in DOMAIN left.rest
        BY <3>1, <3>2
      <4>. QED BY <4>1, <1>4 DEF ToSet
    <3>. QED BY <3>1, <3>3 DEF ToSet
  <2>3. limit > 0 /\ Cardinality(Active) >= limit
    BY <2>2 DEF NobodyWaitsInVain
  <2>. QED BY <2>2, <2>3, <1>5, RemovalKeepsFull DEF left
<1>. QED BY <1>3, <1>8, <1>9, <1>10

\* A newcomer arrives in the abstract queue, alone or in place of a session of its account.
LEMMA AcceptSessionArrives ==
    ASSUME SessionConstants, Inv, IsFiniteSet(Live), addSessQueue # <<>>,
           addSessQueue' = Tail(addSessQueue), AcceptSession(Head(addSessQueue)),
           limit' = limit, NobodyWaitsInVain
    PROVE  /\ LQ!Step /\ Live' \subseteq Live \cup {Head(addSessQueue)}
           /\ Tolerance = 0 => NoOverfill
           /\ NobodyWaitsInVain'
<1>. DEFINE s == Head(addSessQueue)
            a == AccountOf[s]
            g == sessions[a]
            gone == {g} \ {NoSession}
            left == IF gone = {} THEN [rest |-> queue, in |-> {}] ELSE RemoveQueuedPlayer(g)
            n == Cardinality((Live \ gone) \cup {s}) - (IF Contains(queue, g) THEN 0 ELSE 1)
            wait == MustWait(s, n)
            still == Active \ {g}
            before == Cardinality(still) + Len(queue)
<1>1. /\ ListTypes /\ ListsConsistent /\ limit \in Int
      /\ queue \in Seq(Session) /\ ToSet(queue) \subseteq Live
  BY DEF Inv, TypeOK, ListTypes, WorldTypes, ListsConsistent, QueueConsistent
<1>2. s \in Session /\ place[s] = "adding" /\ a \in Account /\ NoSession \notin Session
  BY <1>1, HeadAdded DEF SessionConstants
<1>3. /\ queue' = IF wait THEN Append(left.rest, s) ELSE left.rest
      /\ place' = [t \in Session |-> IF t = s THEN "live"
                                     ELSE IF t \in gone THEN "dead" ELSE place[t]]
  BY DEF AcceptSession
<1>4. g \in Session \cup {NoSession} /\ (g # NoSession => g \in Live)
  BY <1>1, <1>2, MappedLive DEF ListTypes, Live
<1>5. s \notin Live /\ s \notin Active /\ s \notin ToSet(queue) /\ NoSession \notin Live
  BY <1>1, <1>2 DEF Live, Active
<1>6. Live' = (Live \ gone) \cup {s}
  BY <1>2, <1>3, <1>4, <1>5 DEF Live
<1>7. Contains(queue, g) <=> g \in ToSet(queue)
  BY ContainsIsMember
<1>. HIDE DEF s, a
\* Sessions are counted by AddSession_() as the abstract queue counts them.
<1>8. IsFiniteSet(still) /\ Cardinality(still) \in Nat /\ before \in Nat /\ n = before
  <2>1. /\ IsFiniteSet(still)
        /\ Cardinality(still) = IF g \in Active THEN Cardinality(Active) - 1 ELSE Cardinality(Active)
    BY ActiveCount, FS_RemoveElement
  <2>2. Cardinality(still) \in Nat /\ Len(queue) \in Nat
    BY <2>1, <1>1, FS_CardinalityType
  <2>3. Live \ gone = Live \ {g}
    BY <1>5
  <2>4. /\ IsFiniteSet(Live \ {g})
        /\ Cardinality(Live \ {g}) = IF g \in Live THEN Cardinality(Live) - 1 ELSE Cardinality(Live)
    BY FS_RemoveElement
  <2>5. Cardinality((Live \ {g}) \cup {s}) = Cardinality(Live \ {g}) + 1
    BY <2>4, <1>5, FS_AddElement
  <2>6. Cardinality((Live \ gone) \cup {s}) = Cardinality(Live \ {g}) + 1
    BY <2>3, <2>5
  <2>7. /\ Cardinality(Live) = Cardinality(Active) + Len(queue)
        /\ Cardinality(Active) \in Nat
    BY ActiveCount
  <2>8. CASE g \in Live
    <3>1. g \in Active <=> ~Contains(queue, g)
      BY <1>7, <2>8 DEF Active
    <3>. QED BY <2>1, <2>2, <2>4, <2>6, <2>7, <2>8, <3>1
  <2>9. CASE g \notin Live
    <3>1. g \notin Active /\ ~Contains(queue, g)
      BY <1>1, <1>7, <2>9 DEF Active
    <3>. QED BY <2>1, <2>2, <2>4, <2>6, <2>7, <2>9, <3>1
  <2>. QED BY <2>8, <2>9
<1>9. IF wait THEN LQ!MustWait(s, before) ELSE LQ!MayPlay(s, before)
  <2>1. wait => s \notin Entitled /\ LQ!Full(before)
    BY <1>8 DEF MustWait, LQ!Full, Entitled
  <2>2. ~wait /\ s \notin Entitled => ~LQ!Full(before)
    BY <1>1, <1>2, <1>8 DEF MustWait, LQ!Full, Entitled
  <2>3. queue # <<>> /\ ~raised => LQ!Full(before)
    <3>1. SUFFICES ASSUME queue # <<>>, ~raised PROVE limit > 0 /\ before >= limit
      BY DEF LQ!Full
    <3>2. limit > 0 /\ Cardinality(Active) >= limit
      BY <3>1 DEF NobodyWaitsInVain
    <3>3. Len(queue) \in Nat \ {0}
      BY <1>1, <3>1
    <3>4. /\ Cardinality(Active) \in Nat
          /\ Cardinality(still) = IF g \in Active THEN Cardinality(Active) - 1 ELSE Cardinality(Active)
      BY ActiveCount, FS_RemoveElement
    <3>. QED BY <1>1, <1>8, <3>2, <3>3, <3>4
  <2>. QED BY <2>1, <2>2, <2>3 DEF LQ!MustWait, LQ!MayPlay
<1>10. Tolerance = 0 /\ ~wait /\ s \in Ordinary /\ limit > 0 => before < limit
  BY <1>1, <1>8 DEF MustWait, HasRecentlyDisconnected, Ordinary
<1>. HIDE DEF wait, n
<1>11. /\ left.rest \in Seq(Session) /\ left.in \subseteq ToSet(queue) \ {g}
       /\ ToSet(left.rest) = (ToSet(queue) \ {g}) \ left.in
  <2>1. CASE gone = {}
    BY <2>1, <1>1, <1>4, <1>5
  <2>2. CASE gone # {}
    BY <2>2, <1>4, RemovalIsDeparture
  <2>. QED BY <2>1, <2>2
<1>12. Active' = still \cup left.in \cup (IF wait THEN {} ELSE {s})
  <2>1. Live' = (Live \ {g}) \cup {s}
    BY <1>5, <1>6
  <2>2. ToSet(queue') = ToSet(left.rest) \cup (IF wait THEN {s} ELSE {})
    <3>1. ToSet(Append(left.rest, s)) = ToSet(left.rest) \cup {s}
      BY <1>2, <1>11, AppendSet
    <3>. QED BY <1>3, <3>1
  <2>3. Active' = Live' \ ToSet(queue')
    BY DEF Active
  <2>. QED BY <2>1, <2>2, <2>3, <1>1, <1>5, <1>11 DEF Active
<1>13. LQ!Step
  <2>1. s \in Session \ (Active \cup LQ!Range(queue))
    BY <1>2, <1>5, SameRange
  <2>2. CASE gone = {}
    <3>1. still = Active /\ left.in = {} /\ left.rest = queue
      BY <2>2, <1>4, <1>5 DEF Active
    <3>2. LQ!Arrive(s)
      BY <3>1, <1>3, <1>9, <1>12, SameCardinality DEF LQ!Arrive
    <3>. QED BY <2>1, <3>2 DEF LQ!Step
  <2>3. CASE gone # {}
    <3>1. g \in Live /\ left = RemoveQueuedPlayer(g)
      BY <2>3, <1>4
    <3>2. g \in Active \cup LQ!Range(queue)
      BY <3>1, SameRange DEF Active
    <3>3. /\ left.in = IF LQ!Without(g) # <<>> /\ ~LQ!Full(Cardinality(still))
                       THEN {Head(LQ!Without(g))} ELSE {}
          /\ left.rest = IF left.in # {} THEN Tail(LQ!Without(g)) ELSE LQ!Without(g)
      BY <3>1, RemovalIsDeparture
    <3>. HIDE DEF left, g, gone
    <3>4. LQ!Depart(g, {s})
      BY <3>3, <1>3, <1>9, <1>12, SameCardinality DEF LQ!Depart
    <3>. QED BY <2>1, <3>2, <3>4 DEF LQ!Step, LQ!Replace
  <2>. QED BY <2>2, <2>3
<1>14. ASSUME Tolerance = 0, limit > 0
       PROVE  (Active' \cap Ordinary) \subseteq Active \/ Fits(Active' \cap Ordinary)
  <2>1. CASE ~wait /\ s \in Ordinary
    <3>1. before < limit
      BY <1>10, <1>14, <2>1
    <3>2. PICK more : /\ left.in = more
                      /\ IsFiniteSet(more) /\ Cardinality(more) \in Nat
                      /\ Cardinality(more) <= Len(queue)
      <4>1. IsFiniteSet(ToSet(queue)) /\ Cardinality(ToSet(queue)) = Len(queue)
        BY LenIsCardinality, <1>1 DEF ListsConsistent, QueueConsistent
      <4>2. left.in \in SUBSET ToSet(queue)
        BY <1>11
      <4>3. IsFiniteSet(left.in) /\ Cardinality(left.in) <= Len(queue)
        BY <4>1, <4>2, FS_Subset
      <4>. QED BY <4>3, FS_CardinalityType
    <3>3. /\ IsFiniteSet(still \cup more) /\ Cardinality(still \cup more) \in Nat
          /\ Cardinality(still \cup more) <= Cardinality(still) + Cardinality(more)
      <4>1. /\ IsFiniteSet(still \cup more)
            /\ Cardinality(still \cup more)
                 = Cardinality(still) + Cardinality(more) - Cardinality(still \cap more)
        BY <1>8, <3>2, FS_Union
      <4>2. IsFiniteSet(still \cap more)
        BY <3>2, FS_Subset
      <4>3. Cardinality(still \cap more) \in Nat /\ Cardinality(still \cup more) \in Nat
        BY <4>1, <4>2, FS_CardinalityType
      <4>. QED BY <1>8, <3>2, <4>1, <4>3
    <3>4. /\ IsFiniteSet(still \cup more \cup {s})
          /\ Cardinality(still \cup more \cup {s}) <= Cardinality(still \cup more) + 1
      <4>1. /\ IsFiniteSet(still \cup more \cup {s})
            /\ Cardinality(still \cup more \cup {s})
                 = IF s \in still \cup more THEN Cardinality(still \cup more)
                   ELSE Cardinality(still \cup more) + 1
        BY <3>3, FS_AddElement
      <4>. QED BY <3>3, <4>1
    <3>5. Cardinality(still \cup more \cup {s}) \in Nat /\ Len(queue) \in Nat
      BY <3>4, <1>1, FS_CardinalityType
    <3>6. Cardinality(still \cup more \cup {s}) <= limit
      BY <1>1, <1>8, <3>1, <3>2, <3>3, <3>4, <3>5
    <3>7. Active' \cap Ordinary \subseteq still \cup more \cup {s}
      BY <1>12, <3>2
    <3>. QED BY <3>4, <3>6, <3>7 DEF Fits
  <2>2. CASE wait \/ s \notin Ordinary
    <3>1. Active' \cap Ordinary \subseteq still \cup left.in
      BY <1>12, <2>2
    <3>2. CASE left.in = {}
      BY <3>1, <3>2
    <3>3. CASE left.in # {}
      <4>1. g \in Live /\ left.in = RemoveQueuedPlayer(g).in
        BY <3>3, <1>4
      <4>2. Fits(still \cup left.in)
        BY <3>3, <4>1, <1>14, FirstFits
      <4>. QED BY <3>1, <4>2 DEF Fits
    <3>. QED BY <3>2, <3>3
  <2>. QED BY <2>1, <2>2
<1>15. Live' \subseteq Live \cup {Head(addSessQueue)}
  BY <1>6 DEF s
\* A full world stays full.
<1>16. ASSUME queue' # <<>>, ~raised' PROVE limit > 0 /\ Cardinality(Active') >= limit
  <2>1. ~raised
    BY <1>16 DEF AcceptSession
  <2>2. still \subseteq Active' /\ still \cup left.in \subseteq Active'
    BY <1>12
  <2>3. IsFiniteSet(Active')
    <3>1. IsFiniteSet(Live')
      BY <1>15, FS_AddElement, FS_Subset
    <3>. QED BY <3>1, FS_Subset DEF Active
  <2>4. Cardinality(Active') \in Nat
    BY <2>3, FS_CardinalityType
  <2>5. CASE queue = <<>>
    <3>1. wait
      <4>1. \A x : x \notin ToSet(left.rest)
        <5>1. \A x : x \notin ToSet(queue)
          BY <2>5 DEF ToSet
        <5>. QED BY <1>11, <5>1
      <4>2. left.rest = <<>>
        <5>1. SUFFICES ASSUME left.rest # <<>> PROVE left.rest[1] \in ToSet(left.rest)
          BY <4>1
        <5>2. 1 \in DOMAIN left.rest
          BY <1>11, <5>1
        <5>. QED BY <5>2 DEF ToSet
      <4>. QED BY <1>3, <1>16, <4>2
    <3>2. limit > 0 /\ before >= limit /\ before = Cardinality(still)
      BY <1>8, <1>9, <2>5, <3>1 DEF LQ!MustWait, LQ!Full
    <3>3. Cardinality(still) <= Cardinality(Active')
      BY <2>2, <2>3, FS_Subset
    <3>. QED BY <1>1, <1>8, <2>4, <3>2, <3>3
  <2>6. CASE queue # <<>>
    <3>1. limit > 0 /\ Cardinality(Active) >= limit
      BY <2>1, <2>6 DEF NobodyWaitsInVain
    <3>2. Cardinality(still \cup left.in) >= limit
      <4>1. CASE gone = {}
        <5>1. still \cup left.in = Active
          BY <4>1, <1>4, <1>5 DEF Active
        <5>. QED BY <3>1, <5>1
      <4>2. CASE gone # {}
        <5>1. g \in Live /\ left = RemoveQueuedPlayer(g)
          BY <4>2, <1>4
        <5>. QED BY <2>6, <3>1, <5>1, RemovalKeepsFull
      <4>. QED BY <4>1, <4>2
    <3>3. /\ Cardinality(still \cup left.in) <= Cardinality(Active')
          /\ Cardinality(still \cup left.in) \in Nat
      BY <2>2, <2>3, FS_Subset, FS_CardinalityType
    <3>. QED BY <1>1, <2>4, <3>1, <3>2, <3>3
  <2>. QED BY <2>5, <2>6
<1>17. NobodyWaitsInVain'
  BY <1>16 DEF NobodyWaitsInVain
<1>. QED BY <1>13, <1>14, <1>15, <1>17 DEF NoOverfill

\* The other steps neither let anybody in nor change the queue.
LEMMA QueueUntouched ==
    ASSUME SessionConstants, Inv, [Next]_vars, ~AddSession_, ~KickAll,
           ~(EndUpdate /\ RemoveClosed(cur))
    PROVE  /\ Live' = Live /\ queue' = queue /\ limit' \in Int
           /\ \/ limit' = limit /\ raised' = raised
              \/ HandleServerPLimitCommand
<1>1. /\ ObjectTypes /\ limit \in Int
  BY DEF Inv, TypeOK, WorldTypes
<1>2. ASSUME NEW s \in Session, Network(s) PROVE Live' = Live /\ queue' = queue /\ limit' = limit /\ raised' = raised
  <2>1. queue' = queue /\ limit' = limit /\ raised' = raised
    BY <1>2 DEF Network, HandleAuthSession, AddSession, Receive, Disconnect, lists, limits
  <2>2. \/ place' = place
        \/ /\ place[s] \in {"none", "built"}
           /\ \E p \in {"built", "adding"} : place' = [place EXCEPT ![s] = p]
    BY <1>2 DEF Network, HandleAuthSession, AddSession, Receive, Disconnect, objects
  <2>3. \A t \in Session : place'[t] = "live" <=> place[t] = "live"
    BY <1>1, <2>2 DEF ObjectTypes
  <2>. QED BY <2>1, <2>3 DEF Live
<1>3. CASE ProcessCliCommands
  <2>1. /\ place' = place /\ queue' = queue
        /\ (limit' = limit /\ raised' = raised) \/ HandleServerPLimitCommand
    BY <1>3 DEF ProcessCliCommands, KickPlayer, limits
  <2>2. limit' \in Int
    BY <1>1, <1>3 DEF ProcessCliCommands, HandleServerPLimitCommand, KickPlayer, limits,
                      SessionConstants
  <2>. QED BY <2>1, <2>2 DEF Live
<1>4. CASE EndUpdate /\ UNCHANGED <<place, queue, raised>>
  BY <1>1, <1>4 DEF EndUpdate, limits, Live
<1>5. CASE UNCHANGED <<place, queue, limit, raised>>
  BY <1>1, <1>5 DEF Live
<1>6. CASE World
  <2>1. CASE EndUpdate
    BY <1>4, <2>1 DEF EndUpdate
  <2>. QED BY <1>3, <1>5, <1>6, <2>1 DEF World, StartUpdates, BeginUpdate, HandlePacket, EndUpdates,
         HandlePlayerLoginCallback, EndResults, NextTick, objects, lists, limits
<1>7. CASE AnswerLogin \/ Tick \/ StopNow \/ UNCHANGED vars
  BY <1>5, <1>7 DEF AnswerLogin, Tick, StopNow, vars, objects, lists, limits
<1>. QED BY <1>1, <1>2, <1>6, <1>7 DEF Next, Terminated

\* Every step of the session map is a step of the abstract queue, or none; and lets
\* in no more ordinary players than fit.
LEMMA QueueStep ==
    ASSUME SessionConstants, Inv, IsFiniteSet(Live), NobodyWaitsInVain, [Next]_vars
    PROVE  /\ LQ!Next /\ IsFiniteSet(Live') /\ NobodyWaitsInVain'
           /\ Tolerance = 0 /\ ~Halting' =>
                (limit' = limit /\ NoOverfill) \/ Active' \subseteq Active
<1>1. /\ queue \in Seq(Session) /\ ToSet(queue) \subseteq Live
      /\ cur # NoSession => cur \in Live
      /\ limit \in Int
  BY DEF Inv, TypeOK, ListTypes, WorldTypes, ListsConsistent, QueueConsistent, MapConsistent, Live
<1>9. Entitled' \subseteq Session
  BY DEF Entitled
<1>2. CASE AddSession_ /\ RefuseSession(Head(addSessQueue))
  <2>1. /\ place' = [place EXCEPT ![Head(addSessQueue)] = "dead"]
        /\ queue' = queue /\ limit' = limit /\ raised' = raised
    BY <1>2 DEF AddSession_, RefuseSession, limits
  <2>2. Head(addSessQueue) \in Session /\ place[Head(addSessQueue)] = "adding"
    BY <1>2, HeadAdded DEF AddSession_, Inv, TypeOK
  <2>3. Live' = Live
    BY <2>1, <2>2 DEF Live, Inv, TypeOK, ObjectTypes
  <2>4. Active' = Active
    BY <2>1, <2>3 DEF Active
  <2>5. raised' = raised /\ NobodyWaitsInVain'
    BY <2>1, <2>4 DEF NobodyWaitsInVain
  <2>. QED BY <1>9, <2>1, <2>3, <2>4, <2>5 DEF LQ!Next
<1>3. CASE AddSession_ /\ AcceptSession(Head(addSessQueue))
  <2>1. /\ addSessQueue # <<>> /\ addSessQueue' = Tail(addSessQueue) /\ limit' = limit
        /\ raised' = (raised /\ queue' # <<>>)
    BY <1>3 DEF AddSession_, AcceptSession, limits
  <2>2. /\ LQ!Step /\ Live' \subseteq Live \cup {Head(addSessQueue)}
        /\ Tolerance = 0 => NoOverfill
        /\ NobodyWaitsInVain'
    BY <1>3, <2>1, AcceptSessionArrives
  <2>3. IsFiniteSet(Live')
    BY <2>2, FS_AddElement, FS_Subset
  <2>. QED BY <1>9, <2>1, <2>2, <2>3 DEF LQ!Next
<1>4. CASE EndUpdate /\ RemoveClosed(cur)
  <2>1. cur \in Live /\ limit' = limit /\ raised' = (raised /\ queue' # <<>>)
    BY <1>1, <1>4 DEF EndUpdate, limits, RemoveClosed
  <2>2. LQ!Step /\ Live' = Live \ {cur} /\ NoOverfill /\ NobodyWaitsInVain'
    BY <1>4, <2>1, RemoveClosedLeaves
  <2>3. IsFiniteSet(Live')
    BY <2>2, FS_RemoveElement
  <2>. QED BY <1>9, <2>1, <2>2, <2>3 DEF LQ!Next
<1>5. CASE KickAll
  <2>1. /\ place' = place /\ queue' = <<>> /\ limit' = limit /\ Halting'
        /\ raised' = (raised /\ queue' # <<>>)
    BY <1>5 DEF KickAll, AfterKickAll, limits, Halting
  <2>2. Live' = Live
    BY <2>1 DEF Live
  <2>3. Active' = Active \cup LQ!Range(queue)
    BY <1>1, <2>1, <2>2, SameRange DEF Active, ToSet
  <2>. QED BY <1>9, <2>1, <2>2, <2>3 DEF LQ!Next, LQ!Step, LQ!GiveUp, NobodyWaitsInVain
<1>6. CASE ~AddSession_ /\ ~KickAll /\ ~(EndUpdate /\ RemoveClosed(cur))
  <2>1. /\ Live' = Live /\ queue' = queue /\ limit' \in Int
        /\ (limit' = limit /\ raised' = raised) \/ HandleServerPLimitCommand
    BY <1>6, QueueUntouched
  <2>2. Active' = Active
    BY <2>1 DEF Active
  <2>3. CASE limit' = limit /\ raised' = raised
    <3>1. NobodyWaitsInVain'
      BY <2>1, <2>2, <2>3 DEF NobodyWaitsInVain
    <3>. QED BY <1>9, <2>1, <2>2, <2>3, <3>1 DEF LQ!Next
  <2>4. CASE HandleServerPLimitCommand
    <3>1. raised' = (raised \/ (queue # <<>> /\ limit' # limit /\ (limit' > limit \/ limit' <= 0)))
      BY <2>4 DEF HandleServerPLimitCommand
    <3>2. LQ!SetLimit
      BY <2>1, <2>2, <3>1 DEF LQ!SetLimit
    <3>3. NobodyWaitsInVain'
      <4>1. SUFFICES ASSUME queue # <<>>, ~raised'
                     PROVE  limit' > 0 /\ Cardinality(Active) >= limit'
        BY <2>1, <2>2 DEF NobodyWaitsInVain
      <4>2. ~raised /\ (limit' = limit \/ ~(limit' > limit \/ limit' <= 0))
        BY <3>1, <4>1
      <4>3. limit > 0 /\ Cardinality(Active) >= limit /\ Cardinality(Active) \in Nat
        BY <4>1, <4>2, ActiveCount DEF NobodyWaitsInVain
      <4>. QED BY <1>1, <2>1, <4>2, <4>3
    <3>. QED BY <1>9, <2>1, <2>2, <3>2, <3>3 DEF LQ!Next
  <2>. QED BY <2>1, <2>3, <2>4
<1>. QED BY <1>2, <1>3, <1>4, <1>5, <1>6 DEF AddSession_

\* Only finitely many sessions are in the map, and can be counted.
LiveFinite == IsFiniteSet(Live)

LEMMA QueueInv == Spec => [](Inv /\ LiveFinite /\ NobodyWaitsInVain)
<1>1. Init => LiveFinite /\ NobodyWaitsInVain
  <2>1. Init => Live = {}
    BY DEF Init, Live
  <2>. QED BY <2>1, FS_EmptySet DEF LiveFinite, NobodyWaitsInVain, Init
<1>2. Inv /\ LiveFinite /\ NobodyWaitsInVain /\ [Next]_vars => LiveFinite' /\ NobodyWaitsInVain'
  BY QueueStep, SessionConstants DEF LiveFinite
<1>. QED BY <1>1, <1>2, InvHolds, PTL DEF Spec

\* Nobody waits beside a free slot that a session has left, however sessions come, are
\* replaced and go; only a raise of the limit leaves slots free.
THEOREM NobodyEverWaitsInVain == Spec => []NobodyWaitsInVain
  BY QueueInv, PTL

\* The session map, its queue and the player limit implement the first-come
\* first-served queue, whichever of arrival, reconnection, departure, giving up and
\* shutdown frees a slot, and however the console moves the limit: while some wait, a
\* newcomer gets in only if it is entitled to or if the limit was raised meanwhile.
THEOREM FirstComeFirstServedAlways == Spec => FirstComeFirstServed
<1>1. Init => LQ!Init
  <2>. SUFFICES ASSUME Init PROVE LQ!Init
    OBVIOUS
  <2>1. Live = {} /\ queue = <<>> /\ limit \in Int /\ ~raised /\ Entitled \subseteq Session
    BY SessionConstants DEF Init, Live, Entitled
  <2>. QED BY <2>1 DEF LQ!Init, Active
<1>2. Inv /\ LiveFinite /\ NobodyWaitsInVain /\ [Next]_vars => [LQ!Next]_(LQ!vars)
  BY QueueStep, SessionConstants DEF LiveFinite
<1>. QED BY <1>1, <1>2, QueueInv, PTL DEF Spec, FirstComeFirstServed, LQ!Spec

\* Without a reconnect tolerance, no ordinary player is let in beyond the player limit,
\* though AddSession_() and RemoveQueuedPlayer() count at different moments.
THEOREM LimitAlwaysRespected == ASSUME Tolerance = 0 PROVE Spec => LimitRespected
<1>1. ASSUME Inv, LiveFinite, NobodyWaitsInVain, [Next]_vars, ~Halting', limit' > 0,
             Cardinality(Active' \cap Ordinary) > limit'
      PROVE  (Active' \cap Ordinary) \subseteq Active
  <2>1. (limit' = limit /\ NoOverfill) \/ Active' \subseteq Active
    BY <1>1, QueueStep, SessionConstants DEF LiveFinite
  <2>2. CASE limit' = limit /\ NoOverfill
    <3>. SUFFICES ASSUME Fits(Active' \cap Ordinary) PROVE FALSE
      BY <1>1, <2>2 DEF NoOverfill
    <3>1. PICK all : IsFiniteSet(all) /\ Cardinality(all) <= limit /\ Active' \cap Ordinary \subseteq all
      BY DEF Fits
    <3>2. /\ IsFiniteSet(Active' \cap Ordinary)
          /\ Cardinality(Active' \cap Ordinary) <= Cardinality(all)
      BY <3>1, FS_Subset
    <3>3. Cardinality(all) \in Nat /\ Cardinality(Active' \cap Ordinary) \in Nat /\ limit \in Int
      BY <3>1, <3>2, FS_CardinalityType, <1>1 DEF Inv, TypeOK, WorldTypes
    <3>. QED BY <1>1, <2>2, <3>1, <3>2, <3>3
  <2>. QED BY <2>1, <2>2
<1>2. Inv /\ LiveFinite /\ NobodyWaitsInVain /\ [Next]_vars =>
        [~Halting' /\ limit' > 0 /\ Cardinality(Active' \cap Ordinary) > limit' =>
            (Active' \cap Ordinary) \subseteq Active]_vars
  BY <1>1
<1>. QED BY <1>2, QueueInv, PTL DEF Spec, LimitRespected
=============================================================================
