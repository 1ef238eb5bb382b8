--------------------------- MODULE WorldSessions ---------------------------
(***************************************************************************)
(* World's session map, its login queue and the life of a WorldSession:    *)
(* built by a network thread, handed over through addSessQueue, admitted   *)
(* or queued, updated once per world tick, logging a character in through  *)
(* an asynchronous query, and deleted by the world thread after its socket *)
(* was closed by either side.                                              *)
(*                                                                         *)
(* The world thread's tick (World::Update) is the program counter pc; the  *)
(* network threads and the database's delay thread interleave with it.     *)
(* Statistics (UpdateMaxSessionCounters, realmlist.population) and packets *)
(* sent to the client are left out.                                        *)
(***************************************************************************)
EXTENDS Integers, Sequences, FiniteSets, SequencesExt

CONSTANTS Session,        \* WorldSession objects, one per authenticated connection
          NoSession,
          Account,        \* account ids
          AccountOf,      \* the account of a session
          Security,       \* account.gmlevel
          RealmSecurity,  \* realmlist.allowedSecurityLevel
          InitLimit,      \* PlayerLimit of worldserver.conf
          PLimits,        \* changes of it by `server plimit`: pairs <<from, to>>
          Levels,         \* security levels given to `server plimit`
          Tolerance,      \* DisconnectToleranceInterval
          TimeOut,        \* SocketTimeOutTime, in ticks
          Diffs,          \* ticks that may pass between two updates
          Packets,        \* packets that clients send
          MaxPackets,     \* bound: packets of each session
          MaxNow          \* bound: seconds on the clock

SEC_PLAYER == 0
Never == -1

ASSUME SessionConstants ==
    /\ NoSession \notin Session
    /\ Account \subseteq Nat
    /\ AccountOf \in [Session -> Account] /\ Security \in [Account -> Nat]
    /\ RealmSecurity \in Nat /\ Levels \subseteq Nat
    /\ InitLimit \in Int /\ PLimits \subseteq Int \X Int
    /\ Tolerance \in Nat /\ TimeOut \in Nat /\ Diffs \subseteq Nat
    /\ Packets \subseteq {"login", "logout", "cancel"}
    /\ MaxPackets \in Nat /\ MaxNow \in Nat

VARIABLES
    place,        \* where the object of a session is
    closed,       \* its socket's closing_
    recv,         \* _recvQueue
    sent,         \* packets its client has sent (bounded by MaxPackets)
    idle,         \* m_timeOutTime
    addSessQueue, \* sessions on the way from the network threads
    sessions,     \* m_sessions
    queue,        \* m_QueuedPlayer
    inQueue,      \* m_inQueue
    raised,       \* history: the limit was raised while sessions waited, and some still do
    limit,        \* m_playerLimit
    allowed,      \* m_allowedSecurityLevel
    disconnects,  \* m_disconnects
    now,          \* time(NULL)
    loading,      \* m_playerLoading
    player,       \* _player # NULL
    logout,       \* _logoutTime # 0
    strays,       \* players in the world that no session refers to any more
    holders,      \* login queries on the delay thread
    results,      \* their answers in m_resultQueue
    activeRealm,  \* account.active_realm_id # 0, as last written
    online,       \* characters.online of the account, as last written
    pc,           \* where the world thread is in its tick
    todo,         \* accounts UpdateSessions() has still to visit
    cur,          \* the session inside WorldSession::Update()
    diff,         \* the argument of this tick's Update()
    stop          \* World::m_stopEvent

objects == <<place, closed, recv, sent, idle>>
lists   == <<addSessQueue, sessions, queue, inQueue, raised>>
limits  == <<limit, allowed>>
clock   == <<disconnects, now>>
logins  == <<loading, player, logout, strays, holders, results>>
columns == <<activeRealm, online>>
tick    == <<pc, todo, cur, diff, stop>>
vars    == <<objects, lists, limits, clock, logins, columns, tick>>

Live == {s \in Session : place[s] = "live"}
Active == Live \ ToSet(queue)

Init ==
    /\ place = [s \in Session |-> "none"] /\ closed = [s \in Session |-> FALSE]
    /\ recv = [s \in Session |-> <<>>] /\ sent = [s \in Session |-> 0]
    /\ idle = [s \in Session |-> 0]
    /\ addSessQueue = <<>> /\ sessions = [a \in Account |-> NoSession]
    /\ queue = <<>> /\ inQueue = [s \in Session |-> FALSE] /\ raised = FALSE
    /\ limit = InitLimit /\ allowed = SEC_PLAYER
    /\ disconnects = [a \in Account |-> Never] /\ now = 0
    /\ loading = [s \in Session |-> FALSE] /\ player = [s \in Session |-> FALSE]
    /\ logout = [s \in Session |-> FALSE] /\ strays = [a \in Account |-> 0]
    /\ holders = <<>> /\ results = <<>>
    /\ activeRealm = [a \in Account |-> FALSE] /\ online = [a \in Account |-> FALSE]
    /\ pc = "add" /\ todo = {} /\ cur = NoSession /\ diff = 0 /\ stop = FALSE
-----------------------------------------------------------------------------
(* The network threads.                                                    *)

\* WorldSocket::HandleAuthSession(): the realm's security level is read from the
\* database, whatever the console set, and a session is built when it suffices.
\* The constructor marks the account online on this realm.
HandleAuthSession(s) ==
    /\ place[s] = "none" /\ pc # "halted"
    /\ allowed' = RealmSecurity
    /\ IF RealmSecurity > SEC_PLAYER /\ Security[AccountOf[s]] < RealmSecurity
       THEN UNCHANGED <<objects, activeRealm>>
       ELSE /\ place' = [place EXCEPT ![s] = "built"]
            /\ idle' = [idle EXCEPT ![s] = TimeOut]
            /\ activeRealm' = [activeRealm EXCEPT ![AccountOf[s]] = TRUE]
            /\ UNCHANGED <<closed, recv, sent>>
    /\ UNCHANGED <<lists, limit, clock, logins, online, tick>>

\* After SessionAddDelay the same thread hands the session to the world.
AddSession(s) ==
    /\ place[s] = "built" /\ pc # "halted"
    /\ place' = [place EXCEPT ![s] = "adding"]
    /\ addSessQueue' = Append(addSessQueue, s)
    /\ UNCHANGED <<closed, recv, sent, idle, sessions, queue, inQueue, raised, limits, clock,
                   logins, columns, tick>>

\* WorldSocket::ProcessIncoming() gives a packet to the session and restarts its
\* idle timer; CloseSocket() has detached a closed socket from its session.
Receive(s, p) ==
    /\ place[s] \in {"adding", "live"} /\ ~closed[s]
    /\ sent[s] < MaxPackets
    /\ sent' = [sent EXCEPT ![s] = @ + 1]
    /\ recv' = [recv EXCEPT ![s] = Append(@, p)]
    /\ idle' = [idle EXCEPT ![s] = TimeOut]
    /\ UNCHANGED <<place, closed, lists, limits, clock, logins, columns, tick>>

\* The client, or the network, closes the connection.
Disconnect(s) ==
    /\ place[s] \in {"adding", "live"} /\ ~closed[s]
    /\ closed' = [closed EXCEPT ![s] = TRUE]
    /\ UNCHANGED <<place, recv, sent, idle, lists, limits, clock, logins, columns, tick>>

Network(s) ==
    \/ HandleAuthSession(s) \/ AddSession(s) \/ Disconnect(s)
    \/ \E p \in Packets : Receive(s, p)

\* The clock (seconds count from the first disconnect: only the time since one is
\* read), and the operator who stops the server.
Tick == /\ now < MaxNow /\ (\E a \in Account : disconnects[a] # Never)
        /\ now' = now + 1
        /\ UNCHANGED <<objects, lists, limits, disconnects, logins, columns, tick>>

StopNow == /\ ~stop /\ stop' = TRUE
           /\ UNCHANGED <<objects, lists, limits, clock, logins, columns, pc, todo, cur, diff>>

\* The delay thread answers the login queries in the order they were asked.
AnswerLogin ==
    /\ holders # <<>>
    /\ results' = Append(results, Head(holders)) /\ holders' = Tail(holders)
    /\ UNCHANGED <<objects, lists, limits, clock, loading, player, logout, strays,
                   columns, tick>>
-----------------------------------------------------------------------------
(* Sessions and the login queue.                                           *)

\* The destructors of the sessions in `gone`: their sockets close, their players
\* are saved and leave the world, and both databases are told last.
Destruct(gone) ==
    /\ closed' = [s \in Session |-> closed[s] \/ s \in gone]
    /\ recv' = [s \in Session |-> IF s \in gone THEN <<>> ELSE recv[s]]
    /\ player' = [s \in Session |-> player[s] /\ s \notin gone]
    /\ logout' = [s \in Session |-> logout[s] /\ s \notin gone]
    /\ activeRealm' = [a \in Account |-> activeRealm[a] /\ \A s \in gone : AccountOf[s] # a]
    /\ online' = [a \in Account |-> online[a] /\ \A s \in gone : AccountOf[s] # a]

\* World::GetQueuePos(), for a session that is in the queue.
QueuePos(s) == CHOOSE i \in DOMAIN queue : queue[i] = s

\* What World::RemoveQueuedPlayer(s) leaves of the queue and whom it lets in.  The
\* comparison with m_playerLimit is unsigned: a negative limit admits everybody.
Skipped(s) == IF Contains(queue, s) THEN RemoveAt(queue, QueuePos(s)) ELSE queue
Remaining(s) == Cardinality(Live) - Len(queue) - (IF Contains(queue, s) THEN 0 ELSE 1)
\* Mutated: off by one, up and down.
FreeSlotOneLess(n) == limit <= 0 \/ n + 1 < limit
FreeSlotOneMore(n) == limit <= 0 \/ n <= limit
FreeSlot(n) == limit <= 0 \/ n < limit

\* Mutated: SetInQueue(false) is forgotten for the session let in.
RemoveQueuedPlayerKeepsFlag(s) ==
    [rest |-> IF FreeSlot(Remaining(s)) /\ Skipped(s) # <<>> THEN Tail(Skipped(s)) ELSE Skipped(s),
     in |-> {}]
\* Mutated: the session that came last is let in first.
RemoveQueuedPlayerLifo(s) ==
    IF FreeSlot(Remaining(s)) /\ Skipped(s) # <<>>
    THEN [rest |-> Front(Skipped(s)), in |-> {Last(Skipped(s))}]
    ELSE [rest |-> Skipped(s), in |-> {}]
RemoveQueuedPlayer(s) ==
    IF FreeSlot(Remaining(s)) /\ Skipped(s) # <<>>
    THEN [rest |-> Tail(Skipped(s)), in |-> {Head(Skipped(s))}]
    ELSE [rest |-> Skipped(s), in |-> {}]

\* World::HasRecentlyDisconnected().  difftime() takes the later time first, the
\* code passes the earlier one: the difference is never positive, so the branch
\* that drops old entries is never taken.
HasRecentlyDisconnected(s) ==
    LET at == disconnects[AccountOf[s]]
    IN  Tolerance > 0 /\ at # Never /\ at - now < Tolerance

\* World::AddSession_(): is the newcomer put in the queue?  `n` sessions are in
\* the map, the newcomer included.
MustWait(s, n) ==
    /\ limit > 0 /\ n >= limit /\ Security[AccountOf[s]] = SEC_PLAYER
    /\ ~HasRecentlyDisconnected(s)

\* The session of an account that is still loading its character keeps its place:
\* the newcomer is kicked and deleted.
RefuseSession(s) ==
    /\ place' = [place EXCEPT ![s] = "dead"]
    /\ Destruct({s})
    /\ UNCHANGED <<sessions, queue, inQueue, raised>>

\* Otherwise the newcomer takes the place of the account's old session, if any,
\* which is kicked, taken from the queue and deleted.
AcceptSession(s) ==
    LET a == AccountOf[s]
        gone == {sessions[a]} \ {NoSession}
        left == IF gone = {} THEN [rest |-> queue, in |-> {}]
                ELSE RemoveQueuedPlayer(sessions[a])
        n == Cardinality((Live \ gone) \cup {s})
             - (IF Contains(queue, sessions[a]) THEN 0 ELSE 1)
        wait == MustWait(s, n)
    IN  /\ sessions' = [sessions EXCEPT ![a] = s]
        /\ queue' = IF wait THEN Append(left.rest, s) ELSE left.rest
        /\ raised' = (raised /\ queue' # <<>>)
        /\ inQueue' = [t \in Session |-> IF t = s THEN wait
                                         ELSE inQueue[t] /\ t \notin left.in \cup gone]
        /\ place' = [t \in Session |-> IF t = s THEN "live"
                                       ELSE IF t \in gone THEN "dead" ELSE place[t]]
        /\ Destruct(gone)

\* World::RemoveSession() returns false for a session that is loading.
\* Mutated: PlayerLoading() is not asked.
IsLoadingIgnored(a) == FALSE
IsLoading(a) == sessions[a] # NoSession /\ loading[sessions[a]]

AddSession_ ==
    /\ pc \in {"add", "lastadd"} /\ addSessQueue # <<>>
    /\ addSessQueue' = Tail(addSessQueue)
    /\ LET s == Head(addSessQueue)
       IN  IF IsLoading(AccountOf[s]) THEN RefuseSession(s) ELSE AcceptSession(s)
    /\ UNCHANGED <<sent, idle, limits, clock, loading, strays, holders, results, tick>>
-----------------------------------------------------------------------------
(* World::UpdateSessions() and WorldSession::Update().                      *)

\* The queue of newcomers is empty: on to the sessions, in the order of the map.
StartUpdates ==
    /\ pc \in {"add", "lastadd"} /\ addSessQueue = <<>>
    /\ pc' = IF pc = "add" THEN "update" ELSE "lastupdate"
    /\ todo' = {a \in Account : sessions[a] # NoSession}
    /\ diff' \in Diffs
    /\ UNCHANGED <<objects, lists, limits, clock, logins, columns, cur, stop>>

\* WorldSession::UpdateTimeOutTime().
\* Mutated: the unsigned difference is not kept above zero.
ElapseUnchecked(t) == t - diff
Elapse(t) == IF diff > t THEN 0 ELSE t - diff

\* Update(), up to the packets: the idle timer runs for every session, and closes
\* the socket of those that are not waiting in the queue.
BeginUpdate ==
    /\ pc \in {"update", "lastupdate"} /\ cur = NoSession /\ todo # {}
    /\ \E a \in todo :
          /\ \A b \in todo : a <= b
          /\ todo' = todo \ {a} /\ cur' = sessions[a]
    /\ idle' = [idle EXCEPT ![cur'] = Elapse(@)]
    /\ closed' = [closed EXCEPT ![cur'] = @ \/ (Elapse(idle[cur']) = 0 /\ ~inQueue[cur'])]
    /\ UNCHANGED <<place, recv, sent, lists, limits, clock, logins, columns, pc, diff, stop>>

\* LogoutPlayer(true): the character is saved and leaves the world.
LogoutPlayer(s) ==
    /\ logout' = [logout EXCEPT ![s] = FALSE]
    /\ player' = [player EXCEPT ![s] = FALSE]
    /\ online' = [online EXCEPT ![AccountOf[s]] = @ /\ ~player[s]]

\* CMSG_PLAYER_LOGIN, dropped while the session waits in the queue.  A character
\* of another account (~owned) gets the client kicked, yet it is loaded as well;
\* `loads` is what LoadFromDB() will say of the answer.
HandlePlayerLoginOpcode(s) ==
    /\ UNCHANGED <<player, logout, online>>
    /\ IF inQueue[s] \/ loading[s] \/ player[s] THEN UNCHANGED <<closed, loading, holders>>
       ELSE /\ loading' = [loading EXCEPT ![s] = TRUE]
            /\ \E owned \in BOOLEAN, loads \in BOOLEAN :
                  /\ loads => owned
                  /\ closed' = [closed EXCEPT ![s] = @ \/ ~owned]
                  /\ holders' = Append(holders, [account |-> AccountOf[s], loads |-> loads])

\* CMSG_LOGOUT_REQUEST of a player in the world: refused in combat, immediate in a
\* tavern, else twenty seconds from now.
HandleLogoutRequestOpcode(s) ==
    /\ UNCHANGED <<closed, loading, holders>>
    /\ \/ ~player[s] /\ UNCHANGED <<player, logout, online>>
       \/ player[s] /\ LogoutPlayer(s)
       \/ /\ player[s] /\ \E timed \in BOOLEAN : logout' = [logout EXCEPT ![s] = timed]
          /\ UNCHANGED <<player, online>>

\* CMSG_LOGOUT_CANCEL.
HandleLogoutCancelOpcode(s) ==
    /\ logout' = [logout EXCEPT ![s] = @ /\ ~player[s]]
    /\ UNCHANGED <<closed, loading, holders, player, online>>

\* One packet of the receive queue, as long as the socket is open.
HandlePacket ==
    /\ cur # NoSession /\ ~closed[cur] /\ recv[cur] # <<>>
    /\ recv' = [recv EXCEPT ![cur] = Tail(@)]
    /\ CASE Head(recv[cur]) = "login"  -> HandlePlayerLoginOpcode(cur)
         [] Head(recv[cur]) = "logout" -> HandleLogoutRequestOpcode(cur)
         [] Head(recv[cur]) = "cancel" -> HandleLogoutCancelOpcode(cur)
    /\ UNCHANGED <<place, sent, idle, lists, limits, clock, strays, results, activeRealm, tick>>

\* Update() returned false: World::UpdateSessions() takes the session from the
\* queue or notes when it left, and deletes it.
RemoveClosed(s) ==
    LET left == RemoveQueuedPlayer(s)
    IN  /\ queue' = left.rest /\ raised' = (raised /\ left.rest # <<>>)
        /\ inQueue' = [t \in Session |-> inQueue[t] /\ t \notin left.in
                                         /\ (t = s => ~Contains(queue, s))]
        /\ disconnects' = IF ~Contains(queue, s) /\ Tolerance > 0
                          THEN [disconnects EXCEPT ![AccountOf[s]] = now] ELSE disconnects
        /\ sessions' = [sessions EXCEPT ![AccountOf[s]] = NoSession]
        /\ place' = [place EXCEPT ![s] = "dead"]
        /\ Destruct({s})

\* Mutated: a session with packets left is not removed.
GoneWhenDrained(s) == closed[s] /\ recv[s] = <<>>
Gone(s) == closed[s]

\* The rest of Update(), with the socket's state read once at its end: an open
\* session may be logged out when its twenty seconds are over, a closed one goes.
EndUpdate ==
    /\ cur # NoSession /\ (closed[cur] \/ recv[cur] = <<>>)
    /\ cur' = NoSession
    /\ \/ Gone(cur) /\ RemoveClosed(cur)
       \/ /\ ~Gone(cur) /\ logout[cur] /\ ~loading[cur] /\ LogoutPlayer(cur)
          /\ UNCHANGED <<place, closed, recv, sessions, queue, inQueue, raised, disconnects,
                         activeRealm>>
       \/ ~Gone(cur) /\ UNCHANGED <<place, closed, recv, sessions, queue, inQueue, raised,
                                    disconnects, logout, player, online, activeRealm>>
    /\ UNCHANGED <<sent, idle, addSessQueue, limits, now, loading, strays, holders, results,
                   pc, todo, diff, stop>>

EndUpdates ==
    /\ pc \in {"update", "lastupdate"} /\ cur = NoSession /\ todo = {}
    /\ pc' = IF pc = "update" THEN "results" ELSE "halted"
    /\ UNCHANGED <<objects, lists, limits, clock, logins, columns, todo, cur, diff, stop>>
-----------------------------------------------------------------------------
(* The rest of the tick: answers of the database, console, shutdown.        *)

\* The character is recorded as online, and its account as being on this realm.
\* Mutated: the realm, which the constructor wrote already, is not written again.
MarkCharacterOnline(s) ==
    online' = [online EXCEPT ![AccountOf[s]] = TRUE] /\ UNCHANGED activeRealm
MarkOnline(s) ==
    /\ online' = [online EXCEPT ![AccountOf[s]] = TRUE]
    /\ activeRealm' = [activeRealm EXCEPT ![AccountOf[s]] = TRUE]

\* m_playerLoading is reset on both ways out of the login.
\* Mutated: the reset is missing.
LoadedForgotten(s) == loading' = loading
Loaded(s) == loading' = [loading EXCEPT ![s] = FALSE]

\* WorldSession::HandlePlayerLogin(): a character that loads becomes the session's
\* player and is online, whatever the session had; one that does not load gets
\* the client kicked.
HandlePlayerLogin(s, loads) ==
    /\ Loaded(s)
    /\ IF loads
       THEN /\ player' = [player EXCEPT ![s] = TRUE]
            /\ strays' = [strays EXCEPT ![AccountOf[s]] = @ + IF player[s] THEN 1 ELSE 0]
            /\ MarkOnline(s) /\ UNCHANGED closed
       ELSE /\ closed' = [closed EXCEPT ![s] = TRUE]
            /\ UNCHANGED <<player, strays, columns>>

\* CharacterHandler::HandlePlayerLoginCallback(): the answer goes to the session
\* its account has now; without one it is deleted.
HandlePlayerLoginCallback ==
    /\ pc = "results" /\ results # <<>>
    /\ results' = Tail(results)
    /\ LET s == sessions[Head(results).account]
       IN  IF s = NoSession
           THEN UNCHANGED <<closed, loading, player, strays, columns>>
           ELSE HandlePlayerLogin(s, Head(results).loads)
    /\ UNCHANGED <<place, recv, sent, idle, lists, limits, clock, logout, holders, tick>>

EndResults ==
    /\ pc = "results" /\ results = <<>> /\ pc' = "cli"
    /\ UNCHANGED <<objects, lists, limits, clock, logins, columns, todo, cur, diff, stop>>

\* ChatHandler::HandleServerPLimitCommand() with a number or a security level;
\* either way everybody below the security limit is kicked.
HandleServerPLimitCommand ==
    /\ \/ (\E p \in PLimits : p[1] = limit /\ limit' = p[2]) /\ UNCHANGED allowed
       \/ allowed' \in Levels /\ UNCHANGED limit
    /\ raised' = (raised \/ (queue # <<>> /\ limit' # limit /\ (limit' > limit \/ limit' <= 0)))
    /\ closed' = [s \in Session |-> closed[s] \/ (s \in Live /\ Security[AccountOf[s]] < allowed')]

\* Kick commands and bans, on any session of the map.
KickPlayer ==
    /\ \E s \in Live : closed' = [closed EXCEPT ![s] = TRUE]
    /\ UNCHANGED <<limits, raised>>

\* ProcessCliCommands(), with at most one command, ends the tick.
ProcessCliCommands ==
    /\ pc = "cli" /\ pc' = "next"
    /\ \/ HandleServerPLimitCommand \/ KickPlayer
       \/ UNCHANGED <<closed, limits, raised>>
    /\ UNCHANGED <<place, recv, sent, idle, addSessQueue, sessions, queue, inQueue, clock, logins,
                   columns, todo, cur, diff, stop>>

\* WorldRunnable::run(): another tick, ...
\* Mutated: the stop event is not looked at.
TickForever ==
    /\ pc = "next" /\ pc' = "add"
    /\ UNCHANGED <<objects, lists, limits, clock, logins, columns, todo, cur, diff, stop>>
NextTick ==
    /\ pc = "next" /\ ~stop /\ pc' = "add"
    /\ UNCHANGED <<objects, lists, limits, clock, logins, columns, todo, cur, diff, stop>>

\* Mutated: the loop ends with KickAll().
AfterKickAllNothing == "halted"
AfterKickAll == "lastadd"

\* ... or World::KickAll(), which drops the queue, and one last UpdateSessions().
KickAll ==
    /\ pc = "next" /\ stop /\ pc' = AfterKickAll
    /\ queue' = <<>> /\ raised' = FALSE
    /\ closed' = [s \in Session |-> closed[s] \/ s \in Live]
    /\ UNCHANGED <<place, recv, sent, idle, addSessQueue, sessions, inQueue, limits, clock,
                   logins, columns, todo, cur, diff, stop>>

Terminated == pc = "halted" /\ UNCHANGED vars

World ==
    \/ AddSession_ \/ StartUpdates \/ BeginUpdate \/ HandlePacket \/ EndUpdate \/ EndUpdates
    \/ HandlePlayerLoginCallback \/ EndResults \/ ProcessCliCommands \/ NextTick \/ KickAll

Next == (\E s \in Session : Network(s)) \/ World \/ AnswerLogin \/ Tick \/ StopNow \/ Terminated

Spec == Init /\ [][Next]_vars

\* The world thread and the delay thread are scheduled, and a network thread that
\* built a session hands it over.
Fairness == WF_vars(World) /\ WF_vars(AnswerLogin) /\ \A s \in Session : WF_vars(AddSession(s))

FairSpec == Spec /\ Fairness
-----------------------------------------------------------------------------
(* Properties.                                                             *)

Halting == pc \in {"lastadd", "lastupdate", "halted"}

Holder == [account : Account, loads : BOOLEAN]

ObjectTypes ==
    /\ place \in [Session -> {"none", "built", "adding", "live", "dead"}]
    /\ closed \in [Session -> BOOLEAN] /\ recv \in [Session -> Seq(Packets)]
    /\ sent \in [Session -> Nat] /\ idle \in [Session -> Nat]

ListTypes ==
    /\ addSessQueue \in Seq(Session) /\ sessions \in [Account -> Session \cup {NoSession}]
    /\ queue \in Seq(Session) /\ inQueue \in [Session -> BOOLEAN] /\ raised \in BOOLEAN

LoginTypes ==
    /\ loading \in [Session -> BOOLEAN] /\ player \in [Session -> BOOLEAN]
    /\ logout \in [Session -> BOOLEAN] /\ strays \in [Account -> Nat]
    /\ holders \in Seq(Holder) /\ results \in Seq(Holder)
    /\ activeRealm \in [Account -> BOOLEAN] /\ online \in [Account -> BOOLEAN]

WorldTypes ==
    /\ limit \in Int /\ allowed \in Nat /\ now \in Nat
    /\ disconnects \in [Account -> Nat \cup {Never}]
    /\ pc \in {"add", "update", "results", "cli", "next", "lastadd", "lastupdate", "halted"}
    /\ todo \subseteq Account /\ cur \in Session \cup {NoSession}
    /\ diff \in Nat /\ stop \in BOOLEAN

\* Type invariant.
TypeOK == ObjectTypes /\ ListTypes /\ LoginTypes /\ WorldTypes

\* The three lists of World agree and none of them holds a deleted session: a
\* session is on its way, or it is the one session of its account in the map; the
\* queue holds, once each, exactly the mapped sessions that are told to wait.
MapConsistent ==
    /\ \A a \in Account : sessions[a] # NoSession =>
           place[sessions[a]] = "live" /\ AccountOf[sessions[a]] = a
    /\ \A s \in Live : sessions[AccountOf[s]] = s
    /\ cur # NoSession => place[cur] = "live"
AddingConsistent ==
    /\ IsInjective(addSessQueue)
    /\ \A s \in Session : place[s] = "adding" <=> s \in ToSet(addSessQueue)
QueueConsistent ==
    /\ IsInjective(queue) /\ ToSet(queue) \subseteq Live
    /\ \A s \in Session : s \in ToSet(queue) => inQueue[s]
    /\ ~Halting => \A s \in Session : inQueue[s] => s \in ToSet(queue)
ListsConsistent == MapConsistent /\ AddingConsistent /\ QueueConsistent

Ordinary == {s \in Session : Security[AccountOf[s]] = SEC_PLAYER}

\* However sessions come, reconnect, leave and are let in from the queue, and however
\* the limit moves, no ordinary player gets in when more than `limit` of them would be
\* in the world: AddSession_() and RemoveQueuedPlayer() count before and after the map
\* changes.  (With a tolerance the returning ones may exceed it.)
LimitRespected ==
    [][~Halting' /\ limit' > 0 /\ Cardinality(Active' \cap Ordinary) > limit' =>
          (Active' \cap Ordinary) \subseteq Active]_vars

\* Nobody waits beside a free slot: whenever some are in the queue the world is full,
\* whoever came, left or was replaced before, unless the limit was raised over their
\* heads (`server plimit` lets nobody in, and each session that leaves only one).
NobodyWaitsInVain ==
    queue # <<>> /\ ~raised => limit > 0 /\ Cardinality(Active) >= limit

\* The session map with its queue implements a first-come first-served queue: only
\* game masters, clients that disconnected before and, until the queue has emptied,
\* newcomers after a raise of the limit get in while others wait.
Entitled == {s \in Session : Security[AccountOf[s]] # SEC_PLAYER \/ HasRecentlyDisconnected(s)}
LQ == INSTANCE LoginQueue WITH playing <- Active, waiting <- queue, entitled <- Entitled
FirstComeFirstServed == LQ!Spec

\* A session whose character is being loaded is deleted only after its own socket
\* closed: no newcomer takes its place while an answer for it is on the way.
LoadingNotReplaced ==
    [][\A s \in Session : loading[s] /\ place[s] = "live" /\ place'[s] = "dead" => closed[s]]_vars

\* The database says that an account is online exactly while its session in the map
\* has a player, and on this realm then, whatever earlier, replaced and refused
\* sessions of the account write as they die.  A stray, a player no session refers to
\* any more (OneOnlineCharacter below), counts for nothing here: its account is
\* recorded by the session alone.
PlayerRecordedOnline ==
    \A a \in Account :
        /\ online[a] <=> sessions[a] # NoSession /\ player[sessions[a]]
        /\ online[a] => activeRealm[a]

\* When the world thread is done with KickAll() and the last UpdateSessions(), the
\* player of every session was saved and unloaded, even of sessions that arrived in
\* between, and no account is left recorded as online.  Strays are not reached by
\* it: KickAll() goes by sessions.
HaltUnloadsPlayers ==
    pc = "halted" => (\A s \in Session : ~player[s]) /\ (\A a \in Account : ~online[a])

\* A closed connection's session is deleted in the end, loading or not,
\* unless the server stops first.
ClosedSessionsGo ==
    \A s \in Session : (closed[s] /\ place[s] = "live") ~> (place[s] = "dead" \/ stop)

\* A login ends: the character is in, or the client was kicked, unless the server stops.
LoginsEnd == \A s \in Session : loading[s] ~> (~loading[s] \/ place[s] = "dead" \/ stop)

\* The world thread stops when told to.
StopEnds == stop ~> pc = "halted"

\* WorldSession.cpp:410: each account has only one online character at any time.
OneOnlineCharacter ==
    \A a \in Account :
        Cardinality({s \in Live : AccountOf[s] = a /\ player[s]}) + strays[a] <= 1
=============================================================================
