-------------------------- MODULE WorldSocketProofs --------------------------
(***************************************************************************)
(* The invariants of WorldSocket: types, the reference count, the pointer  *)
(* to the session and the order of the output stream, for any packets,     *)
(* buffers and numbers of sessions.                                        *)
(***************************************************************************)
EXTENDS WorldSocket, DataLemmas, SequenceTheorems

\* What the threads and the objects are, the contents of the buffers left aside.
ThreadTypes ==
    /\ closing \in BOOLEAN /\ registered \in BOOLEAN /\ inUpcall \in BOOLEAN
    /\ inSet \in {"no", "new", "in", "out"}
    /\ acc \in {"open", "send", "register", "release", "close", "done"}
    /\ net \in Positions
    /\ kind \in {"none", "ping", "auth", "other", "refuse", "schedule", "cancel"}

ObjectTypes ==
    /\ mSession \in 0 .. MaxSession
    /\ session \in [Session -> {"none", "built", "live", "deleted"}]
    /\ hasSocket \in [Session -> BOOLEAN] /\ held \in 0 .. MaxSession
    /\ wld \in [at : {"idle", "mask", "close", "closeSession", "destroy", "destroySession",
                      "release", "delete"}, s : 0 .. MaxSession]

ControlTypes == ThreadTypes /\ ObjectTypes

\* Until open() is over the reactor does not know the handler: there is no input.
Opening ==
    /\ acc = "open" => inSet = "no"
    /\ acc \notin {"release", "done"} => ~registered /\ ~inUpcall /\ mSession = 0

\* The network thread is in a call of the reactor, or in Update() of a socket it has.
InCall ==
    /\ net = "poll" => ~inUpcall
    /\ net \in {"shut", "shutSession", "drop"} => ~inUpcall
    /\ net \in {"return", "close", "forget", "input", "dispatch", "reply", "wake", "add",
                "caught", "log"}
           => inUpcall
    /\ ~inUpcall /\ net # "poll" => inSet = "in"

\* The session of which the world thread is in the middle.
WorldAt ==
    /\ wld.at \in {"mask", "close", "closeSession", "destroy", "destroySession", "release"}
           => wld.s \in Session /\ session[wld.s] = "live" /\ hasSocket[wld.s]
    /\ wld.at = "delete" => wld.s \in Session /\ session[wld.s] = "live" /\ ~hasSocket[wld.s]
    /\ wld.at \in {"closeSession", "destroySession", "release", "delete"} => closing

\* A session has its socket from its construction until just before it is deleted.
SessionSockets ==
    \A s \in Session :
        /\ hasSocket[s] => session[s] \in {"built", "live"}
        /\ session[s] \in {"built", "live"} => hasSocket[s] \/ (wld.at = "delete" /\ wld.s = s)

\* The world thread is between the two critical sections of CloseSocket().
Closing == wld.at \in {"closeSession", "destroySession"}

\* m_Session is good while the socket is open, and while it is being closed.  A packet
\* that was dispatched before the socket was closed finds it cleared, or about to be.
PointerGood ==
    /\ (~closing \/ Closing) /\ mSession # 0 => session[mSession] \in {"built", "live"}
    /\ net = "dispatch" => (closing => mSession = 0 \/ Closing) /\ (Closing => mSession # 0)
    /\ net = "add" => mSession # 0 /\ session[mSession] = "built" /\ ~Closing

\* An open socket has at most one session, and points to it.
Attached ==
    /\ ~closing => \A s \in Session : hasSocket[s] => mSession = s
    /\ net \in {"forget", "shutSession"} => closing

Control == ControlTypes /\ Opening /\ InCall /\ WorldAt /\ SessionSockets /\ PointerGood /\ Attached

\* The inductive invariant.
IInv == Control /\ RefsExact
-----------------------------------------------------------------------------
(* Counting the holders.                                                   *)

Sockets == {s \in Session : hasSocket[s]}

LEMMA SocketsFinite == IsFiniteSet(Sockets) /\ Cardinality(Sockets) \in Nat
<1>1. IsFiniteSet(Session)
  BY SocketConstants, FS_Interval DEF Session
<1>2. Sockets \in SUBSET Session
  BY DEF Sockets
<1>. QED BY <1>1, <1>2, FS_Subset, FS_CardinalityType

\* The count is a number.
LEMMA RefsInt == ASSUME RefsExact PROVE refs \in Int
  BY SocketsFinite DEF RefsExact, Holders, Sockets

\* The steps in which no session gets or loses the socket.
LEMMA Counted ==
    ASSUME RefsExact, hasSocket' = hasSocket,
           NEW n \in Int, refs' = refs + n,
           (IF acc' # "done" THEN 1 ELSE 0) + (IF inSet' \in {"new", "in"} THEN 1 ELSE 0)
         + (IF registered' THEN 1 ELSE 0) + (IF inUpcall' THEN 1 ELSE 0)
           = (IF acc # "done" THEN 1 ELSE 0) + (IF inSet \in {"new", "in"} THEN 1 ELSE 0)
         + (IF registered THEN 1 ELSE 0) + (IF inUpcall THEN 1 ELSE 0) + n
    PROVE  RefsExact'
<1>1. Sockets' = Sockets /\ Cardinality(Sockets) \in Nat
  BY SocketsFinite DEF Sockets
<1>. QED BY <1>1 DEF RefsExact, Holders, Sockets

\* The steps that let nothing hold or let go of the socket.
LEMMA SameHolders ==
    ASSUME RefsExact, UNCHANGED <<hasSocket, refs, inSet, registered, inUpcall>>,
           acc' = "done" <=> acc = "done"
    PROVE  RefsExact'
<1>1. Sockets' = Sockets
  BY DEF Sockets
<1>. QED BY <1>1 DEF RefsExact, Holders, Sockets
-----------------------------------------------------------------------------
(* Control: what the threads do to the session and the socket's places.    *)

\* The acceptor thread: no input reaches a socket that is not open yet.
LEMMA AcceptorControl == ASSUME Control, Acceptor PROVE Control'
<1>. USE DEF Control, ControlTypes, ThreadTypes, ObjectTypes, Opening, InCall, WorldAt,
             SessionSockets, PointerGood, Attached, Closing, Session, Positions,
             output, reactor, objects, threads, bounds
<1>1. CASE OnSocketOpen
  BY <1>1 DEF OnSocketOpen
<1>2. CASE OpenFails
  BY <1>2 DEF OpenFails
<1>3. CASE SendChallenge
  BY <1>3 DEF SendChallenge
<1>4. CASE RegisterHandler
  BY <1>4 DEF RegisterHandler
<1>5. CASE AcceptorDone
  BY <1>5 DEF AcceptorDone
<1>. QED BY <1>1, <1>2, <1>3, <1>4, <1>5 DEF Acceptor

\* handle_output() returns, fails, or leaves a call to the reactor for after its lock.
LEMMA OutputResult ==
    ASSUME NEW ok, NEW fails, handle_output(ok, fails)
    PROVE  net' \in {ok, fails, "mask"} /\ kind' \in {kind, "cancel", "schedule"}
  BY Zenon DEF handle_output

\* The calls of the reactor for output, and what ends any of its calls.
LEMMA OutputControl ==
    ASSUME Control,
           CallOutput \/ HandleOutput \/ Mask \/ Return \/ HandleClose
           \/ RemoveHandler
    PROVE  Control'
<1>. USE DEF Control, ControlTypes, ThreadTypes, ObjectTypes, Opening, InCall, WorldAt,
             SessionSockets, PointerGood, Attached, Closing, Session, Positions,
             output, reactor, objects, threads, bounds
<1>1. CASE CallOutput
  BY <1>1 DEF CallOutput
<1>2. CASE HandleOutput
  <2>1. net' \in {Ok, Fails, "mask"} /\ kind' \in {kind, "cancel", "schedule"}
    BY <1>2, OutputResult DEF HandleOutput
  <2>2. /\ net = "output"
        /\ UNCHANGED <<closing, registered, inSet, objects, acc, inUpcall, wld>>
    BY <1>2 DEF HandleOutput
  <2>. QED BY <2>1, <2>2 DEF Ok, Fails
<1>3. CASE Mask
  BY <1>3 DEF Mask, Ok, Fails
<1>4. CASE Return
  <2>1. ControlTypes'
    <3>1. ThreadTypes'
      BY <1>4 DEF Return
    <3>2. ObjectTypes'
      BY <1>4, SocketConstants DEF Return
    <3>. QED BY <3>1, <3>2
  <2>2. Opening' /\ InCall'
    BY <1>4 DEF Return
  <2>3. WorldAt' /\ SessionSockets'
    BY <1>4 DEF Return
  <2>4. PointerGood' /\ Attached'
    BY <1>4 DEF Return
  <2>. QED BY <2>1, <2>2, <2>3, <2>4
<1>5. CASE HandleClose
  BY <1>5 DEF HandleClose
<1>6. CASE RemoveHandler
  <2>1. ControlTypes'
    <3>1. ThreadTypes'
      BY <1>6 DEF RemoveHandler
    <3>2. ObjectTypes'
      BY <1>6, SocketConstants DEF RemoveHandler
    <3>. QED BY <3>1, <3>2
  <2>2. Opening' /\ InCall'
    BY <1>6 DEF RemoveHandler
  <2>3. WorldAt' /\ SessionSockets'
    BY <1>6 DEF RemoveHandler
  <2>4. PointerGood' /\ Attached'
    BY <1>6 DEF RemoveHandler
  <2>. QED BY <2>1, <2>2, <2>3, <2>4
<1>. QED BY <1>1, <1>2, <1>3, <1>4, <1>5, <1>6

\* What the network thread does with its sockets between two polls.
LEMMA PollControl ==
    ASSUME Control, AddNewSockets \/ Update \/ ShutSocket \/ ShutSession \/ DropSocket
    PROVE  Control'
<1>. USE DEF Control, ControlTypes, ThreadTypes, ObjectTypes, Opening, InCall, WorldAt,
             SessionSockets, PointerGood, Attached, Closing, Session, Positions,
             output, reactor, objects, threads, bounds
<1>1. CASE AddNewSockets
  BY <1>1 DEF AddNewSockets
<1>2. CASE Update
  BY <1>2 DEF Update
<1>3. CASE ShutSocket
  BY <1>3 DEF ShutSocket
<1>4. CASE ShutSession
  <2>1. ControlTypes'
    <3>1. ThreadTypes'
      BY <1>4 DEF ShutSession
    <3>2. ObjectTypes'
      BY <1>4, SocketConstants DEF ShutSession
    <3>. QED BY <3>1, <3>2
  <2>2. Opening' /\ InCall'
    BY <1>4 DEF ShutSession
  <2>3. WorldAt' /\ SessionSockets'
    BY <1>4 DEF ShutSession
  <2>4. PointerGood' /\ Attached'
    BY <1>4 DEF ShutSession
  <2>. QED BY <2>1, <2>2, <2>3, <2>4
<1>5. CASE DropSocket
  BY <1>5 DEF DropSocket
<1>. QED BY <1>1, <1>2, <1>3, <1>4, <1>5

\* Input: only HandleAuthSession() gives the socket a session.
LEMMA InputControl ==
    ASSUME Control,
           CallInput \/ NextInput \/ QueuePacket \/ HandlePing
           \/ HandleAuthSession \/ AddSession \/ Reply \/ ReplyMask
           \/ Caught \/ LogError
    PROVE  Control'
<1>. USE DEF Control, ControlTypes, ThreadTypes, ObjectTypes, Opening, InCall, WorldAt,
             SessionSockets, PointerGood, Attached, Closing, Session, Positions,
             output, reactor, objects, threads, bounds
<1>1. CASE CallInput
  BY <1>1 DEF CallInput
<1>2. CASE NextInput
  BY <1>2 DEF NextInput
<1>3. CASE QueuePacket
  BY <1>3 DEF QueuePacket
<1>4. CASE HandlePing
  BY <1>4 DEF HandlePing
<1>5. CASE HandleAuthSession
  <2>1. /\ net = "dispatch"
        /\ UNCHANGED <<closing, registered, inSet, acc, inUpcall, wld>>
    BY <1>5 DEF HandleAuthSession
  <2>2. CASE UNCHANGED objects /\ net' \in {"close", "reply", "caught"} /\ kind' \in {kind, "refuse"}
    BY <2>1, <2>2
  <2>3. ASSUME NEW s \in Session, session[s] = "none", mSession = 0, mSession' = s,
               session' = [session EXCEPT ![s] = "built"],
               hasSocket' = [hasSocket EXCEPT ![s] = TRUE], net' = "add",
               kind' = kind, held' = held
        PROVE  Control'
    <3>1. ThreadTypes' /\ Opening' /\ InCall'
      BY <2>1, <2>3
    <3>2. ObjectTypes'
      BY <2>1, <2>3, SocketConstants
    <3>3. WorldAt' /\ SessionSockets'
      BY <2>1, <2>3
    <3>4. PointerGood' /\ Attached'
      BY <2>1, <2>3
    <3>. QED BY <3>1, <3>2, <3>3, <3>4
  <2>. QED BY <1>5, <2>2, <2>3 DEF HandleAuthSession
<1>6. CASE AddSession
  <2>1. ControlTypes'
    <3>1. ThreadTypes'
      BY <1>6 DEF AddSession
    <3>2. ObjectTypes'
      BY <1>6, SocketConstants DEF AddSession
    <3>. QED BY <3>1, <3>2
  <2>2. Opening' /\ InCall'
    BY <1>6 DEF AddSession
  <2>3. WorldAt' /\ SessionSockets'
    BY <1>6 DEF AddSession
  <2>4. PointerGood' /\ Attached'
    BY <1>6 DEF AddSession
  <2>. QED BY <2>1, <2>2, <2>3, <2>4
<1>7. CASE Reply
  BY <1>7 DEF Reply
<1>8. CASE ReplyMask
  BY <1>8 DEF ReplyMask
<1>9. CASE Caught
  BY <1>9 DEF Caught
<1>10. CASE LogError
  BY <1>10, SocketConstants DEF LogError
<1>. QED BY <1>1, <1>2, <1>3, <1>4, <1>5, <1>6, <1>7, <1>8, <1>9, <1>10

\* The world thread in the middle of something: a session is deleted after CloseSocket() has
\* cleared m_Session, or when the socket was closed before.
LEMMA WorldControl == ASSUME Control, WorldStep PROVE Control'
<1>. USE DEF Control, ControlTypes, ThreadTypes, ObjectTypes, Opening, InCall, WorldAt,
             SessionSockets, PointerGood, Attached, Closing, Session, Positions,
             output, reactor, objects, threads, bounds
<1>1. CASE WorldMask
  <2>1. ControlTypes'
    <3>1. ThreadTypes'
      BY <1>1 DEF WorldMask
    <3>2. ObjectTypes'
      BY <1>1, SocketConstants DEF WorldMask
    <3>. QED BY <3>1, <3>2
  <2>2. Opening' /\ InCall'
    BY <1>1 DEF WorldMask
  <2>3. WorldAt' /\ SessionSockets'
    BY <1>1 DEF WorldMask
  <2>4. PointerGood' /\ Attached'
    BY <1>1 DEF WorldMask
  <2>. QED BY <2>1, <2>2, <2>3, <2>4
<1>2. CASE CloseSocket
  <2>1. ControlTypes'
    <3>1. ThreadTypes'
      BY <1>2 DEF CloseSocket, Destroying
    <3>2. ObjectTypes'
      BY <1>2, SocketConstants DEF CloseSocket, Destroying
    <3>. QED BY <3>1, <3>2
  <2>2. Opening' /\ InCall'
    BY <1>2 DEF CloseSocket, Destroying
  <2>3. WorldAt' /\ SessionSockets'
    BY <1>2 DEF CloseSocket, Destroying
  <2>4. PointerGood' /\ Attached'
    BY <1>2 DEF CloseSocket, Destroying
  <2>. QED BY <2>1, <2>2, <2>3, <2>4
<1>3. CASE CloseSession
  <2>1. ControlTypes'
    <3>1. ThreadTypes'
      BY <1>3 DEF CloseSession, Destroying
    <3>2. ObjectTypes'
      BY <1>3, SocketConstants DEF CloseSession, Destroying
    <3>. QED BY <3>1, <3>2
  <2>2. Opening' /\ InCall'
    BY <1>3 DEF CloseSession, Destroying
  <2>3. WorldAt' /\ SessionSockets'
    BY <1>3 DEF CloseSession, Destroying
  <2>4. PointerGood' /\ Attached'
    BY <1>3 DEF CloseSession, Destroying
  <2>. QED BY <2>1, <2>2, <2>3, <2>4
<1>4. CASE Release
  <2>. DEFINE s == wld.s
  <2>1. /\ s \in Session /\ hasSocket[s] /\ session[s] = "live" /\ closing
        /\ wld.at = "release" /\ wld' = [wld EXCEPT !.at = "delete"] /\ hasSocket' = [hasSocket EXCEPT ![s] = FALSE]
        /\ UNCHANGED <<closing, registered, inSet, mSession, session, held, acc, net, inUpcall, kind>>
    BY <1>4 DEF Release
  <2>2. wld' \in [at : {"delete"}, s : 0 .. MaxSession] /\ wld'.at = "delete" /\ wld'.s = s
    BY <2>1
  <2>. HIDE DEF s
  <2>3. ThreadTypes' /\ Opening' /\ InCall'
    BY <2>1
  <2>4. ObjectTypes'
    BY <2>1, <2>2
  <2>5. WorldAt' /\ SessionSockets'
    BY <2>1, <2>2
  <2>6. PointerGood' /\ Attached'
    BY <2>1, <2>2
  <2>. QED BY <2>3, <2>4, <2>5, <2>6
<1>5. CASE Delete
  <2>1. ControlTypes'
    <3>1. ThreadTypes'
      BY <1>5 DEF Delete
    <3>2. ObjectTypes'
      BY <1>5, SocketConstants DEF Delete
    <3>. QED BY <3>1, <3>2
  <2>2. Opening' /\ InCall'
    BY <1>5 DEF Delete
  <2>3. WorldAt' /\ SessionSockets'
    BY <1>5 DEF Delete
  <2>4. PointerGood' /\ Attached'
    BY <1>5 DEF Delete
  <2>. QED BY <2>1, <2>2, <2>3, <2>4
<1>. QED BY <1>1, <1>2, <1>3, <1>4, <1>5 DEF WorldStep

\* The world thread begins something with a live session.
LEMMA WorldBegins ==
    ASSUME Control, NEW s \in Session, wld.at = "idle", session[s] = "live",
           NEW at \in {"idle", "mask", "close", "destroy", "release", "delete"},
           NEW t \in {0, s}, wld' = [at |-> at, s |-> t],
           at \in {"mask", "close", "destroy", "release"} => t = s /\ hasSocket[s],
           at = "delete" => t = s /\ ~hasSocket[s],
           at \in {"release", "delete"} => closing,
           UNCHANGED <<closing, registered, inSet, objects, acc, net, inUpcall, kind>>
    PROVE  Control'
<1>1. t \in 0 .. MaxSession
  BY SocketConstants DEF Session
<1>2. ThreadTypes' /\ Opening' /\ InCall'
  BY DEF Control, ControlTypes, ThreadTypes, Opening, InCall, objects
<1>3. ObjectTypes'
  BY <1>1 DEF Control, ControlTypes, ObjectTypes, Session, objects
<1>4. WorldAt' /\ SessionSockets'
  BY DEF Control, WorldAt, SessionSockets, Session, objects
<1>5. PointerGood' /\ Attached'
  BY DEF Control, PointerGood, Attached, Closing, objects
<1>. QED BY <1>2, <1>3, <1>4, <1>5 DEF Control, ControlTypes

\* What it can begin with a session it has.
LEMMA WorldSessionControl ==
    ASSUME Control, NEW s \in Session, WorldSend(s) \/ Kick(s) \/ Destroy(s) \/ SeesClosed(s)
    PROVE  Control'
<1>1. session[s] = "live" /\ wld.at = "idle"
  BY DEF WorldSend, Kick, Destroy, SeesClosed, Live
<1>2. UNCHANGED <<closing, registered, inSet, objects, acc, net, inUpcall, kind>>
  BY DEF WorldSend, Kick, Destroy, SeesClosed, reactor
<1>3. CASE WorldSend(s)
  <2>1. hasSocket[s] /\ (wld' = [at |-> "mask", s |-> s] \/ wld' = [at |-> "idle", s |-> 0])
    BY <1>3 DEF WorldSend
  <2>. QED BY <1>1, <1>2, <2>1, WorldBegins
<1>4. CASE Kick(s)
  <2>1. hasSocket[s] /\ wld' = [at |-> "close", s |-> s]
    BY <1>4 DEF Kick
  <2>. QED BY <1>1, <1>2, <2>1, WorldBegins
<1>5. CASE Destroy(s)
  <2>1. hasSocket[s]
    BY <1>1 DEF Control, SessionSockets
  <2>2. wld' = [at |-> "destroy", s |-> s]
    BY <1>5, <2>1 DEF Destroy
  <2>. QED BY <1>1, <1>2, <2>1, <2>2, WorldBegins
<1>6. CASE SeesClosed(s)
  <2>1. hasSocket[s] /\ closing /\ wld' = [at |-> "release", s |-> s]
    BY <1>6 DEF SeesClosed
  <2>. QED BY <1>1, <1>2, <2>1, WorldBegins
<1>. QED BY <1>3, <1>4, <1>5, <1>6

\* Nothing else reads or writes what the control invariant is about.
LEMMA OtherControl == ASSUME Control, PeerCloses \/ UNCHANGED vars PROVE Control'
<1>1. UNCHANGED <<closing, registered, inSet, objects, threads>>
  BY DEF PeerCloses, vars, reactor
<1>2. ControlTypes' /\ Opening' /\ InCall'
  BY <1>1 DEF Control, ControlTypes, ThreadTypes, ObjectTypes, Opening, InCall, objects, threads,
              Session
<1>3. WorldAt' /\ SessionSockets' /\ PointerGood' /\ Attached'
  BY <1>1 DEF Control, WorldAt, SessionSockets, PointerGood, Attached, Closing, objects, threads, Session
<1>. QED BY <1>2, <1>3 DEF Control

LEMMA NextControl == ASSUME Control, [Next]_vars PROVE Control'
<1>1. CASE Acceptor
  BY <1>1, AcceptorControl
<1>2. CASE Network
  BY <1>2, OutputControl, PollControl, InputControl DEF Network
<1>3. CASE World
  BY <1>3, WorldControl, WorldSessionControl DEF World
<1>4. CASE PeerCloses \/ UNCHANGED vars
  BY <1>4, OtherControl
<1>. QED BY <1>1, <1>2, <1>3, <1>4 DEF Next
-----------------------------------------------------------------------------
(* References: what the threads do to the count.                           *)

\* The acceptor's own reference, the set's and the reactor's.
LEMMA AcceptorRefs == ASSUME IInv, Acceptor PROVE RefsExact'
<1>. USE DEF IInv, Control, ControlTypes, ThreadTypes, Opening, reactor, objects, threads
<1>1. CASE OpenFails \/ SendChallenge
  BY <1>1, SameHolders DEF OpenFails, SendChallenge
<1>2. CASE OnSocketOpen
  <2>1. refs' = refs + 1
    BY <1>2 DEF OnSocketOpen
  <2>. QED BY <1>2, <2>1, Counted DEF OnSocketOpen
<1>3. CASE RegisterHandler
  <2>1. refs' = refs + 1
    BY <1>3 DEF RegisterHandler
  <2>. QED BY <1>3, <2>1, Counted DEF RegisterHandler
<1>4. CASE AcceptorDone
  <2>1. refs' = refs + (-1)
    BY <1>4, RefsInt DEF AcceptorDone
  <2>. QED BY <1>4, <2>1, Counted DEF AcceptorDone
<1>. QED BY <1>1, <1>2, <1>3, <1>4 DEF Acceptor

\* One reference for the time of a call, one for the place in the network thread's set,
\* one for the reactor until remove_handler(), one for a new session.
LEMMA NetworkRefs == ASSUME IInv, Network PROVE RefsExact'
<1>. USE DEF IInv, Control, ControlTypes, ThreadTypes, InCall, reactor, objects, threads
<1>1. CASE HandleOutput \/ Mask \/ HandleClose \/ Update \/ ShutSocket \/ ShutSession
  BY <1>1, SameHolders DEF HandleOutput, Mask, HandleClose, Update, ShutSocket, ShutSession
<1>2. CASE NextInput \/ QueuePacket \/ HandlePing \/ AddSession \/ Reply \/ ReplyMask
  BY <1>2, SameHolders DEF NextInput, QueuePacket, HandlePing, AddSession, Reply, ReplyMask
<1>9. CASE Caught \/ LogError
  BY <1>9, SameHolders DEF Caught, LogError
<1>3. CASE CallOutput \/ CallInput
  <2>1. refs' = refs + 1 /\ inUpcall' = TRUE /\ inUpcall = FALSE
    BY <1>3 DEF CallOutput, CallInput
  <2>2. UNCHANGED <<hasSocket, acc, inSet, registered>>
    BY <1>3 DEF CallOutput, CallInput
  <2>. QED BY <2>1, <2>2, Counted
<1>4. CASE Return
  <2>1. refs' = refs + (-1)
    BY <1>4, RefsInt DEF Return
  <2>. QED BY <1>4, <2>1, Counted DEF Return
<1>5. CASE RemoveHandler
  <2>1. refs' = refs + (IF registered THEN -1 ELSE 0)
    BY <1>5, RefsInt DEF RemoveHandler
  <2>. QED BY <1>5, <2>1, Counted DEF RemoveHandler
<1>6. CASE AddNewSockets
  <2>1. refs' = refs + (IF closing THEN -1 ELSE 0)
    BY <1>6, RefsInt DEF AddNewSockets
  <2>. QED BY <1>6, <2>1, Counted DEF AddNewSockets
<1>7. CASE DropSocket
  <2>1. refs' = refs + (-1)
    BY <1>7, RefsInt DEF DropSocket
  <2>. QED BY <1>7, <2>1, Counted DEF DropSocket
<1>8. CASE HandleAuthSession
  <2>1. UNCHANGED <<acc, inSet, registered, inUpcall>>
    BY <1>8 DEF HandleAuthSession
  <2>2. CASE UNCHANGED <<refs, objects>>
    BY <2>1, <2>2, SameHolders
  <2>3. ASSUME NEW s \in Session, session[s] = "none",
               hasSocket' = [hasSocket EXCEPT ![s] = TRUE], refs' = refs + 1
        PROVE  RefsExact'
    <3>1. s \notin Sockets /\ Sockets' = Sockets \cup {s}
      BY <2>3 DEF ObjectTypes, SessionSockets, Sockets, Session
    <3>2. Cardinality(Sockets') = Cardinality(Sockets) + 1 /\ Cardinality(Sockets) \in Nat
      BY <3>1, SocketsFinite, FS_AddElement
    <3>. QED BY <2>1, <2>3, <3>2, RefsInt DEF RefsExact, Holders, Sockets
  <2>. QED BY <1>8, <2>2, <2>3 DEF HandleAuthSession
<1>. QED BY <1>1, <1>2, <1>3, <1>4, <1>5, <1>6, <1>7, <1>8, <1>9 DEF Network

\* A session's reference goes when it lets go of the socket.
LEMMA WorldRefs == ASSUME IInv, World PROVE RefsExact'
<1>. USE DEF IInv, reactor, objects
<1>1. CASE WorldMask \/ CloseSocket \/ CloseSession \/ Delete
  BY <1>1, SameHolders DEF WorldMask, CloseSocket, CloseSession, Delete
<1>2. CASE \E s \in Session : WorldSend(s) \/ Kick(s) \/ Destroy(s) \/ SeesClosed(s)
  BY <1>2, SameHolders DEF WorldSend, Kick, Destroy, SeesClosed
<1>3. CASE Release
  <2>. DEFINE s == wld.s
  <2>1. /\ s \in Session /\ hasSocket[s]
        /\ refs' = refs - 1 /\ hasSocket' = [hasSocket EXCEPT ![s] = FALSE]
        /\ UNCHANGED <<registered, inSet, acc, inUpcall>>
    BY <1>3 DEF Release, Control, WorldAt
  <2>. HIDE DEF s
  <2>2. s \in Sockets /\ Sockets' = Sockets \ {s}
    BY <2>1 DEF Control, ControlTypes, ObjectTypes, Sockets, Session
  <2>3. Cardinality(Sockets') = Cardinality(Sockets) - 1 /\ Cardinality(Sockets) \in Nat
    BY <2>2, SocketsFinite, FS_RemoveElement
  <2>. QED BY <2>1, <2>3, RefsInt DEF RefsExact, Holders, Sockets
<1>. QED BY <1>1, <1>2, <1>3 DEF World, WorldStep

LEMMA NextRefs == ASSUME IInv, [Next]_vars PROVE RefsExact'
<1>1. CASE PeerCloses \/ UNCHANGED vars
  BY <1>1, SameHolders DEF IInv, PeerCloses, vars, reactor, objects, threads
<1>. QED BY <1>1, AcceptorRefs, NetworkRefs, WorldRefs DEF Next
-----------------------------------------------------------------------------
LEMMA InitInv == Init => IInv
<1>. SUFFICES ASSUME Init PROVE IInv
  OBVIOUS
<1>1. ThreadTypes /\ Opening /\ InCall
  BY DEF Init, ThreadTypes, Opening, InCall, Positions
<1>2. ObjectTypes
  BY SocketConstants DEF Init, ObjectTypes
<1>3. WorldAt /\ SessionSockets /\ PointerGood /\ Attached
  BY DEF Init, WorldAt, SessionSockets, PointerGood, Attached, Closing
<1>4. RefsExact
  <2>1. Sockets = {}
    BY DEF Init, Sockets
  <2>2. Cardinality(Sockets) = 0
    BY <2>1, FS_EmptySet
  <2>. QED BY <2>2 DEF Init, RefsExact, Holders, Sockets
<1>. QED BY <1>1, <1>2, <1>3, <1>4 DEF IInv, Control, ControlTypes

LEMMA Invariance == Spec => []IInv
<1>1. IInv /\ [Next]_vars => IInv'
  BY NextControl, NextRefs DEF IInv
<1>. QED BY <1>1, InitInv, PTL DEF Spec
-----------------------------------------------------------------------------
\* The reference count is the number of those that point to the socket: the acceptor, the
\* network thread's set, the reactor, a call in progress and every session.
THEOREM RefsAlwaysExact == Spec => []RefsExact
<1>1. IInv => RefsExact
  BY DEF IInv
<1>. QED BY <1>1, Invariance, PTL

\* While m_SessionLock is held, m_Session is NULL or a session that the world has not
\* deleted, although closing a closed socket leaves m_Session as it is; and the session
\* given to the world is the one just built.  Nothing is said of the handler of a
\* ByteBufferException, which uses m_Session without the lock.
THEOREM SessionAlwaysUsable == Spec => []SessionUsable
<1>1. IInv => SessionUsable
  BY DEF IInv, Control, PointerGood, SessionUsable
<1>. QED BY <1>1, Invariance, PTL
-----------------------------------------------------------------------------
(* The stream: what was sent, what is buffered and what is queued.         *)

\* v may follow u, and s is the stream up to v, which comes next.
Follows(u, v, sz) ==
    v = (IF u[2] < sz[u[1]] THEN <<u[1], u[2] + 1>> ELSE <<u[1] + 1, 0>>) \/ (v = u /\ u[2] = 0)
Stream(s, v, sz) ==
    /\ s \in Seq(Unit) /\ \A j \in 1 .. Len(s) : s[j][1] \in 1 .. Len(sz)
    /\ \A j \in 1 .. Len(s) - 1 : Follows(s[j], s[j + 1], sz)
    /\ s = <<>> => v = <<1, 0>>
    /\ s # <<>> => s[1] = <<1, 0>> /\ Follows(s[Len(s)], v, sz)

\* What a list of packets is, and the unit that comes first in it.
Pkt == [p : Nat \ {0}, rpos : Nat]
Packet(pct, sz) == pct \in Pkt /\ pct.p <= Len(sz) /\ (pct.rpos = 0 \/ pct.rpos < sz[pct.p])
Packets(q, sz) ==
    /\ q \in Seq(Pkt) /\ \A j \in 1 .. Len(q) : Packet(q[j], sz)
    /\ \A j \in 1 .. Len(q) - 1 : q[j + 1] = [p |-> q[j].p + 1, rpos |-> 0]
FirstOf(pct) == <<pct.p, IF pct.rpos = 0 THEN 0 ELSE pct.rpos + 1>>
Start(q, sz) == IF q = <<>> THEN <<Len(sz) + 1, 0>> ELSE FirstOf(q[1])
Line(w, buf, q, sz) ==
    /\ w \in Seq(Unit) /\ buf \in Seq(Unit) /\ Len(buf) <= BufSize
    /\ Packets(q, sz) /\ (q # <<>> => q[Len(q)].p = Len(sz))
    /\ Stream(w \o buf, Start(q, sz), sz)

\* A run of units that follow each other is appended.
LEMMA RunStream ==
    ASSUME NEW sz \in Seq(Nat), NEW s, NEW v, Stream(s, v, sz),
           NEW r \in Seq(Unit), r # <<>>, r[1] = v,
           \A j \in 1 .. Len(r) : r[j][1] \in 1 .. Len(sz),
           \A j \in 1 .. Len(r) - 1 : Follows(r[j], r[j + 1], sz),
           NEW u, Follows(r[Len(r)], u, sz)
    PROVE  Stream(s \o r, u, sz)
<1>. DEFINE t == s \o r
<1>1. s \in Seq(Unit) /\ Len(s) \in Nat /\ Len(r) \in Nat \ {0}
  BY DEF Stream
<1>2. /\ t \in Seq(Unit) /\ Len(t) = Len(s) + Len(r)
      /\ \A j \in 1 .. Len(s) : t[j] = s[j]
      /\ \A j \in 1 .. Len(r) : t[Len(s) + j] = r[j]
  BY <1>1
<1>. HIDE DEF t
<1>3. ASSUME NEW j \in 1 .. Len(t), j > Len(s)
      PROVE  j - Len(s) \in 1 .. Len(r) /\ t[j] = r[j - Len(s)]
  <2>1. j - Len(s) \in 1 .. Len(r) /\ Len(s) + (j - Len(s)) = j
    BY <1>1, <1>2, <1>3
  <2>. QED BY <1>2, <2>1
<1>4. ASSUME NEW j \in 1 .. Len(t) PROVE t[j][1] \in 1 .. Len(sz)
  <2>1. CASE j <= Len(s)
    BY <1>1, <1>2, <2>1 DEF Stream
  <2>2. CASE j > Len(s)
    BY <1>3, <2>2
  <2>. QED BY <1>1, <1>2, <2>1, <2>2
<1>5. ASSUME NEW j \in 1 .. Len(t) - 1 PROVE Follows(t[j], t[j + 1], sz)
  <2>1. j \in 1 .. Len(t) /\ j + 1 \in 1 .. Len(t)
    BY <1>1, <1>2
  <2>2. CASE j < Len(s)
    <3>0. j \in 1 .. Len(s) - 1 /\ j \in 1 .. Len(s) /\ j + 1 \in 1 .. Len(s)
      BY <1>1, <2>1, <2>2
    <3>1. j \in 1 .. Len(s) - 1 /\ t[j] = s[j] /\ t[j + 1] = s[j + 1]
      BY <1>2, <3>0
    <3>. QED BY <3>1 DEF Stream
  <2>3. CASE j = Len(s)
    <3>1. t[j] = s[Len(s)] /\ s # <<>>
      BY <1>1, <1>2, <2>3
    <3>2. t[j + 1] = v
      BY <1>1, <1>2, <2>3
    <3>. QED BY <3>1, <3>2 DEF Stream
  <2>4. CASE j > Len(s)
    <3>1. j - Len(s) \in 1 .. Len(r) - 1 /\ (j + 1) - Len(s) = (j - Len(s)) + 1
      BY <1>1, <1>2, <2>4
    <3>2. t[j] = r[j - Len(s)] /\ t[j + 1] = r[(j - Len(s)) + 1]
      BY <1>1, <1>3, <2>1, <2>4, <3>1
    <3>. QED BY <3>1, <3>2
  <2>. QED BY <1>1, <1>2, <2>2, <2>3, <2>4
<1>6. t # <<>> /\ t[1] = <<1, 0>> /\ t[Len(t)] = r[Len(r)]
  <2>1. t # <<>> /\ t[Len(t)] = r[Len(r)]
    BY <1>1, <1>2
  <2>2. CASE s = <<>>
    <3>1. t[1] = r[1] /\ v = <<1, 0>>
      BY <1>1, <1>2, <2>2 DEF Stream
    <3>. QED BY <2>1, <3>1
  <2>3. CASE s # <<>>
    <3>1. 1 \in 1 .. Len(s) /\ s[1] = <<1, 0>>
      BY <1>1, <2>3 DEF Stream
    <3>. QED BY <1>2, <2>1, <3>1
  <2>. QED BY <2>2, <2>3
<1>7. Stream(t, u, sz)
  BY <1>2, <1>4, <1>5, <1>6 DEF Stream
<1>. QED BY <1>7 DEF t

\* The header of a packet; it is repeated when nothing follows it.
LEMMA HeaderStream ==
    ASSUME NEW sz \in Seq(Nat), NEW s, NEW p \in 1 .. Len(sz), Stream(s, <<p, 0>>, sz)
    PROVE  /\ Stream(s \o Header(p), <<p, 0>>, sz)
           /\ sz[p] = 0 => Stream(s \o Header(p), <<p + 1, 0>>, sz)
           /\ sz[p] > 0 => Stream(s \o Header(p), <<p, 1>>, sz)
<1>. DEFINE r == Header(p)
<1>1. /\ r \in Seq(Unit) /\ Len(r) = 1 /\ r # <<>> /\ r[1] = <<p, 0>>
      /\ \A j \in 1 .. Len(r) : r[j][1] \in 1 .. Len(sz)
  BY DEF Header, Unit
<1>2. /\ Follows(<<p, 0>>, <<p, 0>>, sz)
      /\ sz[p] = 0 => Follows(<<p, 0>>, <<p + 1, 0>>, sz)
      /\ sz[p] > 0 => Follows(<<p, 0>>, <<p, 1>>, sz)
  BY DEF Follows
<1>. HIDE DEF r
<1>3. \A j \in 1 .. Len(r) - 1 : Follows(r[j], r[j + 1], sz)
  BY <1>1
<1>4. ASSUME NEW u, Follows(<<p, 0>>, u, sz) PROVE Stream(s \o r, u, sz)
  BY <1>1, <1>3, <1>4, RunStream
<1>. QED BY <1>2, <1>4 DEF r

\* A part of its payload.
LEMMA PayloadStream ==
    ASSUME NEW sz \in Seq(Nat), NEW s, NEW p \in 1 .. Len(sz), NEW from \in Nat, from < sz[p],
           NEW n \in Nat, from + n <= sz[p], Stream(s, <<p, from + 1>>, sz)
    PROVE  Stream(s \o Payload(p, from, n),
                  IF from + n = sz[p] THEN <<p + 1, 0>> ELSE <<p, from + n + 1>>, sz)
<1>. DEFINE r == Payload(p, from, n)
            u == IF from + n = sz[p] THEN <<p + 1, 0>> ELSE <<p, from + n + 1>>
<1>1. sz[p] \in Nat
  OBVIOUS
<1>2. /\ r \in Seq(Unit) /\ Len(r) = n
      /\ \A j \in 1 .. n : r[j] = <<p, from + j>>
  BY DEF Payload, Unit
<1>3. CASE n = 0
  <2>1. r = <<>> /\ u = <<p, from + 1>>
    BY <1>1, <1>2, <1>3
  <2>2. s \o <<>> = s
    BY DEF Stream
  <2>. HIDE DEF r, u
  <2>3. Stream(s \o r, u, sz)
    BY <2>1, <2>2
  <2>. QED BY <2>3 DEF r, u
<1>4. CASE n # 0
  <2>. HIDE DEF r
  <2>1. r # <<>> /\ r[1] = <<p, from + 1>> /\ \A j \in 1 .. Len(r) : r[j][1] \in 1 .. Len(sz)
    BY <1>2, <1>4
  <2>2. ASSUME NEW j \in 1 .. Len(r) - 1 PROVE Follows(r[j], r[j + 1], sz)
    <3>0. j \in 1 .. n /\ j + 1 \in 1 .. n /\ from + (j + 1) = from + j + 1 /\ from + j < sz[p]
      BY <1>1, <1>2
    <3>1. r[j] = <<p, from + j>> /\ r[j + 1] = <<p, from + j + 1>> /\ from + j < sz[p]
      BY <1>2, <3>0
    <3>. QED BY <3>1 DEF Follows
  <2>3. Follows(r[Len(r)], u, sz)
    <3>1. r[Len(r)] = <<p, from + n>>
      BY <1>2, <1>4
    <3>2. from + n < sz[p] <=> from + n # sz[p]
      BY <1>1
    <3>3. /\ from + n = sz[p] => u = <<p + 1, 0>>
          /\ from + n # sz[p] => u = <<p, from + n + 1>>
      OBVIOUS
    <3>. HIDE DEF u
    <3>. QED BY <3>1, <3>2, <3>3 DEF Follows
  <2>. HIDE DEF u
  <2>4. Stream(s \o r, u, sz)
    BY <1>2, <2>1, <2>2, <2>3, RunStream
  <2>. QED BY <2>4 DEF r, u
<1>. QED BY <1>3, <1>4

\* One more packet is accepted.
LEMMA StreamGrows ==
    ASSUME NEW sz \in Seq(Nat), NEW n \in Nat, NEW s, NEW v, Stream(s, v, sz)
    PROVE  Stream(s, v, Append(sz, n))
<1>. DEFINE sy == Append(sz, n)
<1>1. Len(sz) \in Nat /\ Len(sy) = Len(sz) + 1 /\ \A i \in 1 .. Len(sz) : sy[i] = sz[i]
  OBVIOUS
<1>. HIDE DEF sy
<1>2. \A j \in 1 .. Len(s) : s[j][1] \in 1 .. Len(sz) /\ s[j][1] \in 1 .. Len(sy)
  BY <1>1 DEF Stream
<1>3. ASSUME NEW j \in 1 .. Len(s), NEW w PROVE Follows(s[j], w, sz) => Follows(s[j], w, sy)
  BY <1>1, <1>2 DEF Follows
<1>4. \A j \in 1 .. Len(s) - 1 : j \in 1 .. Len(s)
  BY DEF Stream
<1>5. s # <<>> => Len(s) \in 1 .. Len(s)
  BY DEF Stream
<1>6. Stream(s, v, sy)
  BY <1>2, <1>3, <1>4, <1>5 DEF Stream
<1>. QED BY <1>6 DEF sy
-----------------------------------------------------------------------------
(* iFlushPacketQueue().                                                    *)

Out == [buf : Seq(Unit), queue : Seq(Pkt), stop : BOOLEAN, have : BOOLEAN, ok : BOOLEAN]
Fits == {o \in Out : Len(o.buf) <= BufSize}

\* The buffer with the header of a packet, if it was not written yet.
Begun(o, pct) == IF pct.rpos = 0 THEN o.buf \o Header(pct.p) ELSE o.buf

\* What iSendPartialPacket() does with n units of the payload.
Wrote(f, o, pct, size, n) ==
    /\ n \in Nat /\ pct.rpos + n <= size
    /\ f.buf = Begun(o, pct) \o Payload(pct.p, pct.rpos, n)
    /\ f.stop = (pct.rpos + n # size)
    /\ f.queue = IF pct.rpos + n = size THEN o.queue
                 ELSE Append(o.queue, [pct EXCEPT !.rpos = pct.rpos + n])

\* A packet is put back, or some of it is written.
LEMMA PartialIs ==
    ASSUME NEW o \in Fits, NEW pct \in Pkt, NEW size \in Nat, pct.rpos <= size,
           NEW f, f = iSendPartialPacket(o, pct, size)
    PROVE  /\ f \in Fits
           /\ \/ f.stop /\ f.buf = o.buf /\ f.queue = Append(o.queue, pct)
              \/ \E n \in Nat : Wrote(f, o, pct, size, n)
<1>. DEFINE big  == pct.rpos = 0 /\ Space(o) < size + 1 /\ size > Useful /\ Space(o) < 1 + Useful
            full == pct.rpos = 0 /\ Space(o) < 1
            head == Begun(o, pct)
            n    == IF BufSize - Len(head) < size - pct.rpos
                    THEN BufSize - Len(head) ELSE size - pct.rpos
            done == pct.rpos + n = size
            qf   == IF done THEN o.queue ELSE Append(o.queue, [pct EXCEPT !.rpos = pct.rpos + n])
            back == [o EXCEPT !.stop = TRUE, !.ok = big, !.queue = Append(@, pct)]
            part == [o EXCEPT !.buf = head \o Payload(pct.p, pct.rpos, n), !.have = TRUE,
                              !.stop = ~done, !.queue = qf]
<1>1. o \in Out /\ o.buf \in Seq(Unit) /\ Len(o.buf) \in Nat /\ Len(o.buf) <= BufSize
      /\ o.queue \in Seq(Pkt) /\ pct.p \in Nat \ {0} /\ pct.rpos \in Nat /\ BufSize \in Nat
  BY SocketConstants DEF Fits, Out, Pkt
<1>0. \A x, y \in Seq(Unit) : x \o y \in Seq(Unit) /\ Len(x \o y) = Len(x) + Len(y)
  OBVIOUS
<1>2. f = IF big \/ full THEN back ELSE part
  BY DEF iSendPartialPacket, Begun
<1>3. big \in BOOLEAN /\ full \in BOOLEAN /\ done \in BOOLEAN
  OBVIOUS
<1>4. CASE big \/ full
  <2>1. f = back
    BY <1>2, <1>4
  <2>2. Append(o.queue, pct) \in Seq(Pkt)
    BY <1>1
  <2>. HIDE DEF big, full
  <2>3. f \in Out /\ f.stop /\ f.buf = o.buf /\ f.queue = Append(o.queue, pct)
    BY <1>1, <1>3, <2>1, <2>2 DEF Out
  <2>. QED BY <1>1, <2>3 DEF Fits
<1>5. CASE ~(big \/ full)
  <2>1. f = part
    BY <1>2, <1>5
  <2>2. head \in Seq(Unit) /\ Len(head) \in Nat /\ Len(head) <= BufSize
    <3>1. CASE pct.rpos = 0
      <4>1. Len(o.buf) < BufSize
        BY <1>1, <1>5, <3>1 DEF Space
      <4>2. Header(pct.p) \in Seq(Unit) /\ Len(Header(pct.p)) = 1
        BY <1>1 DEF Header, Unit
      <4>3. o.buf \o Header(pct.p) \in Seq(Unit) /\ Len(o.buf \o Header(pct.p)) = Len(o.buf) + 1
        BY <1>0, <1>1, <4>2
      <4>4. head = o.buf \o Header(pct.p)
        BY <3>1 DEF Begun
      <4>. HIDE DEF head
      <4>5. head \in Seq(Unit) /\ Len(head) = Len(o.buf) + 1
        BY <4>3, <4>4
      <4>6. Len(o.buf) + 1 \in Nat /\ Len(o.buf) + 1 <= BufSize
        BY <1>1, <4>1
      <4>. QED BY <4>5, <4>6
    <3>2. CASE pct.rpos # 0
      BY <1>1, <3>2 DEF Begun
    <3>. QED BY <3>1, <3>2
  <2>. HIDE DEF big, full, head
  <2>3. n \in Nat /\ pct.rpos + n <= size /\ n <= BufSize - Len(head)
    BY <1>1, <2>2
  <2>. HIDE DEF n
  <2>4. /\ Payload(pct.p, pct.rpos, n) \in Seq(Unit) /\ Len(Payload(pct.p, pct.rpos, n)) = n
    BY <1>1, <2>3 DEF Payload, Unit
  <2>. DEFINE b == head \o Payload(pct.p, pct.rpos, n)
  <2>5. b \in Seq(Unit) /\ Len(b) = Len(head) + n
    BY <2>2, <2>3, <2>4
  <2>6. Len(b) <= BufSize
    BY <1>1, <2>2, <2>3, <2>5
  <2>7. qf \in Seq(Pkt)
    <3>1. [pct EXCEPT !.rpos = pct.rpos + n] \in Pkt
      BY <1>1, <2>3 DEF Pkt
    <3>. QED BY <1>1, <3>1
  <2>. DEFINE st == ~done
  <2>8. st \in BOOLEAN /\ f = [o EXCEPT !.buf = b, !.have = TRUE, !.stop = st, !.queue = qf]
    BY <2>1
  <2>. HIDE DEF b, qf, done, st, part
  <2>9. f \in Out /\ f.buf = b /\ f.stop = st /\ f.queue = qf
    BY <1>1, <2>5, <2>7, <2>8 DEF Out
  <2>10. f \in Fits
    BY <2>6, <2>9 DEF Fits
  <2>11. Wrote(f, o, pct, size, n)
    BY <2>3, <2>9 DEF Wrote, b, qf, done, head, st
  <2>. QED BY <2>3, <2>10, <2>11
<1>. QED BY <1>4, <1>5

\* Joining lists of units.
LEMMA UnitsJoin ==
    /\ \A x, y \in Seq(Unit) : x \o y \in Seq(Unit) /\ Len(x \o y) = Len(x) + Len(y)
    /\ \A x, y, z \in Seq(Unit) : (x \o y) \o z = x \o (y \o z)
BY ConcatAssociative, ConcatProperties

\* All of a packet is in the buffer of f, or what is left of it is the queue of f.
Took(f, w, pct, sz) ==
    /\ f \in Fits
    /\ ~f.stop => f.queue = <<>> /\ Stream(w \o f.buf, <<pct.p + 1, 0>>, sz)
    /\ f.stop => \E k : /\ f.queue = <<k>> /\ Packet(k, sz) /\ k.p = pct.p
                        /\ Stream(w \o f.buf, FirstOf(k), sz)

\* The next packet of the queue, where none stayed behind before it.
LEMMA PartialStream ==
    ASSUME NEW sz \in Seq(Nat), NEW w \in Seq(Unit), NEW o \in Fits, o.queue = <<>>,
           NEW pct, Packet(pct, sz), Stream(w \o o.buf, FirstOf(pct), sz),
           NEW f, f = iSendPartialPacket(o, pct, sz[pct.p])
    PROVE  Took(f, w, pct, sz)
<1>. DEFINE p    == pct.p
            size == sz[p]
            s    == w \o o.buf
<1>1. /\ pct \in Pkt /\ p \in 1 .. Len(sz) /\ size \in Nat /\ pct.rpos \in Nat
      /\ pct.rpos <= size /\ (pct.rpos = 0 \/ pct.rpos < size)
      /\ o.buf \in Seq(Unit)
  BY DEF Packet, Pkt, Fits, Out
<1>. HIDE DEF size
<1>2. f = iSendPartialPacket(o, pct, size)
  BY DEF size
<1>3. /\ f \in Fits
      /\ \/ f.stop /\ f.buf = o.buf /\ f.queue = Append(o.queue, pct)
         \/ \E n \in Nat : Wrote(f, o, pct, size, n)
  BY <1>1, <1>2, PartialIs
<1>4. CASE f.stop /\ f.buf = o.buf /\ f.queue = Append(o.queue, pct)
  <2>1. f.queue = <<pct>> /\ Stream(w \o f.buf, FirstOf(pct), sz)
    BY <1>4
  <2>. QED BY <1>3, <1>4, <2>1 DEF Took
<1>5. ASSUME NEW n \in Nat, Wrote(f, o, pct, size, n)
      PROVE  Took(f, w, pct, sz)
  <2>. DEFINE r == pct.rpos + n
              k == [pct EXCEPT !.rpos = r]
              h == Begun(o, pct)
              u == IF r = size THEN <<p + 1, 0>> ELSE FirstOf(k)
  <2>1. r \in Nat /\ r <= size /\ k \in Pkt /\ k.p = p /\ k.rpos = r
    <3>1. r \in Nat /\ r <= size
      BY <1>1, <1>5 DEF Wrote
    <3>2. k = [pct EXCEPT !.rpos = r]
      OBVIOUS
    <3>. HIDE DEF r
    <3>. QED BY <1>1, <3>1 DEF Pkt
  <2>2. Stream(w \o f.buf, u, sz)
    <3>1. h \in Seq(Unit) /\ Payload(p, pct.rpos, n) \in Seq(Unit)
      <4>1. Header(p) \in Seq(Unit)
        BY <1>1 DEF Header, Unit
      <4>. QED BY <1>1, <4>1 DEF Begun, Payload, Unit
    <3>2. w \o f.buf = (w \o h) \o Payload(p, pct.rpos, n)
      <4>1. f.buf = h \o Payload(p, pct.rpos, n)
        BY <1>5 DEF Wrote
      <4>. DEFINE d == Payload(p, pct.rpos, n)
      <4>2. d \in Seq(Unit) /\ h \in Seq(Unit) /\ f.buf = h \o d
        BY <3>1, <4>1
      <4>. HIDE DEF h, d
      <4>3. w \o (h \o d) = (w \o h) \o d
        BY <4>2, UnitsJoin
      <4>4. w \o f.buf = (w \o h) \o d
        BY <4>2, <4>3
      <4>. QED BY <4>4 DEF d
    <3>3. CASE pct.rpos = 0
      <4>1. Stream(s, <<p, 0>>, sz)
        BY <3>3 DEF FirstOf
      <4>2. w \o h = s \o Header(p)
        <5>1. Header(p) \in Seq(Unit) /\ h = o.buf \o Header(p)
          BY <1>1, <3>3 DEF Header, Unit, Begun
        <5>. HIDE DEF h
        <5>2. w \o (o.buf \o Header(p)) = (w \o o.buf) \o Header(p)
          BY <1>1, <5>1, UnitsJoin
        <5>. QED BY <5>1, <5>2
      <4>. HIDE DEF s, h
      <4>3. /\ Stream(w \o h, <<p, 0>>, sz)
            /\ size = 0 => Stream(w \o h, <<p + 1, 0>>, sz)
            /\ size > 0 => Stream(w \o h, <<p, 1>>, sz)
        BY <1>1, <4>1, <4>2, HeaderStream DEF size
      <4>4. CASE n = 0
        <5>1. Payload(p, pct.rpos, n) = <<>>
          BY <4>4 DEF Payload
        <5>2. (w \o h) \o <<>> = w \o h
          BY <3>1
        <5>3. w \o f.buf = w \o h
          BY <3>2, <5>1, <5>2
        <5>4. u = IF size = 0 THEN <<p + 1, 0>> ELSE <<p, 0>>
          BY <1>1, <2>1, <3>3, <4>4 DEF FirstOf
        <5>. HIDE DEF u
        <5>. QED BY <4>3, <5>3, <5>4
      <4>5. CASE n # 0
        <5>1. size > 0 /\ n <= size /\ 0 + n = n
          BY <1>1, <2>1, <3>3, <4>5
        <5>2. Stream(w \o h, <<p, 0 + 1>>, sz)
          BY <4>3, <5>1
        <5>3. Stream((w \o h) \o Payload(p, 0, n),
                     IF 0 + n = sz[p] THEN <<p + 1, 0>> ELSE <<p, 0 + n + 1>>, sz)
          BY <1>1, <5>1, <5>2, PayloadStream DEF size
        <5>4. u = IF 0 + n = sz[p] THEN <<p + 1, 0>> ELSE <<p, 0 + n + 1>>
          <6>1. r = 0 + n /\ (0 + n # sz[p] => k.rpos # 0) /\ size = sz[p]
            BY <2>1, <3>3, <4>5 DEF size
          <6>. HIDE DEF r, k
          <6>. QED BY <2>1, <6>1 DEF FirstOf
        <5>. HIDE DEF u
        <5>. QED BY <3>2, <3>3, <5>3, <5>4
      <4>. QED BY <4>4, <4>5
    <3>4. CASE pct.rpos # 0
      <4>1. h = o.buf /\ Stream(w \o h, <<p, pct.rpos + 1>>, sz)
        BY <3>4 DEF Begun, FirstOf
      <4>. HIDE DEF h
      <4>2. Stream((w \o h) \o Payload(p, pct.rpos, n),
                   IF pct.rpos + n = sz[p] THEN <<p + 1, 0>> ELSE <<p, pct.rpos + n + 1>>, sz)
        BY <1>1, <2>1, <3>4, <4>1, PayloadStream DEF size
      <4>3. u = IF pct.rpos + n = sz[p] THEN <<p + 1, 0>> ELSE <<p, pct.rpos + n + 1>>
        <5>1. size = sz[p] /\ k.rpos # 0
          BY <1>1, <2>1, <3>4 DEF size
        <5>2. FirstOf(k) = <<p, pct.rpos + n + 1>>
          <6>. HIDE DEF k
          <6>. QED BY <2>1, <5>1 DEF FirstOf
        <5>. HIDE DEF k
        <5>. QED BY <5>1, <5>2
      <4>. HIDE DEF u
      <4>. QED BY <3>2, <4>2, <4>3
    <3>. QED BY <3>3, <3>4
  <2>3. /\ f.stop <=> r # size
        /\ r = size => f.queue = <<>>
        /\ r # size => f.queue = <<k>>
    <3>1. /\ f.stop <=> r # size
          /\ f.queue = IF r = size THEN o.queue ELSE Append(o.queue, k)
      BY <1>5 DEF Wrote
    <3>2. Append(<<>>, k) = <<k>>
      OBVIOUS
    <3>. HIDE DEF r, k
    <3>. QED BY <3>1, <3>2
  <2>4. r # size => Packet(k, sz)
    BY <1>1, <2>1 DEF Packet, size
  <2>. HIDE DEF r, k
  <2>. QED BY <1>3, <2>1, <2>2, <2>3, <2>4 DEF Took
<1>. QED BY <1>3, <1>4, <1>5

\* Is o what k packets of q make of an empty output?  Either none stayed behind yet, or
\* those that did are a tail of the first k.
Flushed(w, q, sz, o, k) ==
    /\ o \in Fits
    /\ ~o.stop => /\ o.queue = <<>>
                  /\ Stream(w \o o.buf, IF k = 0 THEN Start(q, sz) ELSE <<q[k].p + 1, 0>>, sz)
    /\ o.stop => /\ k > 0 /\ o.queue # <<>> /\ Packets(o.queue, sz)
                 /\ o.queue[Len(o.queue)].p = q[k].p
                 /\ Stream(w \o o.buf, FirstOf(o.queue[1]), sz)

\* What one packet does to the output of iFlushPacketQueue().
TakeNext(o, pct, sz) ==
    IF o.stop THEN [o EXCEPT !.queue = Append(@, pct)]
    ELSE iSendPartialPacket(o, pct, sz[pct.p])

\* It stays an output that fits.
LEMMA TakeTyped ==
    ASSUME NEW sz \in Seq(Nat), NEW o \in Fits, NEW pct, Packet(pct, sz)
    PROVE  TakeNext(o, pct, sz) \in Fits
<1>1. pct \in Pkt /\ sz[pct.p] \in Nat /\ pct.rpos <= sz[pct.p]
  BY DEF Packet, Pkt
<1>2. CASE o.stop
  <2>1. Append(o.queue, pct) \in Seq(Pkt)
    BY <1>1 DEF Fits, Out
  <2>. QED BY <1>2, <2>1 DEF TakeNext, Fits, Out
<1>3. CASE ~o.stop
  BY <1>1, <1>3, PartialIs DEF TakeNext
<1>. QED BY <1>2, <1>3

\* A packet is appended to a list.
LEMMA PacketsAppend ==
    ASSUME NEW sz, NEW q, Packets(q, sz), q # <<>>, NEW pct, Packet(pct, sz),
           pct = [p |-> q[Len(q)].p + 1, rpos |-> 0]
    PROVE  /\ Packets(Append(q, pct), sz) /\ Append(q, pct) # <<>>
           /\ Append(q, pct)[1] = q[1]
           /\ Append(q, pct)[Len(Append(q, pct))] = pct
<1>. DEFINE t == Append(q, pct)
<1>1. q \in Seq(Pkt) /\ pct \in Pkt /\ Len(q) \in Nat \ {0}
  BY DEF Packets, Packet
<1>2. /\ t \in Seq(Pkt) /\ Len(t) = Len(q) + 1 /\ t[Len(q) + 1] = pct /\ t # <<>>
      /\ \A j \in 1 .. Len(q) : t[j] = q[j]
  BY <1>1
<1>. HIDE DEF t
<1>3. ASSUME NEW j \in 1 .. Len(t) PROVE Packet(t[j], sz)
  <2>1. j \in 1 .. Len(q) \/ j = Len(q) + 1
    BY <1>1, <1>2
  <2>. QED BY <1>2, <2>1 DEF Packets
<1>4. ASSUME NEW j \in 1 .. Len(t) - 1 PROVE t[j + 1] = [p |-> t[j].p + 1, rpos |-> 0]
  <2>1. j \in 1 .. Len(q) /\ (j = Len(q) \/ (j \in 1 .. Len(q) - 1 /\ j + 1 \in 1 .. Len(q)))
    BY <1>1, <1>2
  <2>2. CASE j = Len(q)
    BY <1>2, <2>1, <2>2
  <2>3. CASE j \in 1 .. Len(q) - 1 /\ j + 1 \in 1 .. Len(q)
    BY <1>2, <2>1, <2>3 DEF Packets
  <2>. QED BY <2>1, <2>2, <2>3
<1>5. Packets(t, sz) /\ t # <<>> /\ t[1] = q[1] /\ t[Len(t)] = pct
  BY <1>1, <1>2, <1>3, <1>4 DEF Packets
<1>. QED BY <1>5 DEF t

\* One packet more.
LEMMA FlushStep ==
    ASSUME NEW sz \in Seq(Nat), NEW w \in Seq(Unit), NEW q, Packets(q, sz),
           NEW k \in Nat, k + 1 \in 1 .. Len(q), NEW o, Flushed(w, q, sz, o, k),
           NEW f, f = TakeNext(o, q[k + 1], sz)
    PROVE  Flushed(w, q, sz, f, k + 1)
<1>. DEFINE pct == q[k + 1]
<1>1. Packet(pct, sz) /\ pct \in Pkt /\ o \in Fits /\ k + 1 > 0 /\ k + 1 # 0
  BY DEF Packets, Packet, Flushed
<1>2. k # 0 => pct = [p |-> q[k].p + 1, rpos |-> 0]
  <2>1. k # 0 => k \in 1 .. Len(q) - 1
    OBVIOUS
  <2>. QED BY <2>1 DEF Packets
<1>. HIDE DEF pct
<1>3. f \in Fits
  BY <1>1, TakeTyped DEF pct
<1>4. CASE o.stop
  <2>1. k # 0 /\ Packets(o.queue, sz) /\ o.queue # <<>> /\ o.queue[Len(o.queue)].p = q[k].p
        /\ Stream(w \o o.buf, FirstOf(o.queue[1]), sz)
    BY <1>4 DEF Flushed
  <2>2. f = [o EXCEPT !.queue = Append(o.queue, pct)]
    BY <1>4 DEF TakeNext, pct
  <2>3. f.stop /\ f.buf = o.buf /\ f.queue = Append(o.queue, pct)
    BY <1>1, <1>4, <2>2 DEF Fits, Out
  <2>4. /\ Packets(f.queue, sz) /\ f.queue # <<>> /\ f.queue[1] = o.queue[1]
        /\ f.queue[Len(f.queue)] = pct
    <3>. DEFINE g == o.queue
    <3>1. Packets(g, sz) /\ g # <<>> /\ pct = [p |-> g[Len(g)].p + 1, rpos |-> 0]
      BY <1>2, <2>1
    <3>. HIDE DEF g
    <3>2. /\ Packets(Append(g, pct), sz) /\ Append(g, pct) # <<>>
          /\ Append(g, pct)[1] = g[1]
          /\ Append(g, pct)[Len(Append(g, pct))] = pct
      BY <1>1, <3>1, PacketsAppend
    <3>3. f.queue = Append(g, pct)
      BY <2>3 DEF g
    <3>. QED BY <3>2, <3>3 DEF g
  <2>. QED BY <1>1, <1>3, <2>1, <2>3, <2>4 DEF Flushed, pct
<1>5. CASE ~o.stop
  <2>1. /\ o.queue = <<>>
        /\ Stream(w \o o.buf, IF k = 0 THEN Start(q, sz) ELSE <<q[k].p + 1, 0>>, sz)
    BY <1>5 DEF Flushed
  <2>2. (IF k = 0 THEN Start(q, sz) ELSE <<q[k].p + 1, 0>>) = FirstOf(pct)
    <3>1. CASE k = 0
      <4>1. q # <<>> /\ pct = q[1]
        BY <3>1 DEF pct, Packets
      <4>. QED BY <3>1, <4>1 DEF Start
    <3>2. CASE k # 0
      BY <1>2, <3>2 DEF FirstOf
    <3>. QED BY <3>1, <3>2
  <2>3. f = iSendPartialPacket(o, pct, sz[pct.p])
    BY <1>5 DEF TakeNext, pct
  <2>4. Stream(w \o o.buf, FirstOf(pct), sz)
    BY <2>1, <2>2
  <2>5. Took(f, w, pct, sz)
    <3>1. o.queue = <<>>
      BY <2>1
    <3>. QED BY <1>1, <3>1, <2>3, <2>4, PartialStream
  <2>6. ASSUME NEW r, Packet(r, sz) PROVE Packets(<<r>>, sz) /\ <<r>>[1] = r /\ Len(<<r>>) = 1 /\ <<r>> # <<>>
    <3>1. <<r>> \in Seq(Pkt) /\ <<r>>[1] = r /\ Len(<<r>>) = 1
      BY <2>6 DEF Packet
    <3>. DEFINE t == <<r>>
    <3>. HIDE DEF t
    <3>2. Packets(t, sz)
      BY <2>6, <3>1 DEF Packets, t
    <3>. QED BY <3>1, <3>2 DEF t
  <2>7. CASE f.stop
    BY <1>1, <1>3, <2>5, <2>6, <2>7 DEF Flushed, Took, pct
  <2>8. CASE ~f.stop
    BY <1>1, <1>3, <2>5, <2>8 DEF Flushed, Took, pct
  <2>. QED BY <2>7, <2>8
<1>. QED BY <1>4, <1>5

\* iFlushPacketQueue() keeps the line: packets leave the queue in order, and only at its
\* head one can be left in part.
LEMMA FlushLine ==
    ASSUME NEW sz \in Seq(Nat), NEW w, NEW buf, NEW q, Line(w, buf, q, sz),
           NEW f, f = iFlushPacketQueue(buf, q, sz)
    PROVE  f \in Fits /\ Line(w, f.buf, f.queue, sz)
<1>. DEFINE m    == Len(q)
            base == [buf |-> buf, queue |-> <<>>, stop |-> FALSE, have |-> FALSE, ok |-> TRUE]
            F    == [x \in Fits \X (1 .. m) |-> TakeNext(x[1], q[x[2]], sz)]
            iter[s \in SUBSET DOMAIN q] ==
              IF s = {} THEN base ELSE LET x == Max(s) IN TakeNext(iter[s \ {x}], q[x], sz)
<1>1. /\ w \in Seq(Unit) /\ buf \in Seq(Unit) /\ Len(buf) <= BufSize /\ Packets(q, sz)
      /\ q \in Seq(Pkt) /\ DOMAIN q = 1 .. m /\ m \in Nat
      /\ q # <<>> => q[m].p = Len(sz)
      /\ Stream(w \o buf, Start(q, sz), sz)
  BY DEF Line, Packets
<1>2. base \in Fits /\ base.buf = buf /\ base.queue = <<>> /\ base.stop = FALSE
  <2>1. <<>> \in Seq(Pkt)
    OBVIOUS
  <2>. QED BY <1>1, <2>1 DEF Fits, Out
<1>3. f = iter[DOMAIN q]
  BY DEF iFlushPacketQueue, FoldLeft, MapThenFoldSet, TakeNext
<1>. HIDE DEF base, m
<1>4. ASSUME NEW o \in Fits, NEW x \in 1 .. m PROVE TakeNext(o, q[x], sz) \in Fits
  <2>1. Packet(q[x], sz)
    BY <1>1 DEF Packets, m
  <2>. QED BY <2>1, TakeTyped
<1>5. F \in [Fits \X (1 .. m) -> Fits]
  BY <1>4
<1>6. HasFold(Fits, F, base, m)
  <2>. HIDE DEF F
  <2>. QED BY <1>1, <1>2, <1>5, SeqFoldExists
<1>7. PICK h \in [SUBSET (1 .. m) -> Fits] : FoldsSeq(h, F, base, m)
  <2>. HIDE DEF F
  <2>. QED BY <1>6 DEF HasFold
<1>8. \A s \in SUBSET (1 .. m) : s # {} => Max(s) \in s
  BY <1>1, MaxIs
<1>9. h = [s \in SUBSET DOMAIN q |->
             IF s = {} THEN base ELSE TakeNext(h[s \ {Max(s)}], q[Max(s)], sz)]
  <2>1. ASSUME NEW s \in SUBSET (1 .. m), s # {}
        PROVE  h[s] = TakeNext(h[s \ {Max(s)}], q[Max(s)], sz)
    <3>. DEFINE x == Max(s)
                o == h[s \ {x}]
    <3>1. x \in 1 .. m /\ o \in Fits
      BY <1>8, <2>1
    <3>2. h[s] = F[<<o, x>>]
      <4>. HIDE DEF F
      <4>. QED BY <1>7, <2>1 DEF FoldsSeq
    <3>. HIDE DEF x, o
    <3>3. F[<<o, x>>] = TakeNext(o, q[x], sz)
      BY <3>1
    <3>4. h[s] = TakeNext(o, q[x], sz)
      BY <3>2, <3>3
    <3>. QED BY <3>4 DEF x, o
  <2>2. h[{}] = base
    <3>. HIDE DEF F
    <3>. QED BY <1>7 DEF FoldsSeq
  <2>. QED BY <1>1, <1>7, <2>1, <2>2
<1>. HIDE DEF F
<1>10. iter = [s \in SUBSET DOMAIN q |->
                IF s = {} THEN base ELSE TakeNext(iter[s \ {Max(s)}], q[Max(s)], sz)]
  BY <1>9
<1>. HIDE DEF iter
<1>. DEFINE N == {k \in Nat : k <= m => Flushed(w, q, sz, iter[1 .. k], k)}
<1>11. 0 \in N
  <2>1. iter[1 .. 0] = base
    <3>1. 1 .. 0 = {} /\ {} \in SUBSET DOMAIN q
      OBVIOUS
    <3>. QED BY <1>10, <3>1
  <2>. QED BY <1>1, <1>2, <2>1 DEF Flushed
<1>12. ASSUME NEW k \in Nat, k \in N PROVE k + 1 \in N
  <2>. SUFFICES ASSUME k + 1 <= m PROVE Flushed(w, q, sz, iter[1 .. k + 1], k + 1)
    OBVIOUS
  <2>1. k + 1 \in 1 .. Len(q) /\ k <= m
    BY <1>1 DEF m
  <2>2. Flushed(w, q, sz, iter[1 .. k], k)
    BY <1>12, <2>1
  <2>3. iter[1 .. k + 1] = TakeNext(iter[1 .. k], q[k + 1], sz)
    <3>1. 1 .. k + 1 \in SUBSET DOMAIN q
      BY <1>1, <2>1
    <3>2. 1 .. k + 1 # {} /\ Max(1 .. k + 1) = k + 1 /\ (1 .. k + 1) \ {k + 1} = 1 .. k
      BY UpTo
    <3>3. iter[1 .. k + 1] = TakeNext(iter[(1 .. k + 1) \ {Max(1 .. k + 1)}],
                                     q[Max(1 .. k + 1)], sz)
      BY <1>10, <3>1, <3>2
    <3>. QED BY <3>2, <3>3
  <2>. HIDE DEF N
  <2>. QED BY <1>1, <2>1, <2>2, <2>3, FlushStep
<1>13. Flushed(w, q, sz, f, m)
  <2>1. m \in N
    <3>. HIDE DEF N
    <3>. QED BY <1>1, <1>11, <1>12, Induction
  <2>2. m <= m
    BY <1>1
  <2>. QED BY <1>1, <1>3, <2>1, <2>2
<1>14. f \in Fits /\ f.buf \in Seq(Unit) /\ Len(f.buf) <= BufSize
  BY <1>13 DEF Flushed, Fits, Out
<1>15. CASE f.stop
  <2>1. /\ m > 0 /\ f.queue # <<>> /\ Packets(f.queue, sz)
        /\ f.queue[Len(f.queue)].p = q[m].p
        /\ Stream(w \o f.buf, FirstOf(f.queue[1]), sz)
    BY <1>13, <1>15 DEF Flushed
  <2>2. q # <<>>
    BY <1>1, <2>1 DEF m
  <2>3. Start(f.queue, sz) = FirstOf(f.queue[1])
    BY <2>1 DEF Start
  <2>. QED BY <1>1, <1>14, <2>1, <2>2, <2>3 DEF Line
<1>16. CASE ~f.stop
  <2>1. /\ f.queue = <<>>
        /\ Stream(w \o f.buf, IF m = 0 THEN Start(q, sz) ELSE <<q[m].p + 1, 0>>, sz)
    BY <1>13, <1>16 DEF Flushed
  <2>2. (IF m = 0 THEN Start(q, sz) ELSE <<q[m].p + 1, 0>>) = <<Len(sz) + 1, 0>>
    <3>1. CASE m = 0
      <4>1. q = <<>>
        BY <1>1, <3>1 DEF m
      <4>. QED BY <3>1, <4>1 DEF Start
    <3>2. CASE m # 0
      <4>1. q # <<>>
        BY <3>2 DEF m
      <4>. QED BY <1>1, <3>2, <4>1
    <3>. QED BY <3>1, <3>2
  <2>3. Start(f.queue, sz) = <<Len(sz) + 1, 0>>
    BY <2>1 DEF Start
  <2>4. Stream(w \o f.buf, Start(f.queue, sz), sz)
    BY <2>1, <2>2, <2>3
  <2>5. Packets(f.queue, sz)
    BY <2>1 DEF Packets
  <2>. QED BY <1>1, <1>14, <2>1, <2>4, <2>5 DEF Line
<1>. QED BY <1>14, <1>15, <1>16
-----------------------------------------------------------------------------
(* The output in every state.                                              *)

OutputTypes ==
    /\ sent \in Seq(Nat) /\ out \in [buf : Seq(Unit), queue : Seq(Pkt)]
    /\ outActive \in BOOLEAN /\ aborted \in BOOLEAN
OutputGood == OutputTypes /\ Line(wire, out.buf, out.queue, sent)

\* A step that leaves the output alone.
LEMMA OutputSame == ASSUME OutputGood, UNCHANGED output PROVE OutputGood'
BY DEF OutputGood, OutputTypes, Line, output

\* What iFlushPacketQueue() leaves is a buffer and a queue, and it says what it did.
LEMMA FlushKept ==
    ASSUME NEW f \in Fits
    PROVE  /\ Kept(f) \in [buf : Seq(Unit), queue : Seq(Pkt)]
           /\ Kept(f).buf = f.buf /\ Kept(f).queue = f.queue
           /\ f.ok \in BOOLEAN /\ f.have \in BOOLEAN
BY DEF Fits, Out, Kept

\* A packet is copied to the buffer, or goes through the queue.
LEMMA SendPacketStep ==
    ASSUME OutputGood, NEW n \in Nat, NEW wake, SendPacket(n, wake)
    PROVE  OutputGood'
<1>. DEFINE p  == Len(sent) + 1
            sz == Append(sent, n)
            b  == out.buf
            q  == out.queue
            f  == iFlushPacketQueue(b, Append(q, [p |-> p, rpos |-> 0]), sz)
<1>1. /\ sent \in Seq(Nat) /\ wire \in Seq(Unit) /\ b \in Seq(Unit) /\ Len(b) <= BufSize
      /\ Packets(q, sent) /\ (q # <<>> => q[Len(q)].p = Len(sent))
      /\ Stream(wire \o b, Start(q, sent), sent)
      /\ outActive \in BOOLEAN /\ aborted \in BOOLEAN
      /\ out \in [buf : Seq(Unit), queue : Seq(Pkt)]
  BY DEF OutputGood, OutputTypes, Line
<1>2. sz \in Seq(Nat) /\ p \in 1 .. Len(sz) /\ sz[p] = n /\ Len(sz) = p /\ p \in Nat \ {0}
      /\ \A i \in 1 .. Len(sent) : sz[i] = sent[i]
  BY <1>1
<1>3. Stream(wire \o b, Start(q, sent), sz)
  BY <1>1, StreamGrows
<1>4. sent' = sz /\ wire' = wire
  BY DEF SendPacket
<1>5. CASE Direct(out, n)
  <2>1. q = <<>> /\ Len(b) + (n + 1) <= BufSize
    <3>1. Len(b) \in Nat /\ BufSize \in Nat
      BY <1>1, SocketConstants
    <3>2. q = <<>> /\ BufSize - Len(b) >= n + 1
      BY <1>5 DEF Direct, Space
    <3>. HIDE DEF b, q
    <3>. QED BY <3>1, <3>2
  <2>2. out' = [out EXCEPT !.buf = @ \o Header(p) \o Payload(p, 0, n)]
        /\ aborted' = aborted /\ outActive' = outActive
    BY <1>5 DEF SendPacket
  <2>. DEFINE h == Header(p)
              d == Payload(p, 0, n)
              c == b \o h \o d
  <2>3. /\ h \in Seq(Unit) /\ Len(h) = 1 /\ d \in Seq(Unit) /\ Len(d) = n
    BY <1>2 DEF Header, Payload, Unit
  <2>4. Start(q, sent) = <<p, 0>> /\ Start(q, sz) = <<p + 1, 0>>
    BY <1>2, <2>1 DEF Start
  <2>. HIDE DEF p, sz, b, q
  <2>5. /\ n = 0 => Stream((wire \o b) \o h, <<p + 1, 0>>, sz)
        /\ n > 0 => Stream((wire \o b) \o h, <<p, 0 + 1>>, sz)
    <3>1. Stream(wire \o b, <<p, 0>>, sz)
      BY <1>3, <2>4
    <3>2. /\ sz[p] = 0 => Stream((wire \o b) \o Header(p), <<p + 1, 0>>, sz)
          /\ sz[p] > 0 => Stream((wire \o b) \o Header(p), <<p, 1>>, sz)
      BY <1>2, <3>1, HeaderStream
    <3>3. 0 + 1 = 1
      OBVIOUS
    <3>. QED BY <1>2, <3>2, <3>3
  <2>6. Stream(((wire \o b) \o h) \o d, <<p + 1, 0>>, sz)
    <3>1. CASE n = 0
      <4>1. d = <<>>
        BY <3>1 DEF Payload
      <4>2. ((wire \o b) \o h) \o <<>> = (wire \o b) \o h
        BY <1>1, <2>3
      <4>. QED BY <2>5, <3>1, <4>1, <4>2
    <3>2. CASE n # 0
      <4>1. 0 < sz[p] /\ 0 + n <= sz[p] /\ 0 + n = sz[p] /\ 0 \in Nat
        BY <1>2, <3>2
      <4>2. Stream((wire \o b) \o h, <<p, 0 + 1>>, sz)
        BY <2>5, <3>2
      <4>3. Stream(((wire \o b) \o h) \o Payload(p, 0, n),
                   IF 0 + n = sz[p] THEN <<p + 1, 0>> ELSE <<p, 0 + n + 1>>, sz)
        BY <1>2, <4>1, <4>2, PayloadStream
      <4>. QED BY <4>1, <4>3
    <3>. QED BY <3>1, <3>2
  <2>. HIDE DEF h, d
  <2>7. /\ c \in Seq(Unit) /\ wire \o c = ((wire \o b) \o h) \o d
    <3>0. wire \in Seq(Unit) /\ b \in Seq(Unit) /\ h \in Seq(Unit) /\ d \in Seq(Unit)
      BY <1>1, <2>3
    <3>1. b \o h \in Seq(Unit) /\ wire \o (b \o h) = (wire \o b) \o h
      BY <3>0, UnitsJoin
    <3>2. (b \o h) \o d \in Seq(Unit) /\ wire \o ((b \o h) \o d) = (wire \o (b \o h)) \o d
      <4>. DEFINE x == b \o h
      <4>1. x \in Seq(Unit)
        BY <3>1
      <4>. HIDE DEF x
      <4>2. x \o d \in Seq(Unit) /\ wire \o (x \o d) = (wire \o x) \o d
        BY <3>0, <4>1, UnitsJoin
      <4>. QED BY <4>2 DEF x
    <3>. QED BY <3>1, <3>2
  <2>8. Len(c) <= BufSize
    <3>0. \A x, y \in Seq(Unit) : x \o y \in Seq(Unit) /\ Len(x \o y) = Len(x) + Len(y)
      OBVIOUS
    <3>1. b \o h \in Seq(Unit) /\ Len(b \o h) = Len(b) + 1
      BY <1>1, <2>3, <3>0
    <3>2. Len(c) = (Len(b) + 1) + n
      BY <2>3, <3>0, <3>1
    <3>3. Len(b) \in Nat /\ BufSize \in Nat
      BY <1>1, SocketConstants
    <3>. QED BY <2>1, <3>2, <3>3
  <2>9. out' = [buf |-> c, queue |-> q]
    BY <1>1, <2>2 DEF b, q, h, d
  <2>10. Packets(q, sz)
    BY <2>1 DEF Packets
  <2>. HIDE DEF c
  <2>11. Line(wire, c, q, sz)
    BY <1>1, <2>1, <2>4, <2>6, <2>7, <2>8, <2>10 DEF Line
  <2>12. out' \in [buf : Seq(Unit), queue : Seq(Pkt)] /\ out'.buf = c /\ out'.queue = q
    BY <2>7, <2>9, <2>10 DEF Packets
  <2>. QED BY <1>1, <1>2, <1>4, <2>2, <2>11, <2>12 DEF OutputGood, OutputTypes
<1>6. CASE ~Direct(out, n)
  <2>. DEFINE new == [p |-> p, rpos |-> 0]
              t   == Append(q, new)
  <2>1. /\ out' = Kept(f) /\ aborted' = ~f.ok
        /\ outActive' = (outActive \/ (f.ok /\ f.have))
    BY <1>6 DEF SendPacket
  <2>2. Packet(new, sz) /\ new.p = Len(sz) /\ FirstOf(new) = <<p, 0>>
    BY <1>2 DEF Packet, Pkt, FirstOf
  <2>3. ASSUME NEW x, Packet(x, sent) PROVE Packet(x, sz)
    BY <1>1, <1>2, <2>3 DEF Packet, Pkt
  <2>4. Packets(q, sz)
    BY <1>1, <2>3 DEF Packets
  <2>5. Packets(t, sz) /\ t # <<>> /\ t[Len(t)] = new /\ FirstOf(t[1]) = Start(q, sent)
    <3>1. CASE q = <<>>
      <4>. HIDE DEF new
      <4>1. t = <<new>>
        BY <3>1
      <4>2. t \in Seq(Pkt) /\ Len(t) = 1 /\ t[1] = new /\ t # <<>>
        BY <2>2, <4>1 DEF Packet
      <4>3. FirstOf(new) = Start(q, sent)
        BY <2>2, <3>1 DEF Start
      <4>. HIDE DEF t
      <4>. QED BY <2>2, <4>2, <4>3 DEF Packets
    <3>2. CASE q # <<>>
      <4>1. new = [p |-> q[Len(q)].p + 1, rpos |-> 0]
        BY <1>1, <3>2
      <4>2. Start(q, sent) = FirstOf(q[1])
        BY <3>2 DEF Start
      <4>. HIDE DEF new, q, sz
      <4>. QED BY <2>2, <2>4, <3>2, <4>1, <4>2, PacketsAppend
    <3>. QED BY <3>1, <3>2
  <2>. HIDE DEF new, sz, b, q, t
  <2>6. Line(wire, b, t, sz)
    <3>1. Start(t, sz) = Start(q, sent)
      BY <2>5 DEF Start
    <3>. QED BY <1>1, <1>3, <2>2, <2>5, <3>1 DEF Line
  <2>7. f = iFlushPacketQueue(b, t, sz)
    BY DEF t, new
  <2>. HIDE DEF f
  <2>8. f \in Fits /\ Line(wire, f.buf, f.queue, sz)
    BY <1>2, <2>6, <2>7, FlushLine
  <2>9. /\ Kept(f) \in [buf : Seq(Unit), queue : Seq(Pkt)]
        /\ Kept(f).buf = f.buf /\ Kept(f).queue = f.queue
        /\ f.ok \in BOOLEAN /\ f.have \in BOOLEAN
    BY <2>8, FlushKept
  <2>10. outActive' \in BOOLEAN /\ aborted' \in BOOLEAN
    BY <2>1
  <2>. QED BY <1>2, <1>4, <2>1, <2>8, <2>9, <2>10 DEF OutputGood, OutputTypes
<1>. QED BY <1>5, <1>6

\* The kernel takes n units from the buffer.
LEMMA Taken ==
    ASSUME NEW w \in Seq(Unit), NEW b \in Seq(Unit), NEW n \in 0 .. Len(b)
    PROVE  /\ w \o SubSeq(b, 1, n) \in Seq(Unit) /\ Remaining(b, n) \in Seq(Unit)
           /\ Len(Remaining(b, n)) <= Len(b)
           /\ (w \o SubSeq(b, 1, n)) \o Remaining(b, n) = w \o b
<1>. DEFINE x == SubSeq(b, 1, n)
            y == Remaining(b, n)
<1>1. /\ x \in Seq(Unit) /\ y \in Seq(Unit) /\ Len(x) = n /\ Len(y) = Len(b) - n
      /\ \A j \in 1 .. n : x[j] = b[j]
      /\ \A j \in 1 .. Len(b) - n : y[j] = b[n + j]
  BY DEF Remaining
<1>. HIDE DEF x, y
<1>2. x \o y = b
  <2>1. x \o y \in Seq(Unit) /\ Len(x \o y) = Len(b)
    <3>1. x \o y \in Seq(Unit) /\ Len(x \o y) = Len(x) + Len(y)
      BY <1>1, UnitsJoin
    <3>. QED BY <1>1, <3>1
  <2>2. ASSUME NEW j \in 1 .. Len(b) PROVE (x \o y)[j] = b[j]
    <3>0. Len(x) \in Nat /\ Len(y) \in Nat /\ j \in 1 .. Len(x) + Len(y)
      BY <1>1
    <3>1. CASE j <= n
      BY <1>1, <3>0, <3>1
    <3>2. CASE j > n
      <4>1. j - n \in 1 .. Len(b) - n /\ n + (j - n) = j
        BY <3>2
      <4>2. (x \o y)[j] = y[j - n]
        BY <1>1, <3>0, <3>2
      <4>. QED BY <1>1, <4>1, <4>2
    <3>3. j <= n \/ j > n
      OBVIOUS
    <3>. QED BY <3>1, <3>2, <3>3
  <2>. DEFINE z == x \o y
  <2>. HIDE DEF z
  <2>3. z = b
    BY <2>1, <2>2, SeqEqual DEF z
  <2>. QED BY <2>3 DEF z
<1>3. (w \o x) \o y = w \o (x \o y) /\ w \o x \in Seq(Unit)
  BY <1>1, UnitsJoin
<1>4. Len(y) <= Len(b)
  BY <1>1
<1>. QED BY <1>1, <1>2, <1>3, <1>4 DEF x, y

\* The kernel takes from a line whose buffer is not flushed.
LEMMA LineTaken ==
    ASSUME NEW w, NEW b, NEW q, NEW sz, Line(w, b, q, sz), NEW n \in 0 .. Len(b)
    PROVE  /\ Line(w \o SubSeq(b, 1, n), Remaining(b, n), q, sz)
           /\ n = Len(b) => Line(w \o SubSeq(b, 1, n), <<>>, q, sz)
<1>1. /\ w \in Seq(Unit) /\ b \in Seq(Unit) /\ Len(b) <= BufSize /\ Len(b) \in Nat
      /\ BufSize \in Nat
  BY SocketConstants DEF Line
<1>. DEFINE v == w \o SubSeq(b, 1, n)
            r == Remaining(b, n)
<1>2. /\ v \in Seq(Unit) /\ r \in Seq(Unit) /\ Len(r) <= Len(b) /\ v \o r = w \o b
  BY <1>1, Taken
<1>3. n = Len(b) => r = <<>>
  BY <1>1 DEF Remaining
<1>. HIDE DEF v, r
<1>4. Len(r) <= BufSize
  <2>1. Len(r) \in Nat
    BY <1>2
  <2>. QED BY <1>1, <1>2, <2>1
<1>5. Line(v, r, q, sz)
  BY <1>2, <1>4 DEF Line
<1>. QED BY <1>3, <1>5 DEF v, r

\* handle_output(): the buffer is filled, the kernel takes some of it, and it is filled
\* again when the kernel took it all.
LEMMA HandleOutputStep ==
    ASSUME OutputGood, NEW ok, NEW fails, handle_output(ok, fails)
    PROVE  OutputGood'
<1>. DEFINE f0 == iFlushPacketQueue(out.buf, out.queue, sent)
            o  == IF out.buf = <<>> THEN Kept(f0) ELSE out
            L  == [buf : Seq(Unit), queue : Seq(Pkt)]
<1>1. /\ sent \in Seq(Nat) /\ outActive \in BOOLEAN /\ aborted \in BOOLEAN
      /\ out \in L /\ Line(wire, out.buf, out.queue, sent)
  BY DEF OutputGood, OutputTypes
<1>. HIDE DEF f0
<1>2. f0 \in Fits /\ Line(wire, f0.buf, f0.queue, sent)
  BY <1>1, FlushLine DEF f0
<1>3. o \in L /\ Line(wire, o.buf, o.queue, sent)
  BY <1>1, <1>2, FlushKept
<1>. HIDE DEF o
<1>4. CASE UNCHANGED output
  BY <1>4, OutputSame
<1>5. CASE aborted' = TRUE /\ UNCHANGED <<out, outActive, wire, sent>>
  BY <1>1, <1>5 DEF OutputGood, OutputTypes
<1>6. CASE out' = o /\ outActive' = FALSE /\ UNCHANGED <<wire, sent, aborted>>
  BY <1>1, <1>3, <1>6 DEF OutputGood, OutputTypes
<1>7. CASE out' = o /\ UNCHANGED <<outActive, wire, sent, aborted>>
  BY <1>1, <1>3, <1>7 DEF OutputGood, OutputTypes
<1>8. ASSUME NEW n \in 0 .. Len(o.buf), NEW f,
             f = IF n = Len(o.buf)
                 THEN iFlushPacketQueue(<<>>, o.queue, sent)
                 ELSE [buf |-> Remaining(o.buf, n), queue |-> o.queue, have |-> TRUE, ok |-> TRUE],
             wire' = wire \o SubSeq(o.buf, 1, n), out' = Kept(f), aborted' = ~f.ok,
             outActive' = MustWake(IF n = Len(o.buf) THEN <<>> ELSE Remaining(o.buf, n), f),
             UNCHANGED sent
      PROVE  OutputGood'
  <2>. DEFINE v == wire \o SubSeq(o.buf, 1, n)
              r == Remaining(o.buf, n)
  <2>1. Line(v, r, o.queue, sent) /\ (n = Len(o.buf) => Line(v, <<>>, o.queue, sent))
    BY <1>3, LineTaken
  <2>2. wire' = v
    BY <1>8
  <2>. HIDE DEF v, r
  <2>3. CASE n = Len(o.buf)
    <3>1. f = iFlushPacketQueue(<<>>, o.queue, sent) /\ Line(v, <<>>, o.queue, sent)
      BY <1>8, <2>1, <2>3
    <3>2. f \in Fits /\ Line(v, f.buf, f.queue, sent)
      BY <1>1, <3>1, FlushLine
    <3>3. /\ Kept(f) \in L /\ Kept(f).buf = f.buf /\ Kept(f).queue = f.queue
          /\ f.ok \in BOOLEAN /\ f.have \in BOOLEAN
      BY <3>2, FlushKept
    <3>4. outActive' = f.have
      BY <1>8, <2>3, <3>3 DEF MustWake
    <3>. QED BY <1>1, <1>8, <2>2, <3>2, <3>3, <3>4 DEF OutputGood, OutputTypes
  <2>4. CASE n # Len(o.buf)
    <3>1. f = [buf |-> r, queue |-> o.queue, have |-> TRUE, ok |-> TRUE]
      BY <1>8, <2>4 DEF r
    <3>2. Kept(f) = [buf |-> r, queue |-> o.queue] /\ f.ok = TRUE /\ f.have = TRUE
      BY <3>1 DEF Kept
    <3>3. outActive' = TRUE
      BY <1>8, <3>2 DEF MustWake
    <3>4. out' \in L /\ out'.buf = r /\ out'.queue = o.queue
      BY <1>3, <1>8, <2>1, <3>2 DEF Line
    <3>. QED BY <1>1, <1>8, <2>1, <2>2, <3>2, <3>3, <3>4 DEF OutputGood, OutputTypes
  <2>. QED BY <2>3, <2>4
<1>. QED
  <2>1. \/ UNCHANGED output
        \/ aborted' = TRUE /\ UNCHANGED <<out, outActive, wire, sent>>
        \/ out' = o /\ outActive' = FALSE /\ UNCHANGED <<wire, sent, aborted>>
        \/ out' = o /\ UNCHANGED <<outActive, wire, sent, aborted>>
        \/ \E n \in 0 .. Len(o.buf) :
             LET f == IF n = Len(o.buf)
                      THEN iFlushPacketQueue(<<>>, o.queue, sent)
                      ELSE [buf |-> Remaining(o.buf, n), queue |-> o.queue, have |-> TRUE, ok |-> TRUE]
             IN  /\ wire' = wire \o SubSeq(o.buf, 1, n) /\ out' = Kept(f) /\ aborted' = ~f.ok
                 /\ outActive' = MustWake(IF n = Len(o.buf) THEN <<>> ELSE Remaining(o.buf, n), f)
                 /\ UNCHANGED sent
    BY Zenon DEF handle_output, o, f0
  <2>. QED BY <1>4, <1>5, <1>6, <1>7, <1>8, <2>1

\* The acceptor sends its challenge, the network thread its answers and what is queued,
\* the world its packets; nothing else touches the output.
LEMMA NextOutput == ASSUME OutputGood, [Next]_vars PROVE OutputGood'
<1>1. Small \in Nat /\ Sizes \subseteq Nat
  BY SocketConstants
<1>2. CASE Acceptor
  <2>1. CASE OnSocketOpen \/ OpenFails
    BY <2>1 DEF OnSocketOpen, OpenFails, OutputGood, OutputTypes, Line
  <2>2. CASE SendChallenge
    <3>1. UNCHANGED output \/ \E wake \in BOOLEAN : SendPacket(Small, wake)
      BY <2>2 DEF SendChallenge
    <3>. QED BY <1>1, <3>1, OutputSame, SendPacketStep
  <2>3. CASE RegisterHandler \/ AcceptorDone
    <3>1. UNCHANGED output
      BY <2>3 DEF RegisterHandler, AcceptorDone
    <3>. QED BY <3>1, OutputSame
  <2>. QED BY <1>2, <2>1, <2>2, <2>3 DEF Acceptor
<1>3. CASE Network
  <2>1. CASE HandleOutput
    <3>1. handle_output(Ok, Fails)
      BY <2>1 DEF HandleOutput
    <3>. QED BY <3>1, HandleOutputStep
  <2>2. CASE Reply
    <3>1. UNCHANGED output \/ \E wake \in BOOLEAN : SendPacket(Small, wake)
      BY <2>2 DEF Reply
    <3>. QED BY <1>1, <3>1, OutputSame, SendPacketStep
  <2>3. CASE CallOutput \/ Mask \/ Return \/ HandleClose \/ RemoveHandler \/ AddNewSockets \/ Update
    <3>1. UNCHANGED output
      BY <2>3 DEF CallOutput, Mask, Return, HandleClose, RemoveHandler, AddNewSockets, Update
    <3>. QED BY <3>1, OutputSame
  <2>4. CASE ShutSocket \/ ShutSession \/ DropSocket \/ CallInput \/ NextInput
    <3>1. UNCHANGED output
      BY <2>4 DEF ShutSocket, ShutSession, DropSocket, CallInput, NextInput
    <3>. QED BY <3>1, OutputSame
  <2>5. CASE QueuePacket \/ HandlePing \/ HandleAuthSession \/ AddSession \/ ReplyMask
    <3>1. UNCHANGED output
      BY <2>5 DEF QueuePacket, HandlePing, HandleAuthSession, AddSession, ReplyMask
    <3>. QED BY <3>1, OutputSame
  <2>6. CASE Caught
    <3>1. UNCHANGED output
      BY <2>6 DEF Caught
    <3>. QED BY <3>1, OutputSame
  <2>7. CASE LogError
    <3>1. aborted \in BOOLEAN
      BY DEF OutputGood, OutputTypes
    <3>2. aborted' \in BOOLEAN /\ UNCHANGED <<out, outActive, wire, sent>>
      BY <2>7, <3>1, Zenon DEF LogError
    <3>. QED BY <3>2 DEF OutputGood, OutputTypes
  <2>. QED BY <1>3, <2>1, <2>2, <2>3, <2>4, <2>5, <2>6, <2>7 DEF Network
<1>4. CASE World
  <2>1. CASE WorldStep
    <3>1. UNCHANGED output
      BY <2>1 DEF WorldStep, WorldMask, CloseSocket, CloseSession, Release, Delete
    <3>. QED BY <3>1, OutputSame
  <2>2. ASSUME NEW s \in Session, WorldSend(s) PROVE OutputGood'
    <3>1. \E n \in Nat, wake \in BOOLEAN : SendPacket(n, wake)
      BY <1>1, <2>2 DEF WorldSend
    <3>. QED BY <3>1, SendPacketStep
  <2>3. ASSUME NEW s \in Session, Kick(s) \/ Destroy(s) \/ SeesClosed(s) PROVE OutputGood'
    <3>1. UNCHANGED output
      BY <2>3 DEF Kick, Destroy, SeesClosed
    <3>. QED BY <3>1, OutputSame
  <2>. QED BY <1>4, <2>1, <2>2, <2>3 DEF World
<1>5. CASE PeerCloses \/ UNCHANGED vars
  <2>1. UNCHANGED output
    BY <1>5 DEF PeerCloses, vars
  <2>. QED BY <2>1, OutputSame
<1>. QED BY <1>2, <1>3, <1>4, <1>5 DEF Next

\* Nothing is sent yet.
LEMMA InitOutput == Init => OutputGood
<1>. SUFFICES ASSUME Init PROVE OutputGood
  OBVIOUS
<1>1. /\ out = [buf |-> <<>>, queue |-> <<>>] /\ outActive = FALSE /\ wire = <<>>
      /\ sent = <<>> /\ aborted = FALSE /\ BufSize \in Nat
  BY SocketConstants DEF Init
<1>2. OutputTypes
  <2>1. \A S : <<>> \in Seq(S)
    OBVIOUS
  <2>2. sent \in Seq(Nat) /\ out \in [buf : Seq(Unit), queue : Seq(Pkt)]
    BY <1>1, <2>1
  <2>. QED BY <1>1, <2>2 DEF OutputTypes
<1>3. wire \o out.buf = <<>> /\ Len(sent) + 1 = 1
  BY <1>1
<1>4. Start(out.queue, sent) = <<1, 0>>
  BY <1>1, <1>3 DEF Start
<1>5. Stream(<<>>, <<1, 0>>, sent)
  BY DEF Stream
<1>6. Packets(out.queue, sent)
  BY <1>1 DEF Packets
<1>7. wire \in Seq(Unit) /\ out.buf \in Seq(Unit) /\ Len(out.buf) <= BufSize /\ out.queue = <<>>
  BY <1>1
<1>8. Line(wire, out.buf, out.queue, sent)
  BY <1>3, <1>4, <1>5, <1>6, <1>7 DEF Line
<1>. QED BY <1>2, <1>8 DEF OutputGood

\* What is left of the types.
RestTypes ==
    /\ writeMask \in BOOLEAN /\ peerGone \in BOOLEAN
    /\ inputs \in 0 .. MaxInput /\ wsends \in 0 .. MaxWorldSend

\* The counters and the marks of the reactor.
LEMMA NextRest == ASSUME Control, RestTypes, [Next]_vars PROVE RestTypes'
<1>. USE DEF RestTypes, reactor, bounds
<1>0. registered \in BOOLEAN /\ MaxInput \in Nat /\ MaxWorldSend \in Nat
  BY SocketConstants DEF Control, ControlTypes, ThreadTypes
<1>1. CASE Acceptor
  BY <1>0, <1>1 DEF Acceptor, OnSocketOpen, OpenFails, SendChallenge, RegisterHandler, AcceptorDone
<1>2. CASE Network
  <2>1. CASE CallOutput \/ Mask \/ Return \/ HandleClose \/ RemoveHandler \/ AddNewSockets \/ Update
    BY <1>0, <2>1 DEF CallOutput, Mask, Return, HandleClose, RemoveHandler, AddNewSockets, Update
  <2>2. CASE ShutSocket \/ ShutSession \/ DropSocket \/ CallInput \/ NextInput
    BY <1>0, <2>2 DEF ShutSocket, ShutSession, DropSocket, CallInput, NextInput
  <2>3. CASE QueuePacket \/ HandlePing \/ HandleAuthSession \/ AddSession \/ ReplyMask
    BY <1>0, <2>3 DEF QueuePacket, HandlePing, HandleAuthSession, AddSession, ReplyMask
  <2>4. CASE HandleOutput \/ Reply \/ Caught \/ LogError
    BY <2>4 DEF HandleOutput, Reply, Caught, LogError
  <2>. QED BY <1>2, <2>1, <2>2, <2>3, <2>4 DEF Network
<1>3. CASE World
  <2>1. CASE WorldStep
    BY <1>0, <2>1 DEF WorldStep, WorldMask, CloseSocket, CloseSession, Release, Delete
  <2>2. ASSUME NEW s \in Session, WorldSend(s) \/ Kick(s) \/ Destroy(s) \/ SeesClosed(s)
        PROVE  RestTypes'
    BY <1>0, <2>2 DEF WorldSend, Kick, Destroy, SeesClosed
  <2>. QED BY <1>3, <2>1, <2>2 DEF World
<1>4. CASE PeerCloses \/ UNCHANGED vars
  BY <1>4 DEF PeerCloses, vars
<1>. QED BY <1>1, <1>2, <1>3, <1>4 DEF Next

\* The whole inductive invariant.
Whole == IInv /\ OutputGood /\ RestTypes

\* It holds in every state.
LEMMA WholeAlways == Spec => []Whole
<1>1. Init => RestTypes
  <2>1. MaxInput \in Nat /\ MaxWorldSend \in Nat
    BY SocketConstants
  <2>2. 0 \in 0 .. MaxInput /\ 0 \in 0 .. MaxWorldSend
    BY <2>1
  <2>. QED BY <2>2 DEF Init, RestTypes
<1>2. Whole /\ [Next]_vars => Whole'
  BY NextControl, NextRefs, NextOutput, NextRest DEF Whole, IInv
<1>3. Init => Whole
  BY <1>1, InitInv, InitOutput DEF Whole
<1>. QED BY <1>2, <1>3, PTL DEF Spec
-----------------------------------------------------------------------------
\* No thread leaves its protocol, and the output buffer never overflows, whatever sizes the
\* packets have and however the kernel cuts the sends.
THEOREM TypeCorrect == Spec => []TypeOK
<1>1. Whole => TypeOK
  <2>. SUFFICES ASSUME Whole PROVE TypeOK
    OBVIOUS
  <2>1. ControlTypes /\ RestTypes
    BY DEF Whole, IInv, Control
  <2>2. refs \in Nat
    BY SocketsFinite DEF Whole, IInv, RefsExact, Holders, Sockets
  <2>3. /\ out \in [buf : Seq(Unit), queue : Seq([p : Nat \ {0}, rpos : Nat])]
        /\ Len(out.buf) <= BufSize /\ wire \in Seq(Unit) /\ sent \in Seq(Nat)
        /\ outActive \in BOOLEAN /\ aborted \in BOOLEAN
    BY DEF Whole, OutputGood, OutputTypes, Line, Pkt
  <2>. QED BY <2>1, <2>2, <2>3 DEF TypeOK, ControlTypes, ThreadTypes, ObjectTypes, RestTypes
<1>. QED BY <1>1, WholeAlways, PTL

\* The client receives the packets in the order in which SendPacket() accepted them, whole,
\* through the buffer and the queue and whatever the kernel takes; only a header may be
\* repeated.
THEOREM StreamAlwaysInOrder == Spec => []StreamInOrder
<1>1. Whole => StreamInOrder
  <2>. SUFFICES ASSUME Whole PROVE StreamInOrder
    OBVIOUS
  <2>. DEFINE s == wire \o out.buf
              q == out.queue
  <2>1. Stream(s, Start(q, sent), sent) /\ Packets(q, sent)
    BY DEF Whole, OutputGood, Line
  <2>2. FirstLeft = Start(q, sent)
    <3>1. q # <<>> => Head(q) = q[1]
      OBVIOUS
    <3>. QED BY <3>1 DEF FirstLeft, Start, FirstOf
  <2>3. \A u, v : Follows(u, v, sent) <=> (v = Following(u) \/ (v = u /\ u[2] = 0))
    BY DEF Follows, Following
  <2>4. \A j \in 1 .. Len(q) - 1 : q[j + 1] = [p |-> q[j].p + 1, rpos |-> 0]
    BY <2>1 DEF Packets
  <2>5. /\ s = <<>> \/ s[1] = <<1, 0>>
        /\ \A j \in 1 .. Len(s) - 1 : Follows(s[j], s[j + 1], sent)
        /\ s = <<>> => FirstLeft = <<1, 0>>
        /\ s # <<>> => Follows(s[Len(s)], FirstLeft, sent)
    <3>. HIDE DEF s
    <3>. QED BY <2>1, <2>2 DEF Stream
  <2>6. /\ \A j \in 1 .. Len(s) - 1 : s[j + 1] = Following(s[j]) \/ (s[j + 1] = s[j] /\ s[j][2] = 0)
        /\ s # <<>> => FirstLeft = Following(s[Len(s)]) \/ (FirstLeft = s[Len(s)] /\ s[Len(s)][2] = 0)
    <3>. HIDE DEF s
    <3>. QED BY <2>3, <2>5
  <2>. QED BY <2>4, <2>5, <2>6 DEF StreamInOrder
<1>. QED BY <1>1, WholeAlways, PTL
=============================================================================
