----------------------------- MODULE WorldSocket -----------------------------
(***************************************************************************)
(* One client's socket, from the acceptor's open() to the last reference.  *)
(* Three threads share it: the acceptor thread, which opens it; a network  *)
(* thread, whose reactor calls handle_input() and handle_output() and      *)
(* which calls Update() between two polls; and the world thread, which     *)
(* sends and closes through the sessions built for this socket.            *)
(*                                                                         *)
(* What a step does under m_OutBufferLock or m_SessionLock is one action;  *)
(* a thread can be overtaken wherever the code holds neither.  Output is   *)
(* counted in units: a packet is its header, one unit, and its payload.    *)
(* Input is whole packets of three kinds, which may turn out too short to  *)
(* be unpacked; a keep-alive changes nothing and is left out, and so is    *)
(* what the packets contain.                                               *)
(***************************************************************************)
EXTENDS Integers, FiniteSets, Sequences, SequencesExt

CONSTANTS Sizes,        \* payloads of the packets the world sends, in units
          Small,        \* that of what the socket itself sends: challenge, pong, refusal, addons
          BufSize,      \* m_OutBufferSize: units the output buffer holds
          Useful,       \* the 1024 bytes of iSendPartialPacket()
          MaxInput,     \* bound on the packets the client sends
          MaxWorldSend, \* bound on the packets the world thread sends
          MaxSession    \* bound on the sessions built for the socket

ASSUME SocketConstants ==
    /\ Sizes \subseteq Nat /\ Small \in Nat
    /\ BufSize \in Nat \ {0} /\ Useful \in Nat
    /\ MaxInput \in Nat /\ MaxWorldSend \in Nat /\ MaxSession \in Nat

VARIABLES
    closing,    \* closing_
    out,        \* m_OutBuffer and m_PacketQueue, in one record
    outActive,  \* m_OutActive
    wire,       \* units given to the kernel (history)
    sent,       \* payload sizes of the packets SendPacket() accepted (history)
    aborted,    \* an ACE_ASSERT failed or freed memory was read: the process is gone
    refs,       \* the reference count
    registered, \* the reactor has the handler ...
    writeMask,  \* ... and calls it when the socket can be written
    inSet,      \* where ReactorRunnable has it: "no", "new", "in", "out"
    peerGone,   \* the client has closed the connection
    mSession,   \* m_Session, 0 when NULL
    session,    \* the session objects: "none", "built", "live", "deleted"
    hasSocket,  \* their m_Socket is set
    held,       \* the session an error path is about to use without m_SessionLock, 0 for none
    acc,        \* where the acceptor thread is in open()
    net,        \* where the network thread is
    inUpcall,   \* the network thread is in a call of the reactor
    kind,       \* the packet it is processing
    wld,        \* where the world thread is, and in which session
    inputs,     \* packets the client has sent
    wsends      \* packets the world thread has sent

output  == <<out, outActive, wire, sent, aborted>>
reactor == <<registered, writeMask, inSet>>
objects == <<mSession, session, hasSocket, held>>
threads == <<acc, net, inUpcall, kind, wld>>
bounds  == <<inputs, wsends>>
vars    == <<closing, output, refs, reactor, peerGone, objects, threads, bounds>>

Session == 1 .. MaxSession

Init ==
    /\ closing = FALSE
    /\ out = [buf |-> <<>>, queue |-> <<>>]
    /\ outActive = FALSE /\ wire = <<>> /\ sent = <<>> /\ aborted = FALSE
    /\ refs = 1 /\ registered = FALSE /\ writeMask = FALSE /\ inSet = "no"
    /\ peerGone = FALSE /\ mSession = 0
    /\ session = [s \in Session |-> "none"] /\ hasSocket = [s \in Session |-> FALSE]
    /\ held = 0
    /\ acc = "open" /\ net = "poll" /\ inUpcall = FALSE /\ kind = "none"
    /\ wld = [at |-> "idle", s |-> 0]
    /\ inputs = 0 /\ wsends = 0
-----------------------------------------------------------------------------
(* The output buffer.  A unit is <<packet, position>>, position 0 being    *)
(* the header; a queued packet knows how much of its payload was written.  *)

Header(p)           == <<<<p, 0>>>>
Payload(p, from, n) == [k \in 1 .. n |-> <<p, from + k>>]

Space(o) == BufSize - Len(o.buf)

\* Write as much of a queued packet as fits; what is left goes back to the queue.  A
\* large packet waits for some useful space; a small one does not, and its header
\* fails an assertion when the buffer is full.
iSendPartialPacket(o, pct, size) ==
    LET big  == pct.rpos = 0 /\ Space(o) < size + 1 /\ size > Useful /\ Space(o) < 1 + Useful
        head == IF pct.rpos = 0 THEN o.buf \o Header(pct.p) ELSE o.buf
        n    == IF BufSize - Len(head) < size - pct.rpos
                THEN BufSize - Len(head) ELSE size - pct.rpos
        done == pct.rpos + n = size
    IN  IF big \/ (pct.rpos = 0 /\ Space(o) < 1)
        THEN [o EXCEPT !.stop = TRUE, !.ok = big, !.queue = Append(@, pct)]
        ELSE [o EXCEPT !.buf = head \o Payload(pct.p, pct.rpos, n), !.have = TRUE,
                       !.stop = ~done,
                       !.queue = IF done THEN @
                                 ELSE Append(@, [pct EXCEPT !.rpos = pct.rpos + n])]

\* Packets from the head of the queue, until one stays behind.  "have" is the result.
iFlushPacketQueue(buf, queue, sizes) ==
    FoldLeft(LAMBDA o, pct : IF o.stop THEN [o EXCEPT !.queue = Append(@, pct)]
                             ELSE iSendPartialPacket(o, pct, sizes[pct.p]),
             [buf |-> buf, queue |-> <<>>, stop |-> FALSE, have |-> FALSE, ok |-> TRUE],
             queue)

Kept(f) == [buf |-> f.buf, queue |-> f.queue]

\* Mutated: a packet that fits in the buffer does not wait for those in the queue.
DirectIfFits(o, n) == Space(o) >= n + 1

\* Mutated: the packet is copied whether or not the buffer has room for it.
DirectNoCheck(o, n) == o.queue = <<>>

\* Is the packet copied to the buffer at once?
Direct(o, n) == o.queue = <<>> /\ Space(o) >= n + 1

\* SendPacket() after its check of closing_: the new state of the output and whether
\* the reactor must be asked for a wake-up.
SendPacket(n, wake) ==
    LET p == Len(sent) + 1
        f == iFlushPacketQueue(out.buf, Append(out.queue, [p |-> p, rpos |-> 0]),
                               Append(sent, n))
    IN  /\ sent' = Append(sent, n)
        /\ IF Direct(out, n)
           THEN /\ out' = [out EXCEPT !.buf = @ \o Header(p) \o Payload(p, 0, n)]
                /\ wake = FALSE
                /\ UNCHANGED <<aborted, outActive>>
           ELSE /\ out' = Kept(f)
                /\ aborted' = ~f.ok
                /\ wake = (f.ok /\ f.have /\ ~outActive)
                /\ outActive' = (outActive \/ (f.ok /\ f.have))
        /\ UNCHANGED wire
-----------------------------------------------------------------------------
(* The acceptor thread: open(), and close() when it fails.                 *)

\* The manager's hook puts the socket among the new ones of a network thread.
OnSocketOpen ==
    /\ ~aborted /\ acc = "open" /\ acc' = "send"
    /\ outActive' = TRUE
    /\ inSet' = "new" /\ refs' = refs + 1
    /\ UNCHANGED <<closing, out, wire, sent, aborted, registered, writeMask, peerGone,
                   objects, net, inUpcall, kind, wld, bounds>>

\* A socket option, the buffer or the client's address could not be had.
OpenFails ==
    /\ ~aborted /\ acc \in {"open", "send", "register"} /\ acc' = "close"
    /\ outActive' = TRUE
    /\ UNCHANGED <<closing, out, wire, sent, aborted, refs, reactor, peerGone, objects,
                   net, inUpcall, kind, wld, bounds>>

SendChallenge ==
    /\ ~aborted /\ acc = "send"
    /\ IF closing
       THEN acc' = "close" /\ UNCHANGED output
       ELSE /\ acc' = "register"
            /\ \E w \in BOOLEAN : SendPacket(Small, w)
    /\ UNCHANGED <<closing, refs, reactor, peerGone, objects, net, inUpcall, kind, wld,
                   bounds>>

RegisterHandler ==
    /\ ~aborted /\ acc = "register" /\ acc' = "release"
    /\ registered' = TRUE /\ writeMask' = TRUE /\ refs' = refs + 1
    /\ UNCHANGED <<closing, output, inSet, peerGone, objects, net, inUpcall, kind, wld,
                   bounds>>

\* "reactor takes care of the socket from now on"; after a failure the acceptor calls
\* close() instead.
AcceptorDone ==
    /\ ~aborted /\ acc \in {"release", "close"} /\ acc' = "done"
    /\ refs' = refs - 1
    /\ closing' = (closing \/ acc = "close")
    /\ UNCHANGED <<output, reactor, peerGone, objects, net, inUpcall, kind, wld, bounds>>
-----------------------------------------------------------------------------
(* Output of the network thread.                                           *)

\* The buffer after n of its units were taken: rd_ptr() and crunch(), or reset().
Remaining(buf, n) == SubSeq(buf, n + 1, Len(buf))

\* Is there more to send?
MustWake(buf, f) == buf # <<>> \/ f.have

\* handle_output() under its lock: nothing to send, a send that would block, or one of
\* n units; then the reactor is asked for a wake-up, or to stop ("mask").  The result
\* is where the thread goes on.
handle_output(ok, fails) ==
    LET f0 == iFlushPacketQueue(out.buf, out.queue, sent)
        o  == IF out.buf = <<>> THEN Kept(f0) ELSE out
    IN  IF closing
        THEN net' = fails /\ UNCHANGED <<output, kind>>
        ELSE IF out.buf = <<>> /\ ~f0.ok
        THEN aborted' = TRUE /\ net' = fails /\ UNCHANGED <<out, outActive, wire, sent, kind>>
        ELSE IF out.buf = <<>> /\ ~f0.have
        THEN /\ out' = o
             /\ outActive' = FALSE
             /\ net' = IF outActive THEN "mask" ELSE ok
             /\ kind' = IF outActive THEN "cancel" ELSE kind
             /\ UNCHANGED <<wire, sent, aborted>>
        ELSE \/ /\ net' = fails             \* send() failed
                /\ out' = o
                /\ UNCHANGED <<outActive, wire, sent, aborted, kind>>
             \/ \E n \in 0 .. Len(o.buf) :  \* 0: EWOULDBLOCK
                 LET rest == Remaining(o.buf, n)
                     f    == IF n = Len(o.buf)
                             THEN iFlushPacketQueue(<<>>, o.queue, sent)
                             ELSE [buf |-> rest, queue |-> o.queue, have |-> TRUE, ok |-> TRUE]
                     more == MustWake(IF n = Len(o.buf) THEN <<>> ELSE rest, f)
                 IN  /\ wire' = wire \o SubSeq(o.buf, 1, n)
                     /\ out' = Kept(f)
                     /\ aborted' = ~f.ok
                     /\ outActive' = more
                     /\ net' = IF more = outActive THEN ok ELSE "mask"
                     /\ kind' = IF more = outActive THEN kind
                                ELSE IF more THEN "schedule" ELSE "cancel"
                     /\ UNCHANGED sent

\* Where the network thread goes after a callback that returned 0 or -1.
Ok    == IF inUpcall THEN "return" ELSE "poll"
Fails == IF inUpcall THEN "close" ELSE "shut"

\* The call of the reactor after the lock was released.  It fails when the handler
\* is not registered any more.
Mask ==
    /\ ~aborted /\ net = "mask"
    /\ writeMask' = (registered /\ kind = "schedule")
    /\ net' = IF registered THEN Ok ELSE Fails
    /\ kind' = "none"
    /\ UNCHANGED <<closing, output, refs, registered, inSet, peerGone, objects, acc,
                   inUpcall, wld, bounds>>

\* The reactor holds a reference while it calls the handler.
CallOutput ==
    /\ ~aborted /\ net = "poll" /\ registered /\ writeMask
    /\ inUpcall' = TRUE /\ refs' = refs + 1
    /\ net' = "output"
    /\ UNCHANGED <<closing, output, reactor, peerGone, objects, acc, kind, wld, bounds>>

HandleOutput ==
    /\ ~aborted /\ net = "output"
    /\ handle_output(Ok, Fails)
    /\ UNCHANGED <<closing, refs, reactor, peerGone, objects, acc, inUpcall, wld, bounds>>

Return ==
    /\ ~aborted /\ net = "return" /\ net' = "poll"
    /\ inUpcall' = FALSE /\ refs' = refs - 1
    /\ UNCHANGED <<closing, output, reactor, peerGone, objects, acc, kind, wld, bounds>>

\* handle_close(), in its two critical sections, and remove_handler().
HandleClose ==
    /\ ~aborted /\ net = "close" /\ net' = "forget"
    /\ closing' = TRUE
    /\ UNCHANGED <<output, refs, reactor, peerGone, objects, acc, inUpcall, kind, wld, bounds>>

RemoveHandler ==
    /\ ~aborted /\ net = "forget" /\ net' = "return"
    /\ mSession' = 0
    /\ registered' = FALSE /\ writeMask' = FALSE
    /\ refs' = IF registered THEN refs - 1 ELSE refs
    /\ kind' = "none"
    /\ UNCHANGED <<closing, output, inSet, peerGone, session, hasSocket, held, acc, inUpcall,
                   wld, bounds>>
-----------------------------------------------------------------------------
(* Between two polls: AddNewSockets() and Update().                        *)

AddNewSockets ==
    /\ ~aborted /\ net = "poll" /\ inSet = "new"
    /\ inSet' = IF closing THEN "out" ELSE "in"
    /\ refs' = IF closing THEN refs - 1 ELSE refs
    /\ UNCHANGED <<closing, output, registered, writeMask, peerGone, objects, threads, bounds>>

\* Mutated: a closed socket has nothing to send and stays.
UpdateKeepsClosed ==
    /\ ~aborted /\ net = "poll" /\ inSet = "in"
    /\ ~closing /\ ~outActive /\ out.buf # <<>>
    /\ net' = "output"
    /\ UNCHANGED <<closing, output, refs, reactor, peerGone, objects, acc, inUpcall, kind,
                   wld, bounds>>

Update ==
    /\ ~aborted /\ net = "poll" /\ inSet = "in"
    /\ closing \/ (~outActive /\ out.buf # <<>>)
    /\ net' = IF closing THEN "shut" ELSE "output"
    /\ UNCHANGED <<closing, output, refs, reactor, peerGone, objects, acc, inUpcall, kind,
                   wld, bounds>>

\* Update() returned -1: CloseSocket(), in two critical sections, and the reference goes.
ShutSocket ==
    /\ ~aborted /\ net = "shut"
    /\ net' = IF closing THEN "drop" ELSE "shutSession"
    /\ closing' = TRUE
    /\ UNCHANGED <<output, refs, reactor, peerGone, objects, acc, inUpcall, kind, wld, bounds>>

ShutSession ==
    /\ ~aborted /\ net = "shutSession" /\ net' = "drop"
    /\ mSession' = 0
    /\ UNCHANGED <<closing, output, refs, reactor, peerGone, session, hasSocket, held, acc,
                   inUpcall, kind, wld, bounds>>

DropSocket ==
    /\ ~aborted /\ net = "drop" /\ net' = "poll"
    /\ inSet' = "out" /\ refs' = refs - 1
    /\ kind' = "none"
    /\ UNCHANGED <<closing, output, registered, writeMask, peerGone, objects, acc, inUpcall,
                   wld, bounds>>
-----------------------------------------------------------------------------
(* Input.                                                                  *)

PeerCloses ==
    /\ ~aborted /\ registered /\ ~peerGone /\ peerGone' = TRUE
    /\ UNCHANGED <<closing, output, refs, reactor, objects, threads, bounds>>

\* handle_input() for a packet, a fragment, or the end of the connection.
CallInput ==
    /\ ~aborted /\ net = "poll" /\ registered
    /\ \/ peerGone \/ (inputs < MaxInput)
    /\ inUpcall' = TRUE /\ refs' = refs + 1
    /\ net' = IF closing \/ peerGone THEN "close" ELSE "input"
    /\ UNCHANGED <<closing, output, reactor, peerGone, objects, acc, kind, wld, bounds>>

\* ProcessIncoming() of the next packet in what was read, or the end of it and Update().
NextInput ==
    /\ ~aborted /\ net = "input"
    /\ \/ /\ inputs < MaxInput /\ inputs' = inputs + 1
          /\ IF closing
             THEN net' = "close" /\ UNCHANGED kind
             ELSE net' = "dispatch" /\ kind' \in {"ping", "auth", "other"}
       \/ /\ net' = IF closing THEN "close"
                    ELSE IF ~outActive /\ out.buf # <<>> THEN "output" ELSE "return"
          /\ UNCHANGED <<inputs, kind>>
    /\ UNCHANGED <<closing, output, refs, reactor, peerGone, objects, acc, inUpcall, wld,
                   wsends>>

\* A packet for the session: m_Session is used under m_SessionLock.
QueuePacket ==
    /\ ~aborted /\ net = "dispatch" /\ kind = "other"
    /\ net' = IF mSession = 0 THEN "close" ELSE "input"
    /\ kind' = "none"
    /\ UNCHANGED <<closing, output, refs, reactor, peerGone, objects, acc, inUpcall, wld,
                   bounds>>

\* SetLatency() under m_SessionLock; the answer is sent afterwards.  A player who pings
\* too fast is dropped.  A packet too short to be unpacked throws.
HandlePing ==
    /\ ~aborted /\ net = "dispatch" /\ kind = "ping"
    /\ \/ mSession # 0 /\ net' = "reply"
       \/ net' \in {"close", "caught"}
    /\ UNCHANGED <<closing, output, refs, reactor, peerGone, objects, acc, inUpcall, kind,
                   wld, bounds>>

\* The packet cannot be unpacked, the client is refused (and told so), or its session is
\* built.
HandleAuthSession ==
    /\ ~aborted /\ net = "dispatch" /\ kind = "auth"
    /\ \/ /\ net' = IF mSession # 0 THEN "close" ELSE "caught"
          /\ kind' = kind /\ UNCHANGED <<refs, objects>>
       \/ /\ mSession = 0
          /\ net' = "reply" /\ kind' = "refuse" /\ UNCHANGED <<refs, objects>>
       \/ /\ mSession = 0
          /\ \E s \in Session :
              /\ session[s] = "none" /\ \A t \in 1 .. s - 1 : session[t] # "none"
              /\ session' = [session EXCEPT ![s] = "built"]
              /\ hasSocket' = [hasSocket EXCEPT ![s] = TRUE]
              /\ mSession' = s
          /\ refs' = refs + 1
          /\ net' = "add" /\ UNCHANGED <<kind, held>>
    /\ UNCHANGED <<closing, output, reactor, peerGone, acc, inUpcall, wld, bounds>>

\* The session is given to the world; then the client is sent its addons.
AddSession ==
    /\ ~aborted /\ net = "add" /\ net' = "reply"
    /\ session' = [session EXCEPT ![mSession] = "live"]
    /\ UNCHANGED <<closing, output, refs, reactor, peerGone, mSession, hasSocket, held, acc,
                   inUpcall, kind, wld, bounds>>

\* The answer to a ping or an authentication.  Only a ping's result counts.  There may be
\* no answer with the addons, and unpacking what the client sent of them may throw.
Reply ==
    /\ ~aborted /\ net = "reply"
    /\ \/ /\ kind = "auth" /\ net' \in {"input", "caught"}
          /\ kind' = "none" /\ UNCHANGED output
       \/ /\ closing
          /\ net' = IF kind = "auth" THEN "input" ELSE "close"
          /\ kind' = "none" /\ UNCHANGED output
       \/ /\ ~closing
          /\ \E w \in BOOLEAN :
              /\ SendPacket(Small, w)
              /\ net' = IF w THEN "wake" ELSE IF kind = "refuse" THEN "close" ELSE "input"
              /\ kind' = IF w THEN kind ELSE "none"
    /\ UNCHANGED <<closing, refs, reactor, peerGone, objects, acc, inUpcall, wld, bounds>>

ReplyMask ==
    /\ ~aborted /\ net = "wake"
    /\ writeMask' = registered
    /\ net' = IF kind = "refuse" \/ (kind = "ping" /\ ~registered) THEN "close" ELSE "input"
    /\ kind' = "none"
    /\ UNCHANGED <<closing, output, refs, registered, inSet, peerGone, objects, acc, inUpcall,
                   wld, bounds>>

\* The handler of ByteBufferException in ProcessIncoming(): it looks at m_Session without
\* m_SessionLock ...
Caught ==
    /\ ~aborted /\ net = "caught"
    /\ net' = IF mSession = 0 THEN "close" ELSE "log"
    /\ held' = mSession
    /\ UNCHANGED <<closing, output, refs, reactor, peerGone, mSession, session, hasSocket, acc,
                   inUpcall, kind, wld, bounds>>

\* ... and asks it for its account.  If the pointer was cleared or the session deleted in
\* between, anything may happen, a crash included.
LogError ==
    /\ ~aborted /\ net = "log" /\ net' = "close"
    /\ held' = 0
    /\ aborted' \in IF mSession = held /\ session[held] # "deleted" THEN {aborted} ELSE BOOLEAN
    /\ UNCHANGED <<closing, out, outActive, wire, sent, refs, reactor, peerGone, mSession,
                   session, hasSocket, acc, inUpcall, kind, wld, bounds>>
-----------------------------------------------------------------------------
(* The world thread, through the sessions it was given.                    *)

Live(s) == session[s] = "live"

\* WorldSession::SendPacket().  A closed socket refuses, and is closed again to no effect.
WorldSend(s) ==
    /\ ~aborted /\ wld.at = "idle" /\ Live(s) /\ hasSocket[s] /\ ~closing
    /\ wsends < MaxWorldSend /\ wsends' = wsends + 1
    /\ \E n \in Sizes, w \in BOOLEAN :
        /\ SendPacket(n, w)
        /\ wld' = [at |-> IF w THEN "mask" ELSE "idle", s |-> IF w THEN s ELSE 0]
    /\ UNCHANGED <<closing, refs, reactor, peerGone, objects, acc, net, inUpcall, kind,
                   inputs>>

WorldMask ==
    /\ ~aborted /\ wld.at = "mask"
    /\ writeMask' = registered
    /\ wld' = IF registered THEN [at |-> "idle", s |-> 0] ELSE [wld EXCEPT !.at = "close"]
    /\ UNCHANGED <<closing, output, refs, registered, inSet, peerGone, objects, acc, net,
                   inUpcall, kind, bounds>>

\* KickPlayer(), the idle timer, or the destructor of a session that is replaced.
Kick(s) ==
    /\ ~aborted /\ wld.at = "idle" /\ Live(s) /\ hasSocket[s]
    /\ wld' = [at |-> "close", s |-> s]
    /\ UNCHANGED <<closing, output, refs, reactor, peerGone, objects, acc, net, inUpcall,
                   kind, bounds>>

Destroy(s) ==
    /\ ~aborted /\ wld.at = "idle" /\ Live(s)
    /\ wld' = [at |-> IF hasSocket[s] THEN "destroy" ELSE "delete", s |-> s]
    /\ UNCHANGED <<closing, output, refs, reactor, peerGone, objects, acc, net, inUpcall,
                   kind, bounds>>

Destroying == wld.at \in {"destroy", "destroySession"}

\* CloseSocket(): its two critical sections, and the early return between them.
CloseSocket ==
    /\ ~aborted /\ wld.at \in {"close", "destroy"}
    /\ closing' = TRUE
    /\ wld' = IF closing
              THEN IF Destroying THEN [wld EXCEPT !.at = "release"] ELSE [at |-> "idle", s |-> 0]
              ELSE [wld EXCEPT !.at = IF Destroying THEN "destroySession" ELSE "closeSession"]
    /\ UNCHANGED <<output, refs, reactor, peerGone, objects, acc, net, inUpcall, kind, bounds>>

\* Mutated: CloseSocket() leaves m_Session alone.
CloseSessionKeeps ==
    /\ ~aborted /\ wld.at \in {"closeSession", "destroySession"}
    /\ UNCHANGED mSession
    /\ wld' = IF Destroying THEN [wld EXCEPT !.at = "release"] ELSE [at |-> "idle", s |-> 0]
    /\ UNCHANGED <<closing, output, refs, reactor, peerGone, session, hasSocket, held, acc,
                   net, inUpcall, kind, bounds>>

CloseSession ==
    /\ ~aborted /\ wld.at \in {"closeSession", "destroySession"}
    /\ mSession' = 0
    /\ wld' = IF Destroying THEN [wld EXCEPT !.at = "release"] ELSE [at |-> "idle", s |-> 0]
    /\ UNCHANGED <<closing, output, refs, reactor, peerGone, session, hasSocket, held, acc,
                   net, inUpcall, kind, bounds>>

\* The end of Update(): a session whose socket is closed lets go of it and is deleted.
SeesClosed(s) ==
    /\ ~aborted /\ wld.at = "idle" /\ Live(s) /\ hasSocket[s] /\ closing
    /\ wld' = [at |-> "release", s |-> s]
    /\ UNCHANGED <<closing, output, refs, reactor, peerGone, objects, acc, net, inUpcall,
                   kind, bounds>>

\* Mutated: the session keeps its reference.
ReleaseForgotten ==
    /\ ~aborted /\ wld.at = "release" /\ wld' = [wld EXCEPT !.at = "delete"]
    /\ UNCHANGED refs
    /\ hasSocket' = [hasSocket EXCEPT ![wld.s] = FALSE]
    /\ UNCHANGED <<closing, output, reactor, peerGone, mSession, session, held, acc, net,
                   inUpcall, kind, bounds>>

Release ==
    /\ ~aborted /\ wld.at = "release" /\ wld' = [wld EXCEPT !.at = "delete"]
    /\ refs' = refs - 1
    /\ hasSocket' = [hasSocket EXCEPT ![wld.s] = FALSE]
    /\ UNCHANGED <<closing, output, reactor, peerGone, mSession, session, held, acc, net,
                   inUpcall, kind, bounds>>

Delete ==
    /\ ~aborted /\ wld.at = "delete" /\ wld' = [at |-> "idle", s |-> 0]
    /\ session' = [session EXCEPT ![wld.s] = "deleted"]
    /\ UNCHANGED <<closing, output, refs, reactor, peerGone, mSession, hasSocket, held, acc,
                   net, inUpcall, kind, bounds>>
-----------------------------------------------------------------------------
Acceptor == OnSocketOpen \/ OpenFails \/ SendChallenge \/ RegisterHandler \/ AcceptorDone

Network ==
    \/ CallOutput \/ HandleOutput \/ Mask \/ Return \/ HandleClose \/ RemoveHandler
    \/ AddNewSockets \/ Update \/ ShutSocket \/ ShutSession \/ DropSocket
    \/ CallInput \/ NextInput \/ QueuePacket \/ HandlePing \/ HandleAuthSession
    \/ AddSession \/ Reply \/ ReplyMask \/ Caught \/ LogError

WorldStep == WorldMask \/ CloseSocket \/ CloseSession \/ Release \/ Delete

World == WorldStep \/ \E s \in Session : WorldSend(s) \/ Kick(s) \/ Destroy(s) \/ SeesClosed(s)

Next == Acceptor \/ Network \/ PeerCloses \/ World

Spec == Init /\ [][Next]_vars

\* The three threads go on.  The network thread is free to choose what to do next, but
\* it comes to its sockets in every round; the world thread visits every session.
Fairness ==
    /\ WF_vars(Acceptor)
    /\ WF_vars(Network /\ net # "poll")
    /\ SF_vars(AddNewSockets \/ Update)
    /\ SF_vars(CallInput /\ peerGone)
    /\ WF_vars(WorldStep)
    /\ SF_vars(\E s \in Session : SeesClosed(s))

FairSpec == Spec /\ Fairness
-----------------------------------------------------------------------------
Positions == {"poll", "output", "mask", "return", "close", "forget", "shut", "shutSession",
              "drop", "input", "dispatch", "reply", "wake", "add", "caught", "log"}

Unit == (Nat \ {0}) \X Nat

\* Type invariant.
TypeOK ==
    /\ closing \in BOOLEAN /\ outActive \in BOOLEAN /\ aborted \in BOOLEAN
    /\ out \in [buf : Seq(Unit), queue : Seq([p : Nat \ {0}, rpos : Nat])]
    /\ Len(out.buf) <= BufSize
    /\ wire \in Seq(Unit) /\ sent \in Seq(Nat)
    /\ refs \in Nat /\ registered \in BOOLEAN /\ writeMask \in BOOLEAN
    /\ inSet \in {"no", "new", "in", "out"} /\ peerGone \in BOOLEAN
    /\ mSession \in 0 .. MaxSession
    /\ session \in [Session -> {"none", "built", "live", "deleted"}]
    /\ hasSocket \in [Session -> BOOLEAN] /\ held \in 0 .. MaxSession
    /\ acc \in {"open", "send", "register", "release", "close", "done"}
    /\ net \in Positions /\ inUpcall \in BOOLEAN
    /\ kind \in {"none", "ping", "auth", "other", "refuse", "schedule", "cancel"}
    /\ wld \in [at : {"idle", "mask", "close", "closeSession", "destroy", "destroySession",
                      "release", "delete"}, s : 0 .. MaxSession]
    /\ inputs \in 0 .. MaxInput /\ wsends \in 0 .. MaxWorldSend

\* The unit that must follow u in the stream to the client.
Following(u) == IF u[2] < sent[u[1]] THEN <<u[1], u[2] + 1>> ELSE <<u[1] + 1, 0>>

\* The first unit that is not in the stream yet.
FirstLeft == LET h == Head(out.queue)
             IN  IF out.queue = <<>> THEN <<Len(sent) + 1, 0>>
                 ELSE IF h.rpos = 0 THEN <<h.p, 0>> ELSE <<h.p, h.rpos + 1>>

\* What the client receives, what is buffered and what is queued are the packets in the
\* order in which SendPacket() accepted them, without a gap and without overtaking,
\* however the kernel cuts the sends.  Only a header may be repeated: it is when it
\* took the last free place of the buffer (rpos() == 0 means "nothing sent yet").
StreamInOrder ==
    LET s == wire \o out.buf
        Next2(u, v) == v = Following(u) \/ (v = u /\ u[2] = 0)
    IN  /\ s = <<>> \/ s[1] = <<1, 0>>
        /\ \A j \in 1 .. Len(s) - 1 : Next2(s[j], s[j + 1])
        /\ IF s = <<>> THEN FirstLeft = <<1, 0>> ELSE Next2(s[Len(s)], FirstLeft)
        /\ \A j \in 1 .. Len(out.queue) - 1 :
              out.queue[j + 1] = [p |-> out.queue[j].p + 1, rpos |-> 0]

Holders == (IF acc # "done" THEN 1 ELSE 0) + (IF inSet \in {"new", "in"} THEN 1 ELSE 0)
         + (IF registered THEN 1 ELSE 0) + (IF inUpcall THEN 1 ELSE 0)
         + Cardinality({s \in Session : hasSocket[s]})

\* The reference count is the number of those that still point to the socket: it is
\* deleted when the last of them lets go, not while a callback runs and not never.
RefsExact == refs = Holders

\* Whenever a handler is about to use m_Session under m_SessionLock, it is NULL or a
\* session that the world has not deleted, although CloseSocket() of an already closed
\* socket returns without clearing it; and the new session HandleAuthSession() gives to the
\* world, without the lock, is still there.  Not so the handler of a ByteBufferException,
\* which takes no lock: the session that it held may be deleted when it logs (LogError).
SessionUsable ==
    /\ net = "dispatch" /\ mSession # 0 => session[mSession] \in {"built", "live"}
    /\ net = "add" => mSession # 0 /\ session[mSession] = "built"

\* "True if the socket is registered with the reactor for output": whenever no thread is
\* between its change of m_OutActive and the reactor's answer, they agree.
OutActiveRegistered ==
    (registered /\ ~closing /\ net \notin {"mask", "wake"} /\ wld.at # "mask")
        => (outActive <=> writeMask)

\* Once both sides have closed the connection, the socket is deleted.
SocketFreed == (closing /\ (peerGone \/ ~registered) /\ acc = "done") ~> (refs = 0 \/ aborted)
=============================================================================
