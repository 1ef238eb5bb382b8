------------------------------ MODULE SqlDelay ------------------------------
(***************************************************************************)
(* The asynchronous database layer of shared/Database: one Database object *)
(* (one MySQL connection), the SqlDelayThread that drains its bounded FIFO *)
(* of SqlOperations, the per-thread open transactions of m_tranQueues, the *)
(* result queue through which answers return to the thread that asked, and *)
(* the halt at server shutdown.                                            *)
(*                                                                         *)
(* A write is named <<t, n>>: the n-th statement thread t gave to          *)
(* Execute().  SQL text is abstracted away; what matters is where a write  *)
(* is and what became of it.  The server refuses or obeys each command it   *)
(* is sent; a connection that is lost and made anew is not modelled.       *)
(***************************************************************************)
EXTENDS Naturals, Sequences, FiniteSets, Functions

CONSTANTS Threads,       \* threads that call into the Database object
          Readers,       \* those that called SetResultQueue()
          NoThread,      \* "nMutex is free"
          Capacity,      \* tasks the ACE queue holds below its high-water mark
          MaxWrites,     \* bound: Execute() calls of each thread
          MaxTrans,      \* bound: BeginTransaction() calls of each thread
          MaxDirect,     \* bound: DirectExecute() calls of each thread
          MaxQueries,    \* bound: asynchronous queries of each thread
          HolderSize,    \* queries in a SqlQueryHolder (1 is a single AsyncQuery)
          Refusable      \* the Commands the server may refuse to obey

\* What SqlTransaction::Execute() sends around its statements; it looks at the
\* result of none of the three.
Commands == {"START TRANSACTION", "ROLLBACK", "COMMIT"}

ASSUME SqlConstants ==
    /\ Readers \subseteq Threads
    /\ NoThread \notin Threads
    /\ Capacity \in Nat \ {0}
    /\ MaxWrites \in [Threads -> Nat] /\ MaxDirect \in [Threads -> Nat]
    /\ MaxQueries \in [Threads -> Nat] /\ MaxTrans \in [Threads -> Nat]
    /\ HolderSize \in Nat \ {0}
    /\ Refusable \subseteq Commands

VARIABLES
    tran,        \* m_tranQueues: per thread, the open transaction or none
    inHand,      \* the task a thread is inside Delay() with (at most one)
    nMutex,      \* owner of nMutex
    sqlQueue,    \* m_sqlQueue
    activated,   \* the ACE queue has not been deactivated
    running,     \* m_running
    wpc,         \* where the delay thread is
    job,         \* the SqlAsyncTask it is executing
    conn,        \* the connection: is the server inside a transaction, the
                 \* uncommitted writes, and (history) the SqlTransaction begun last
    log,         \* committed Execute() writes, in commit order
    direct,      \* committed DirectExecute() writes
    results,     \* SqlResultQueue of each reader: tickets of answered queries
    halt,        \* progress of HaltDelayThread()
    issued,      \* history: Execute() calls per thread
    begun,       \* history: BeginTransaction() calls per thread
    directs,     \* history: successful DirectExecute() calls per thread
    asked,       \* history: asynchronous queries per thread
    called,      \* history: ticket of the last callback run, per reader
    dead,        \* history: writes refused, rolled back or discarded
    committed,   \* history: transactions handed over by CommitTransaction()
    exposed,     \* history: those whose own START TRANSACTION or ROLLBACK was refused
    fell         \* history: direct writes, each with the transaction it fell into

clientVars == <<tran, inHand, nMutex>>
workerVars == <<wpc, job>>
dbVars     == <<conn, log, direct, dead>>
countVars  == <<issued, begun, directs, asked, called, committed>>
fateVars   == <<exposed, fell>>
vars == <<clientVars, sqlQueue, activated, running, workerVars, dbVars,
          results, halt, countVars, fateVars>>

-----------------------------------------------------------------------------
\* A SqlOperation inside its SqlAsyncTask.  "write" is a SqlStatement, "trans"
\* a SqlTransaction, "query" a SqlQuery or a SqlQueryHolderEx.  A query
\* remembers its ticket and, as history, the last write of its thread that had
\* left the thread's open transaction when the query was made.
Task == {task \in [kind : {"write", "trans", "query"}, by : Threads, body : Seq(Nat),
                   reads : Nat, ticket : Nat, upTo : Nat] :
            task.kind = "write" => Len(task.body) = 1}

SqlAsyncTask(kind, t, body, reads, ticket, upTo) ==
    [kind |-> kind, by |-> t, body |-> body, reads |-> reads, ticket |-> ticket,
     upTo |-> upTo]

NoTask == SqlAsyncTask("none", NoThread, <<>>, 0, 0, 0)

\* Mutated: the statement does not keep its owner.
StatementWithoutOwner(t, n) == SqlAsyncTask("write", NoThread, <<n>>, 0, 0, 0)

SqlStatement(t, n)   == SqlAsyncTask("write", t, <<n>>, 0, 0, 0)
SqlTransaction(t, b) == SqlAsyncTask("trans", t, b, 0, 0, 0)
SqlQuery(t, k, last) == SqlAsyncTask("query", t, <<>>, HolderSize, k, last)

NoTran == [open |-> FALSE, body |-> <<>>]
NoServerTran == [inTran |-> FALSE, log |-> <<>>, direct |-> {}, tran |-> {}]

WritesIn(task)   == {<<task.by, task.body[i]>> : i \in DOMAIN task.body}
OpenWrites(t)    == {<<t, tran[t].body[i]>> : i \in DOMAIN tran[t].body}
Visible          == Range(log) \cup Range(conn.log)

Init ==
    /\ tran = [t \in Threads |-> NoTran]
    /\ inHand = [t \in Threads |-> <<>>]
    /\ nMutex = NoThread
    /\ sqlQueue = <<>> /\ activated = TRUE /\ running = TRUE
    /\ wpc = "loop" /\ job = NoTask
    /\ conn = NoServerTran
    /\ log = <<>> /\ direct = {} /\ dead = {}
    /\ results = [t \in Readers |-> <<>>]
    /\ halt = "up"
    /\ issued = [t \in Threads |-> 0] /\ directs = [t \in Threads |-> 0]
    /\ begun = [t \in Threads |-> 0]
    /\ asked = [t \in Threads |-> 0] /\ called = [t \in Threads |-> 0]
    /\ committed = {} /\ exposed = {} /\ fell = {}

-----------------------------------------------------------------------------
(* Client threads.                                                         *)

\* A thread not blocked inside Delay().  After HaltDelayThread() has begun, the
\* other threads have been joined and the main thread is inside the halt.
Free(t) == inHand[t] = <<>> /\ halt = "up"
FreeAndUnlocked(t) == Free(t) /\ nMutex = NoThread

\* Delay() is called holding nMutex: the caller keeps it while the queue is full.
DelayLocked(t, task) ==
    /\ inHand' = [inHand EXCEPT ![t] = <<task>>]
    /\ nMutex' = t

BeginTransaction(t) ==
    /\ FreeAndUnlocked(t) /\ begun[t] < MaxTrans[t]
    /\ begun' = [begun EXCEPT ![t] = @ + 1]
    /\ dead' = dead \cup OpenWrites(t)      \* "not allow trans in trans"
    /\ tran' = [tran EXCEPT ![t] = [open |-> TRUE, body |-> <<>>]]
    /\ UNCHANGED <<inHand, nMutex, sqlQueue, activated, running, workerVars,
                   conn, log, direct, results, halt, issued, directs, asked, called, committed, fateVars>>

RollbackTransaction(t) ==
    /\ FreeAndUnlocked(t) /\ tran[t].open
    /\ dead' = dead \cup OpenWrites(t)
    /\ tran' = [tran EXCEPT ![t] = NoTran]
    /\ UNCHANGED <<inHand, nMutex, sqlQueue, activated, running, workerVars,
                   conn, log, direct, results, halt, countVars, fateVars>>

CommitTransaction(t) ==
    /\ FreeAndUnlocked(t) /\ tran[t].open
    /\ DelayLocked(t, SqlTransaction(t, tran[t].body))
    /\ tran' = [tran EXCEPT ![t] = NoTran]
    /\ committed' = committed \cup {OpenWrites(t)}
    /\ UNCHANGED <<sqlQueue, activated, running, workerVars, dbVars, results,
                   halt, issued, begun, directs, asked, called, fateVars>>
\* Mutated: a statement does not join its thread's open transaction.
ExecuteOutsideTransaction(t) ==
    /\ FreeAndUnlocked(t) /\ issued[t] < MaxWrites[t]
    /\ issued' = [issued EXCEPT ![t] = @ + 1]
    /\ IF tran[t].open /\ tran[t].body = <<>>
       THEN /\ tran' = [tran EXCEPT ![t].body = Append(@, issued[t] + 1)]
            /\ UNCHANGED <<inHand, nMutex>>
       ELSE DelayLocked(t, SqlStatement(t, issued[t] + 1)) /\ UNCHANGED tran
    /\ UNCHANGED <<sqlQueue, activated, running, workerVars, dbVars, results,
                   halt, begun, directs, asked, called, committed, fateVars>>

\* Inside an open transaction the statement joins it; otherwise it is delayed.
Execute(t) ==
    /\ FreeAndUnlocked(t) /\ issued[t] < MaxWrites[t]
    /\ issued' = [issued EXCEPT ![t] = @ + 1]
    /\ \/ /\ tran[t].open
          /\ tran' = [tran EXCEPT ![t].body = Append(@, issued[t] + 1)]
          /\ UNCHANGED <<inHand, nMutex>>
       \/ /\ ~tran[t].open
          /\ DelayLocked(t, SqlStatement(t, issued[t] + 1))
          /\ UNCHANGED tran
    /\ UNCHANGED <<sqlQueue, activated, running, workerVars, dbVars, results,
                   halt, begun, directs, asked, called, committed, fateVars>>

\* AsyncQuery() and DelayQueryHolder(): delayed without nMutex, and never part
\* of the thread's open transaction.
AsyncQuery(t) ==
    /\ Free(t) /\ t \in Readers /\ asked[t] < MaxQueries[t]
    /\ asked' = [asked EXCEPT ![t] = @ + 1]
    /\ inHand' = [inHand EXCEPT ![t] =
                    <<SqlQuery(t, asked[t] + 1, issued[t] - Len(tran[t].body))>>]
    /\ UNCHANGED <<tran, nMutex, sqlQueue, activated, running, workerVars, dbVars,
                   results, halt, issued, begun, directs, called, committed, fateVars>>
\* Mutated: a full queue refuses the task instead of making the caller wait.
DelayOrDrop(t) ==
    /\ inHand[t] # <<>>
    /\ sqlQueue' = IF Len(sqlQueue) < Capacity THEN Append(sqlQueue, Head(inHand[t]))
                   ELSE sqlQueue
    /\ inHand' = [inHand EXCEPT ![t] = <<>>]
    /\ nMutex' = IF nMutex = t THEN NoThread ELSE nMutex
    /\ UNCHANGED <<tran, activated, running, workerVars, dbVars, results, halt,
                   countVars, fateVars>>

\* Mutated: queries overtake the writes that are waiting.
DelayQueryFirst(t) ==
    /\ inHand[t] # <<>> /\ Len(sqlQueue) < Capacity
    /\ sqlQueue' = IF inHand[t][1].kind = "query" THEN inHand[t] \o sqlQueue
                   ELSE sqlQueue \o inHand[t]
    /\ inHand' = [inHand EXCEPT ![t] = <<>>]
    /\ nMutex' = IF nMutex = t THEN NoThread ELSE nMutex
    /\ UNCHANGED <<tran, activated, running, workerVars, dbVars, results, halt,
                   countVars, fateVars>>

\* The end of Delay(): ACE's enqueue waits while the queue is full, then the
\* caller releases nMutex if it held it.
Delay(t) ==
    /\ inHand[t] # <<>> /\ Len(sqlQueue) < Capacity
    /\ sqlQueue' = Append(sqlQueue, Head(inHand[t]))
    /\ inHand' = [inHand EXCEPT ![t] = <<>>]
    /\ nMutex' = IF nMutex = t THEN NoThread ELSE nMutex
    /\ UNCHANGED <<tran, activated, running, workerVars, dbVars, results, halt,
                   countVars, fateVars>>

\* A successful DirectExecute(): it takes mMutex for this one statement, so it
\* may fall between two statements of the delay thread's transaction.
DirectExecute(t) ==
    /\ Free(t) /\ directs[t] < MaxDirect[t]
    /\ directs' = [directs EXCEPT ![t] = @ + 1]
    /\ \/ /\ conn.inTran
          /\ conn' = [conn EXCEPT !.direct = @ \cup {<<t, directs[t] + 1>>}]
          /\ fell' = fell \cup {<<<<t, directs[t] + 1>>, conn.tran>>}
          /\ UNCHANGED direct
       \/ /\ ~conn.inTran
          /\ direct' = direct \cup {<<t, directs[t] + 1>>}
          /\ UNCHANGED <<conn, fell>>
    /\ UNCHANGED <<clientVars, sqlQueue, activated, running, workerVars, log, dead,
                   results, halt, issued, begun, asked, called, committed, exposed>>
\* Mutated: the waiting callbacks are cleared after the first one has run.
UpdateDropsRest(t) ==
    /\ Free(t) /\ t \in Readers /\ results[t] # <<>>
    /\ called' = [called EXCEPT ![t] = Head(results[t])]
    /\ results' = [results EXCEPT ![t] = <<>>]
    /\ UNCHANGED <<clientVars, sqlQueue, activated, running, workerVars, dbVars,
                   halt, issued, begun, directs, asked, committed, fateVars>>

\* SqlResultQueue::Update() runs the callbacks that are waiting, one by one.
Update(t) ==
    /\ Free(t) /\ t \in Readers /\ results[t] # <<>>
    /\ called' = [called EXCEPT ![t] = Head(results[t])]
    /\ results' = [results EXCEPT ![t] = Tail(@)]
    /\ UNCHANGED <<clientVars, sqlQueue, activated, running, workerVars, dbVars,
                   halt, issued, begun, directs, asked, committed, fateVars>>

\* The server obeys the Execute() write w, inside the transaction it is in if there
\* is one, or refuses it.
Obeyed(w) ==
    /\ \/ /\ conn.inTran
          /\ conn' = [conn EXCEPT !.log = Append(@, w)]
          /\ UNCHANGED log
       \/ /\ ~conn.inTran
          /\ log' = Append(log, w)
          /\ UNCHANGED conn
    /\ UNCHANGED dead

Refused(w) == dead' = dead \cup {w} /\ UNCHANGED <<conn, log>>

Perform(w) == Obeyed(w) \/ Refused(w)

\* Once the delay thread is gone, Execute() sends the statement itself.
ExecuteSync(t) ==
    /\ halt = "down" /\ issued[t] < MaxWrites[t]
    /\ issued' = [issued EXCEPT ![t] = @ + 1]
    /\ Perform(<<t, issued[t] + 1>>)
    /\ UNCHANGED <<clientVars, sqlQueue, activated, running, workerVars, direct,
                   results, halt, begun, directs, asked, called, committed, fateVars>>

-----------------------------------------------------------------------------
(* The delay thread.                                                       *)

\* The loop condition of SqlDelayThread::run().
WorkerLoop ==
    /\ wpc = "loop"
    /\ wpc' = IF running THEN "dequeue" ELSE "exit"
    /\ UNCHANGED <<clientVars, sqlQueue, activated, running, job, dbVars, results,
                   halt, countVars, fateVars>>

\* ACE's dequeue waits while the queue is empty and returns nothing, whatever
\* the queue still holds, once it has been deactivated.
WorkerDequeue ==
    /\ wpc = "dequeue"
    /\ \/ /\ activated /\ sqlQueue # <<>>
          /\ job' = Head(sqlQueue) /\ sqlQueue' = Tail(sqlQueue)
          /\ wpc' = "call"
       \/ /\ ~activated
          /\ wpc' = "loop"
          /\ UNCHANGED <<job, sqlQueue>>
    /\ UNCHANGED <<clientVars, activated, running, dbVars, results, halt, countVars, fateVars>>

FinishJob == wpc' = "loop" /\ job' = NoTask

\* SqlStatement::Execute().
StatementExecute ==
    /\ wpc = "call" /\ job.kind = "write"
    /\ Perform(<<job.by, Head(job.body)>>)
    /\ FinishJob
    /\ UNCHANGED <<clientVars, sqlQueue, activated, running, direct, results,
                   halt, countVars, fateVars>>

\* SqlTransaction::Execute() up to START TRANSACTION.  Obeyed, it first commits
\* what a transaction left open still holds.  Refused, the statements go on in
\* the transaction left open, or one by one when there is none.
TransactionStart ==
    /\ wpc = "call" /\ job.kind = "trans"
    /\ \/ /\ job.body = <<>>
          /\ FinishJob /\ UNCHANGED <<conn, log, direct, exposed>>
       \/ /\ job.body # <<>>
          /\ wpc' = "body" /\ UNCHANGED job
          /\ \/ /\ conn' = [NoServerTran EXCEPT !.inTran = TRUE, !.tran = WritesIn(job)]
                /\ log' = log \o conn.log /\ direct' = direct \cup conn.direct
                /\ UNCHANGED exposed
             \/ /\ "START TRANSACTION" \in Refusable /\ conn.inTran
                /\ conn' = [conn EXCEPT !.tran = WritesIn(job)]
                /\ UNCHANGED <<log, direct, exposed>>
             \/ /\ "START TRANSACTION" \in Refusable /\ ~conn.inTran
                /\ exposed' = exposed \cup {WritesIn(job)}
                /\ UNCHANGED <<conn, log, direct>>
    /\ UNCHANGED <<clientVars, sqlQueue, activated, running, dead, results, halt,
                   countVars, fell>>

\* One statement of the transaction; a refused one ends it.
TransactionStatement ==
    /\ wpc = "body" /\ job.kind = "trans" /\ job.body # <<>>
    /\ job' = [job EXCEPT !.body = Tail(@)]
    /\ LET w == <<job.by, Head(job.body)>> IN
       \/ Obeyed(w) /\ UNCHANGED wpc
       \/ Refused(w) /\ wpc' = "abort"
    /\ UNCHANGED <<clientVars, sqlQueue, activated, running, direct, results, halt,
                   countVars, fateVars>>

\* Mutated: the statements before the refused one are committed.
RollbackCommitsPrefix ==
    /\ wpc = "abort" /\ FinishJob
    /\ log' = log \o conn.log
    /\ dead' = dead \cup WritesIn(job)
    /\ conn' = NoServerTran
    /\ UNCHANGED <<clientVars, sqlQueue, activated, running, direct, results, halt,
                   countVars, fateVars>>

\* A refused statement rolls the transaction back and drops what is left of it.
\* When ROLLBACK is refused too, the statements before stay where they are.
TransactionRollback ==
    /\ wpc = "abort" /\ FinishJob
    /\ \/ /\ conn' = NoServerTran
          /\ dead' = dead \cup Range(conn.log) \cup WritesIn(job)
          /\ UNCHANGED exposed
       \/ /\ "ROLLBACK" \in Refusable /\ conn.inTran
          /\ dead' = dead \cup WritesIn(job)
          /\ exposed' = exposed \cup {conn.tran}
          /\ UNCHANGED conn
    /\ UNCHANGED <<clientVars, sqlQueue, activated, running, log, direct, results,
                   halt, countVars, fell>>

\* Mutated: statements of other threads inside the transaction are not committed.
CommitOwnStatementsOnly ==
    /\ wpc = "body" /\ job.kind = "trans" /\ job.body = <<>> /\ FinishJob
    /\ log' = log \o conn.log
    /\ conn' = NoServerTran
    /\ UNCHANGED <<clientVars, sqlQueue, activated, running, direct, dead, results,
                   halt, countVars, fateVars>>

\* A refused COMMIT leaves the server's transaction open.
TransactionCommit ==
    /\ wpc = "body" /\ job.kind = "trans" /\ job.body = <<>> /\ FinishJob
    /\ \/ /\ conn' = NoServerTran
          /\ log' = log \o conn.log /\ direct' = direct \cup conn.direct
       \/ /\ "COMMIT" \in Refusable /\ conn.inTran
          /\ UNCHANGED <<conn, log, direct>>
    /\ UNCHANGED <<clientVars, sqlQueue, activated, running, dead, results, halt,
                   countVars, fateVars>>

\* One SELECT of a SqlQuery or of a SqlQueryHolderEx.
QueryRead ==
    /\ wpc = "call" /\ job.kind = "query" /\ job.reads > 0
    /\ job' = [job EXCEPT !.reads = @ - 1]
    /\ UNCHANGED <<clientVars, sqlQueue, activated, running, wpc, dbVars, results,
                   halt, countVars, fateVars>>
\* Mutated: the result queue is last-in first-out.
AnswerPushedFirst ==
    /\ wpc = "call" /\ job.kind = "query" /\ job.reads = 0
    /\ results' = [results EXCEPT ![job.by] = <<job.ticket>> \o @]
    /\ FinishJob
    /\ UNCHANGED <<clientVars, sqlQueue, activated, running, dbVars, halt, countVars, fateVars>>

\* The answer is handed to the thread that asked.
QueryAnswer ==
    /\ wpc = "call" /\ job.kind = "query" /\ job.reads = 0
    /\ results' = [results EXCEPT ![job.by] = Append(@, job.ticket)]
    /\ FinishJob
    /\ UNCHANGED <<clientVars, sqlQueue, activated, running, dbVars, halt, countVars, fateVars>>

-----------------------------------------------------------------------------
(* HaltDelayThread(), called by the main thread when the threads that use  *)
(* the database have been joined.                                          *)

StopRunning ==                                     \* Stop(), first assignment
    /\ halt = "up" /\ \A t \in Threads : inHand[t] = <<>>
    /\ halt' = "stopping" /\ running' = FALSE
    /\ UNCHANGED <<clientVars, sqlQueue, activated, workerVars, dbVars, results,
                   countVars, fateVars>>
\* Mutated: Stop() clears m_running but does not wake the sleeping thread.
StopWithoutWakeup ==
    /\ halt = "stopping"
    /\ halt' = "joining"
    /\ UNCHANGED <<clientVars, sqlQueue, activated, running, workerVars, dbVars,
                   results, countVars, fateVars>>

Deactivate ==                                      \* Stop(), queue()->deactivate()
    /\ halt = "stopping"
    /\ halt' = "joining" /\ activated' = FALSE
    /\ UNCHANGED <<clientVars, sqlQueue, running, workerVars, dbVars, results,
                   countVars, fateVars>>

\* m_delayThread->wait() returns; deleting the thread deletes its queue.
Joined ==
    /\ halt = "joining" /\ wpc = "exit"
    /\ halt' = "down" /\ sqlQueue' = <<>>
    /\ UNCHANGED <<clientVars, activated, running, workerVars, dbVars, results,
                   countVars, fateVars>>

-----------------------------------------------------------------------------
Client(t) == \/ BeginTransaction(t) \/ RollbackTransaction(t)
             \/ CommitTransaction(t) \/ Execute(t) \/ AsyncQuery(t)
             \/ Delay(t) \/ DirectExecute(t) \/ Update(t) \/ ExecuteSync(t)

Worker == \/ WorkerLoop \/ WorkerDequeue \/ StatementExecute
          \/ TransactionStart \/ TransactionStatement \/ TransactionRollback
          \/ TransactionCommit \/ QueryRead \/ QueryAnswer

HaltDelayThread == StopRunning \/ Deactivate \/ Joined

\* The process ends once the halt is complete.
Terminated == halt = "down" /\ UNCHANGED vars

Next == (\E t \in Threads : Client(t)) \/ Worker \/ HaltDelayThread \/ Terminated

Spec == Init /\ [][Next]_vars

\* The delay thread and the threads inside Delay() are scheduled, readers go
\* on calling Update() (the world loop does so on every tick), and a halt that
\* has begun is carried through.  Nobody is obliged to make a call.
Fairness == /\ WF_vars(Worker)
            /\ \A t \in Threads : WF_vars(Delay(t)) /\ WF_vars(Update(t))
            /\ WF_vars(Deactivate \/ Joined)

FairSpec == Spec /\ Fairness
-----------------------------------------------------------------------------
(* Properties.                                                             *)

Writes == Threads \X Nat

ClientTypes ==
    /\ tran \in [Threads -> [open : BOOLEAN, body : Seq(Nat)]]
    /\ inHand \in [Threads -> Seq(Task)]
    /\ \A t \in Threads : Len(inHand[t]) <= 1
    /\ nMutex \in Threads \cup {NoThread}

QueueTypes ==
    /\ sqlQueue \in Seq(Task) /\ results \in [Readers -> Seq(Nat)]
    /\ activated \in BOOLEAN /\ running \in BOOLEAN
    /\ halt \in {"up", "stopping", "joining", "down"}

WorkerTypes ==
    /\ wpc \in {"loop", "dequeue", "call", "body", "abort", "exit"}
    /\ IF wpc \in {"call", "body", "abort"} THEN job \in Task ELSE job = NoTask
    /\ wpc \in {"body", "abort"} => job.kind = "trans"

DbTypes ==
    /\ conn \in [inTran : BOOLEAN, log : Seq(Writes), direct : SUBSET Writes,
                tran : SUBSET Writes]
    /\ conn.inTran \/ conn = NoServerTran
    /\ log \in Seq(Writes) /\ direct \subseteq Writes /\ dead \subseteq Writes

CountTypes ==
    /\ issued \in [Threads -> Nat] /\ begun \in [Threads -> Nat]
    /\ directs \in [Threads -> Nat] /\ asked \in [Threads -> Nat]
    /\ called \in [Threads -> Nat] /\ committed \subseteq SUBSET Writes
    /\ exposed \subseteq SUBSET Writes /\ fell \subseteq Writes \X SUBSET Writes

OpenCounted == \A t \in Threads : Len(tran[t].body) <= issued[t]

\* Type invariant: a thread is inside at most one Delay(), and the delay thread
\* has a task exactly while it executes one.
TypeOK == /\ ClientTypes /\ QueueTypes /\ WorkerTypes /\ DbTypes /\ CountTypes
          /\ OpenCounted

\* The writes of one thread become durable in the order of its Execute() calls,
\* each at most once, whether they went alone or in a transaction.
ThreadOrder ==
    \A i, j \in DOMAIN log :
        i < j /\ log[i][1] = log[j][1] => log[i][2] < log[j][2]

\* A transaction handed over by CommitTransaction() is durable as a whole or not
\* at all, whatever statement fails, whoever writes in between, and also when the
\* server refuses COMMIT or the commands of other transactions.  Only the refusal
\* of its own START TRANSACTION or ROLLBACK, of which SqlTransaction::Execute()
\* takes no notice, can split it, and then what is durable is a beginning of it.
TransactionAtomic ==
    \A tr \in committed :
        /\ tr \in exposed \/ tr \subseteq Range(log) \/ tr \cap Range(log) = {}
        /\ \A v, w \in tr : v[2] < w[2] /\ w \in Range(log) => v \in Range(log)

\* An asynchronous query sees every write its thread executed before it asked,
\* except those still in the thread's open transaction and those that failed:
\* a login reads what the preceding logout saved.
QueryReadsOwnWrites ==
    wpc = "call" /\ job.kind = "query" =>
        \A n \in 1 .. job.upTo : <<job.by, n>> \in Visible \cup dead

Pending == UNION ({WritesIn(sqlQueue[i]) : i \in DOMAIN sqlQueue}
                  \cup {WritesIn(inHand[t][1]) : t \in {u \in Threads : inHand[u] # <<>>}}
                  \cup {OpenWrites(t) : t \in Threads}
                  \cup {WritesIn(job)})

\* Until the halt, a write that Execute() accepted is durable, waiting, or known
\* to have failed, and never two of these: nothing is dropped and nothing that
\* was reported rolled back is durable.
NothingForgotten ==
    halt # "down" =>
        /\ \A t \in Threads : \A n \in 1 .. issued[t] :
               <<t, n>> \in Visible \cup dead \cup Pending
        /\ Visible \cap dead = {} /\ Visible \cap Pending = {} /\ dead \cap Pending = {}

\* A DirectExecute() that succeeded is durable, or waits in a transaction that is
\* open on the connection; it is lost only when it fell into a transaction of the
\* delay thread and all of that very transaction is lost with it.
DirectWriteFate ==
    \A t \in Threads : \A n \in 1 .. directs[t] :
        \/ <<t, n>> \in direct \cup conn.direct
        \/ \E tr \in committed : /\ <<<<t, n>>, tr>> \in fell
                                 /\ tr # {} /\ tr \subseteq dead

\* Callbacks run in the order the queries were asked, each exactly once, none
\* skipped.
AnswersInOrder ==
    [][\A t \in Readers : called'[t] # called[t] => called'[t] = called[t] + 1]_vars

\* The server is inside a transaction although the delay thread executes none,
\* because it refused the COMMIT or the ROLLBACK of an earlier one.
LeftOpen == conn.inTran /\ job.kind # "trans"

\* Every write that left its thread's open transaction is eventually durable or
\* has failed, unless the server is halted, or holds it in a transaction left open
\* by a refused COMMIT or ROLLBACK that SqlTransaction::Execute() does not notice.
WritesSettle ==
    \A t \in Threads : \A n \in 1 .. MaxWrites[t] :
        (n <= issued[t] /\ <<t, n>> \notin OpenWrites(t))
            ~> (\/ <<t, n>> \in Range(log) \cup dead \/ halt # "up"
                \/ LeftOpen /\ <<t, n>> \in Range(conn.log))

\* Every asynchronous query is eventually answered to the thread that asked,
\* unless the server is halted.
QueriesAnswered ==
    \A t \in Readers : \A k \in 1 .. MaxQueries[t] :
        asked[t] >= k ~> (called[t] >= k \/ halt # "up")

\* A halt ends, even when the delay thread sleeps on an empty queue.
HaltEnds == halt = "stopping" ~> halt = "down"

\* What SqlDelayThread.cpp:23-24 and Database.cpp:633 say of the halt: the queue
\* is emptied before the thread exits ("Wait for flush to DB").
FlushedAtHalt ==
    wpc = "exit" => \A i \in DOMAIN sqlQueue : WritesIn(sqlQueue[i]) = {}
=============================================================================
