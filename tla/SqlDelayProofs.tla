--------------------------- MODULE SqlDelayProofs ---------------------------
(***************************************************************************)
(* Theorems about SqlDelay, for any number of threads, any queue capacity  *)
(* and any bounds.                                                         *)
(***************************************************************************)
EXTENDS SqlDelay, TLAPS

\* The tasks built by the client operations are tasks.
LEMMA TaskTypes ==
    ASSUME NEW t \in Threads, NEW n \in Nat, NEW k \in Nat, NEW b \in Seq(Nat)
    PROVE  /\ SqlStatement(t, n) \in Task
           /\ SqlTransaction(t, b) \in Task
           /\ SqlQuery(t, k, n) \in Task
<1>1. SqlStatement(t, n) \in Task
  BY SqlConstants DEF SqlStatement, SqlAsyncTask, Task
<1>2. SqlTransaction(t, b) \in Task
  BY SqlConstants DEF SqlTransaction, SqlAsyncTask, Task
<1>3. SqlQuery(t, k, n) \in Task
  BY SqlConstants DEF SqlQuery, SqlAsyncTask, Task
<1>. QED BY <1>1, <1>2, <1>3

\* What a task holds are writes.
LEMMA TaskWrites == ASSUME NEW task \in Task PROVE WritesIn(task) \subseteq Writes
<1>1. task.by \in Threads /\ task.body \in Seq(Nat)
  BY DEF Task
<1>2. \A i \in DOMAIN task.body : task.body[i] \in Nat
  BY <1>1
<1>. QED BY <1>1, <1>2 DEF WritesIn, Writes

\* What an open transaction holds are writes.
LEMMA TranWrites ==
    ASSUME TypeOK, NEW t \in Threads PROVE OpenWrites(t) \subseteq Writes
<1>1. tran[t].body \in Seq(Nat)
  BY DEF TypeOK, ClientTypes
<1>2. \A i \in DOMAIN tran[t].body : tran[t].body[i] \in Nat
  BY <1>1
<1>. QED BY <1>2 DEF OpenWrites, Writes

\* The elements of a sequence are elements of the set it is over.
LEMMA RangeOfSeq == ASSUME NEW S, NEW s \in Seq(S) PROVE Range(s) \subseteq S
  BY DEF Range

\* The head and the tail of a sequence are of its type.
LEMMA HeadTail == ASSUME NEW S, NEW s \in Seq(S), s # <<>>
                  PROVE  Head(s) \in S /\ Tail(s) \in Seq(S)
  OBVIOUS

\* Appending to a sequence.
LEMMA AppendSeq == ASSUME NEW S, NEW s \in Seq(S), NEW e \in S PROVE Append(s, e) \in Seq(S)
  OBVIOUS

\* The task left after one of its statements, or one of its queries, was sent.
LEMMA TaskProgress ==
    ASSUME NEW task \in Task
    PROVE  /\ task.body # <<>> => <<task.by, Head(task.body)>> \in Writes
           /\ task.kind = "trans" /\ task.body # <<>> => [task EXCEPT !.body = Tail(@)] \in Task
           /\ task.kind = "query" /\ task.reads > 0 => [task EXCEPT !.reads = @ - 1] \in Task
           /\ task.kind = "write" => task.body # <<>>
           /\ task.ticket \in Nat
<1>1. /\ task \in [kind : {"write", "trans", "query"}, by : Threads, body : Seq(Nat),
                   reads : Nat, ticket : Nat, upTo : Nat]
      /\ task.kind = "write" => Len(task.body) = 1
  BY DEF Task
<1>2. ASSUME task.kind = "write", task.body = <<>> PROVE FALSE
  <2>1. Len(task.body) = 0
    BY <1>2
  <2>. QED BY <1>1, <1>2, <2>1
<1>3. task.body # <<>> => Head(task.body) \in Nat /\ Tail(task.body) \in Seq(Nat)
  BY <1>1, HeadTail
<1>4. ASSUME task.kind = "trans", task.body # <<>>
      PROVE  [task EXCEPT !.body = Tail(@)] \in Task
  <2>1. [task EXCEPT !.body = Tail(@)] \in
            [kind : {"write", "trans", "query"}, by : Threads, body : Seq(Nat),
             reads : Nat, ticket : Nat, upTo : Nat]
    BY <1>1, <1>3, <1>4
  <2>2. [task EXCEPT !.body = Tail(@)].kind = "trans"
    BY <1>1, <1>4
  <2>. QED BY <2>1, <2>2 DEF Task
<1>5. task.kind = "query" /\ task.reads > 0 => [task EXCEPT !.reads = @ - 1] \in Task
  BY <1>1 DEF Task
<1>. QED BY <1>1, <1>2, <1>3, <1>4, <1>5 DEF Writes

\* What the server does with a write keeps the database's types.
LEMMA PerformTypes ==
    ASSUME DbTypes, NEW w \in Writes, Perform(w), UNCHANGED direct PROVE DbTypes'
<1>1. Append(conn.log, w) \in Seq(Writes) /\ Append(log, w) \in Seq(Writes)
  BY AppendSeq DEF DbTypes
<1>2. conn.inTran \in BOOLEAN
  BY DEF DbTypes
<1>3. CASE conn.inTran /\ conn' = [conn EXCEPT !.log = Append(@, w)] /\ UNCHANGED <<log, dead>>
  <2>1. conn'.inTran
    BY <1>3 DEF DbTypes
  <2>. QED BY <1>1, <1>3, <2>1 DEF DbTypes
<1>4. CASE ~conn.inTran /\ log' = Append(log, w) /\ UNCHANGED <<conn, dead>>
  BY <1>1, <1>4 DEF DbTypes
<1>5. CASE dead' = dead \cup {w} /\ UNCHANGED <<conn, log>>
  BY <1>5 DEF DbTypes
<1>. QED BY <1>3, <1>4, <1>5 DEF Perform, Obeyed, Refused

\* The transaction's end, or its beginning, keeps the types of the connection.
LEMMA ServerTranTypes ==
    /\ \A tr : tr \subseteq Writes =>
           [NoServerTran EXCEPT !.inTran = TRUE, !.tran = tr] \in
               [inTran : BOOLEAN, log : Seq(Writes), direct : SUBSET Writes,
                tran : SUBSET Writes]
    /\ NoServerTran \in [inTran : BOOLEAN, log : Seq(Writes), direct : SUBSET Writes,
                         tran : SUBSET Writes]
<1>1. <<>> \in Seq(Writes)
  OBVIOUS
<1>. QED BY <1>1 DEF NoServerTran

\* No step leaves the types.
LEMMA TypeStep == ASSUME TypeOK, [Next]_vars PROVE TypeOK'
<1>. USE DEF TypeOK
<1>1. ASSUME NEW t \in Threads, BeginTransaction(t) PROVE TypeOK'
  <2>1. QueueTypes' /\ WorkerTypes'
    BY <1>1 DEF BeginTransaction, QueueTypes, WorkerTypes, clientVars, workerVars,
      dbVars, countVars, fateVars
  <2>2. ClientTypes'
    BY <1>1 DEF BeginTransaction, ClientTypes, clientVars, workerVars, dbVars,
      countVars, fateVars
  <2>3. DbTypes'
    BY <1>1, TranWrites DEF BeginTransaction, DbTypes, clientVars, workerVars, dbVars,
      countVars, fateVars
  <2>4. CountTypes'
    BY <1>1 DEF BeginTransaction, CountTypes, clientVars, workerVars, dbVars,
      countVars, fateVars
  <2>5. OpenCounted'
    <3>1. \A u \in Threads : tran'[u].body \in {<<>>, tran[u].body}
      BY <1>1 DEF BeginTransaction, ClientTypes, NoTran
    <3>2. UNCHANGED issued
      BY <1>1 DEF BeginTransaction, countVars, fateVars
    <3>3. Len(<<>>) = 0 /\ \A u \in Threads : 0 <= issued[u]
      BY DEF CountTypes
    <3>. QED BY <3>1, <3>2, <3>3 DEF OpenCounted
  <2>. QED BY <2>1, <2>2, <2>3, <2>4, <2>5
<1>2. ASSUME NEW t \in Threads, RollbackTransaction(t) PROVE TypeOK'
  <2>1. QueueTypes' /\ WorkerTypes' /\ CountTypes'
    BY <1>2 DEF RollbackTransaction, QueueTypes, WorkerTypes, CountTypes,
      clientVars, workerVars, dbVars, countVars, fateVars
  <2>2. ClientTypes'
    BY <1>2 DEF RollbackTransaction, ClientTypes, clientVars, workerVars, dbVars,
      countVars, fateVars, NoTran
  <2>3. DbTypes'
    BY <1>2, TranWrites DEF RollbackTransaction, DbTypes, clientVars, workerVars, dbVars,
      countVars, fateVars
  <2>4. OpenCounted'
    <3>1. \A u \in Threads : tran'[u].body \in {<<>>, tran[u].body}
      BY <1>2 DEF RollbackTransaction, ClientTypes, NoTran
    <3>2. UNCHANGED issued
      BY <1>2 DEF RollbackTransaction, countVars, fateVars
    <3>3. Len(<<>>) = 0 /\ \A u \in Threads : 0 <= issued[u]
      BY DEF CountTypes
    <3>. QED BY <3>1, <3>2, <3>3 DEF OpenCounted
  <2>. QED BY <2>1, <2>2, <2>3, <2>4
<1>3. ASSUME NEW t \in Threads, CommitTransaction(t) PROVE TypeOK'
  <2>1. QueueTypes' /\ WorkerTypes' /\ DbTypes'
    BY <1>3 DEF CommitTransaction, QueueTypes, WorkerTypes, DbTypes, clientVars,
      workerVars, dbVars, countVars, fateVars
  <2>2. ClientTypes'
    BY <1>3, TaskTypes DEF CommitTransaction, ClientTypes, clientVars, workerVars, dbVars,
      countVars, fateVars, DelayLocked, NoTran
  <2>3. CountTypes'
    BY <1>3, TranWrites DEF CommitTransaction, CountTypes, clientVars, workerVars, dbVars,
      countVars, fateVars
  <2>4. OpenCounted'
    <3>1. \A u \in Threads : tran'[u].body \in {<<>>, tran[u].body}
      BY <1>3 DEF CommitTransaction, ClientTypes, NoTran
    <3>2. UNCHANGED issued
      BY <1>3 DEF CommitTransaction, countVars, fateVars
    <3>3. Len(<<>>) = 0 /\ \A u \in Threads : 0 <= issued[u]
      BY DEF CountTypes
    <3>. QED BY <3>1, <3>2, <3>3 DEF OpenCounted
  <2>. QED BY <2>1, <2>2, <2>3, <2>4
<1>4. ASSUME NEW t \in Threads, Execute(t) PROVE TypeOK'
  <2>1. QueueTypes' /\ WorkerTypes' /\ DbTypes'
    BY <1>4 DEF Execute, QueueTypes, WorkerTypes, DbTypes, clientVars, workerVars,
      dbVars, countVars, fateVars
  <2>2. ClientTypes'
    <3>1. issued[t] + 1 \in Nat /\ tran[t].body \in Seq(Nat)
      BY DEF CountTypes, ClientTypes
    <3>2. Append(tran[t].body, issued[t] + 1) \in Seq(Nat)
      BY <3>1
    <3>3. CASE tran[t].open
      <4>1. /\ tran' = [tran EXCEPT ![t].body = Append(@, issued[t] + 1)]
            /\ UNCHANGED <<inHand, nMutex>>
        BY <1>4, <3>3 DEF Execute
      <4>. QED BY <3>2, <4>1 DEF ClientTypes
    <3>4. CASE ~tran[t].open
      <4>1. SqlStatement(t, issued[t] + 1) \in Task
        BY <3>1, TaskTypes
      <4>2. /\ inHand' = [inHand EXCEPT ![t] = <<SqlStatement(t, issued[t] + 1)>>]
            /\ nMutex' = t /\ tran' = tran
        BY <1>4, <3>4 DEF Execute, DelayLocked
      <4>. QED BY <4>1, <4>2 DEF ClientTypes
    <3>. QED BY <3>3, <3>4
  <2>3. CountTypes'
    BY <1>4 DEF Execute, CountTypes, clientVars, workerVars, dbVars, countVars, fateVars
  <2>4. OpenCounted'
    <3>1. /\ \A u \in Threads \ {t} : tran'[u] = tran[u] /\ issued'[u] = issued[u]
          /\ issued'[t] = issued[t] + 1
      BY <1>4 DEF Execute, ClientTypes, CountTypes
    <3>2. tran'[t].body \in {tran[t].body, Append(tran[t].body, issued[t] + 1)}
      BY <1>4 DEF Execute, ClientTypes
    <3>3. tran[t].body \in Seq(Nat) /\ issued[t] \in Nat
      BY DEF ClientTypes, CountTypes
    <3>4. /\ Len(tran[t].body) \in Nat /\ Len(tran'[t].body) \in Nat
          /\ Len(tran'[t].body) <= Len(tran[t].body) + 1
      BY <3>2, <3>3
    <3>5. Len(tran'[t].body) <= issued'[t]
      <4>1. Len(tran[t].body) <= issued[t]
        BY DEF OpenCounted
      <4>. QED BY <3>1, <3>3, <3>4, <4>1
    <3>. QED BY <3>1, <3>5 DEF OpenCounted
  <2>. QED BY <2>1, <2>2, <2>3, <2>4
<1>5. ASSUME NEW t \in Threads, AsyncQuery(t) PROVE TypeOK'
  <2>1. QueueTypes' /\ WorkerTypes' /\ DbTypes' /\ OpenCounted'
    BY <1>5 DEF AsyncQuery, QueueTypes, WorkerTypes, DbTypes, OpenCounted,
      clientVars, workerVars, dbVars, countVars, fateVars
  <2>2. ClientTypes'
    <3>1. tran[t].body \in Seq(Nat) /\ issued[t] \in Nat /\ asked[t] + 1 \in Nat
      BY DEF ClientTypes, CountTypes
    <3>2. issued[t] - Len(tran[t].body) \in Nat
      BY <3>1 DEF OpenCounted
    <3>3. SqlQuery(t, asked[t] + 1, issued[t] - Len(tran[t].body)) \in Task
      BY <3>1, <3>2, TaskTypes
    <3>. QED BY <1>5, <3>3 DEF AsyncQuery, ClientTypes
  <2>3. CountTypes'
    BY <1>5 DEF AsyncQuery, CountTypes, clientVars, workerVars, dbVars, countVars, fateVars
  <2>. QED BY <2>1, <2>2, <2>3
<1>6. ASSUME NEW t \in Threads, Delay(t) PROVE TypeOK'
  <2>1. WorkerTypes' /\ DbTypes' /\ CountTypes' /\ OpenCounted'
    BY <1>6 DEF Delay, WorkerTypes, DbTypes, CountTypes, OpenCounted, clientVars,
      workerVars, dbVars, countVars, fateVars
  <2>2. ClientTypes'
    BY <1>6 DEF Delay, ClientTypes, clientVars, workerVars, dbVars, countVars, fateVars
  <2>3. QueueTypes'
    BY <1>6, HeadTail DEF Delay, QueueTypes, clientVars, workerVars, dbVars, countVars, fateVars,
      ClientTypes
  <2>. QED BY <2>1, <2>2, <2>3
<1>7. ASSUME NEW t \in Threads, DirectExecute(t) PROVE TypeOK'
  <2>1. ClientTypes' /\ QueueTypes' /\ WorkerTypes' /\ OpenCounted'
    BY <1>7 DEF DirectExecute, ClientTypes, QueueTypes, WorkerTypes, OpenCounted,
      clientVars, workerVars, dbVars, countVars, fateVars
  <2>2. DbTypes'
    <3>1. <<t, directs[t] + 1>> \in Writes
      BY DEF CountTypes, Writes
    <3>2. CASE conn.inTran
      <4>1. /\ conn' = [conn EXCEPT !.direct = @ \cup {<<t, directs[t] + 1>>}]
            /\ UNCHANGED <<log, direct, dead>>
        BY <1>7, <3>2 DEF DirectExecute
      <4>2. conn'.inTran /\ conn' \in [inTran : BOOLEAN, log : Seq(Writes),
                                       direct : SUBSET Writes, tran : SUBSET Writes]
        BY <3>1, <3>2, <4>1 DEF DbTypes
      <4>. QED BY <4>1, <4>2 DEF DbTypes
    <3>3. CASE ~conn.inTran
      <4>1. direct' = direct \cup {<<t, directs[t] + 1>>} /\ UNCHANGED <<log, conn, dead>>
        BY <1>7, <3>3 DEF DirectExecute
      <4>. QED BY <3>1, <4>1 DEF DbTypes
    <3>. QED BY <3>2, <3>3
  <2>3. CountTypes'
    <3>1. <<t, directs[t] + 1>> \in Writes /\ conn.tran \subseteq Writes
      BY DEF CountTypes, DbTypes, Writes
    <3>2. fell' \subseteq Writes \X SUBSET Writes
      BY <1>7, <3>1 DEF DirectExecute, CountTypes
    <3>. QED BY <1>7, <3>2 DEF DirectExecute, CountTypes
  <2>. QED BY <2>1, <2>2, <2>3
<1>8. ASSUME NEW t \in Threads, Update(t) PROVE TypeOK'
  <2>1. ClientTypes' /\ WorkerTypes' /\ DbTypes' /\ OpenCounted'
    BY <1>8 DEF Update, ClientTypes, WorkerTypes, DbTypes, OpenCounted,
      clientVars, workerVars, dbVars, countVars, fateVars
  <2>2. QueueTypes'
    BY <1>8 DEF Update, QueueTypes, clientVars, workerVars, dbVars, countVars, fateVars
  <2>3. CountTypes'
    <3>1. Head(results[t]) \in Nat
      BY <1>8, HeadTail DEF Update, QueueTypes
    <3>. QED BY <1>8, <3>1 DEF Update, CountTypes, fateVars
  <2>. QED BY <2>1, <2>2, <2>3
<1>9. ASSUME NEW t \in Threads, ExecuteSync(t) PROVE TypeOK'
  <2>1. ClientTypes' /\ QueueTypes' /\ WorkerTypes'
    BY <1>9 DEF ExecuteSync, ClientTypes, QueueTypes, WorkerTypes, clientVars,
      workerVars, dbVars, countVars, fateVars
  <2>2. DbTypes'
    <3>1. <<t, issued[t] + 1>> \in Writes
      BY DEF CountTypes, Writes
    <3>. QED BY <1>9, <3>1, PerformTypes DEF ExecuteSync
  <2>3. CountTypes'
    BY <1>9 DEF ExecuteSync, CountTypes, clientVars, workerVars, dbVars, countVars, fateVars
  <2>4. OpenCounted'
    <3>1. \A u \in Threads : issued'[u] \in {issued[u], issued[u] + 1}
      BY <1>9 DEF ExecuteSync, CountTypes
    <3>2. UNCHANGED tran
      BY <1>9 DEF ExecuteSync, clientVars
    <3>3. \A u \in Threads : tran[u].body \in Seq(Nat) /\ issued[u] \in Nat
      BY DEF ClientTypes, CountTypes
    <3>. QED BY <3>1, <3>2, <3>3 DEF OpenCounted
  <2>. QED BY <2>1, <2>2, <2>3, <2>4
<1>10. CASE WorkerLoop
  <2>1. ClientTypes' /\ QueueTypes' /\ DbTypes' /\ CountTypes' /\ OpenCounted'
    BY <1>10 DEF WorkerLoop, ClientTypes, QueueTypes, DbTypes, CountTypes,
      OpenCounted, clientVars, workerVars, dbVars, countVars, fateVars
  <2>2. WorkerTypes'
    BY <1>10 DEF WorkerLoop, WorkerTypes, clientVars, workerVars, dbVars, countVars, fateVars
  <2>. QED BY <2>1, <2>2
<1>11. CASE WorkerDequeue
  <2>1. ClientTypes' /\ DbTypes' /\ CountTypes' /\ OpenCounted'
    BY <1>11 DEF WorkerDequeue, ClientTypes, DbTypes, CountTypes, OpenCounted,
      clientVars, workerVars, dbVars, countVars, fateVars
  <2>2. WorkerTypes'
    BY <1>11 DEF WorkerDequeue, WorkerTypes, clientVars, workerVars, dbVars,
      countVars, fateVars, QueueTypes
  <2>3. QueueTypes'
    <3>1. UNCHANGED <<results, activated, running, halt>>
      BY <1>11 DEF WorkerDequeue
    <3>2. sqlQueue' = sqlQueue \/ (sqlQueue # <<>> /\ sqlQueue' = Tail(sqlQueue))
      BY <1>11 DEF WorkerDequeue
    <3>3. sqlQueue' \in Seq(Task)
      BY <3>2, HeadTail DEF QueueTypes
    <3>. QED BY <3>1, <3>3 DEF QueueTypes
  <2>. QED BY <2>1, <2>2, <2>3
<1>12. CASE StatementExecute
  <2>1. ClientTypes' /\ QueueTypes' /\ CountTypes' /\ OpenCounted'
    BY <1>12 DEF StatementExecute, ClientTypes, QueueTypes, CountTypes,
      OpenCounted, clientVars, workerVars, dbVars, countVars, fateVars
  <2>2. WorkerTypes'
    BY <1>12 DEF StatementExecute, WorkerTypes, clientVars, workerVars, dbVars,
      countVars, fateVars, FinishJob
  <2>3. DbTypes'
    <3>1. <<job.by, Head(job.body)>> \in Writes
      BY <1>12, TaskProgress DEF StatementExecute, WorkerTypes
    <3>. QED BY <1>12, <3>1, PerformTypes DEF StatementExecute
  <2>. QED BY <2>1, <2>2, <2>3
<1>13. CASE TransactionStart
  <2>1. ClientTypes' /\ QueueTypes' /\ OpenCounted'
    BY <1>13 DEF TransactionStart, ClientTypes, QueueTypes, OpenCounted, clientVars,
      countVars
  <2>2. WorkerTypes'
    BY <1>13 DEF TransactionStart, WorkerTypes, FinishJob
  <2>3. WritesIn(job) \subseteq Writes
    BY <1>13, TaskWrites DEF TransactionStart, WorkerTypes
  <2>4. CountTypes'
    <3>1. UNCHANGED fell /\ exposed' \subseteq exposed \cup {WritesIn(job)}
      BY <1>13 DEF TransactionStart
    <3>2. exposed' \subseteq SUBSET Writes
      BY <2>3, <3>1 DEF CountTypes
    <3>. QED BY <1>13, <3>1, <3>2 DEF TransactionStart, CountTypes, countVars
  <2>5. DbTypes'
    <3>1. CASE UNCHANGED <<conn, log, direct>>
      BY <1>13, <3>1 DEF TransactionStart, DbTypes
    <3>2. CASE /\ conn' = [NoServerTran EXCEPT !.inTran = TRUE, !.tran = WritesIn(job)]
               /\ log' = log \o conn.log /\ direct' = direct \cup conn.direct
      <4>1. conn' \in [inTran : BOOLEAN, log : Seq(Writes), direct : SUBSET Writes,
                       tran : SUBSET Writes]
        BY <2>3, <3>2, ServerTranTypes
      <4>2. conn'.inTran
        BY <3>2 DEF NoServerTran
      <4>3. log' \in Seq(Writes) /\ direct' \subseteq Writes
        BY <3>2 DEF DbTypes
      <4>. QED BY <1>13, <4>1, <4>2, <4>3 DEF TransactionStart, DbTypes
    <3>3. CASE /\ conn.inTran /\ conn' = [conn EXCEPT !.tran = WritesIn(job)]
               /\ UNCHANGED <<log, direct>>
      <4>1. conn'.inTran /\ conn' \in [inTran : BOOLEAN, log : Seq(Writes),
                                       direct : SUBSET Writes, tran : SUBSET Writes]
        BY <2>3, <3>3 DEF DbTypes
      <4>. QED BY <1>13, <3>3, <4>1 DEF TransactionStart, DbTypes
    <3>. QED BY <1>13, <3>1, <3>2, <3>3 DEF TransactionStart
  <2>. QED BY <2>1, <2>2, <2>4, <2>5
<1>14. CASE TransactionStatement
  <2>1. ClientTypes' /\ QueueTypes' /\ CountTypes' /\ OpenCounted'
    BY <1>14 DEF TransactionStatement, ClientTypes, QueueTypes, CountTypes,
      OpenCounted, clientVars, workerVars, dbVars, countVars, fateVars
  <2>2. WorkerTypes'
    <3>1. job \in Task /\ job.kind = "trans" /\ job.body # <<>>
      BY <1>14 DEF TransactionStatement, WorkerTypes
    <3>2. job' = [job EXCEPT !.body = Tail(@)] /\ wpc' \in {"body", "abort"}
      BY <1>14 DEF TransactionStatement
    <3>3. job' \in Task /\ job'.kind = "trans"
      BY <3>1, <3>2, TaskProgress DEF Task
    <3>. QED BY <3>2, <3>3 DEF WorkerTypes
  <2>3. DbTypes'
    <3>1. <<job.by, Head(job.body)>> \in Writes
      BY <1>14, TaskProgress DEF TransactionStatement, WorkerTypes
    <3>. QED BY <1>14, <3>1, PerformTypes DEF TransactionStatement, Perform
  <2>. QED BY <2>1, <2>2, <2>3
<1>15. CASE TransactionRollback
  <2>1. ClientTypes' /\ QueueTypes' /\ OpenCounted'
    BY <1>15 DEF TransactionRollback, ClientTypes, QueueTypes, OpenCounted, clientVars,
      countVars
  <2>2. WorkerTypes'
    BY <1>15 DEF TransactionRollback, WorkerTypes, FinishJob
  <2>3. conn.tran \subseteq Writes
    BY DEF DbTypes
  <2>4. CountTypes'
    <3>1. UNCHANGED fell /\ exposed' \subseteq exposed \cup {conn.tran}
      BY <1>15 DEF TransactionRollback
    <3>2. exposed' \subseteq SUBSET Writes
      BY <2>3, <3>1 DEF CountTypes
    <3>. QED BY <1>15, <3>1, <3>2 DEF TransactionRollback, CountTypes, countVars
  <2>5. DbTypes'
    <3>1. WritesIn(job) \subseteq Writes /\ Range(conn.log) \subseteq Writes
      BY <1>15, TaskWrites, RangeOfSeq DEF TransactionRollback, WorkerTypes, DbTypes
    <3>. QED BY <1>15, <3>1, ServerTranTypes DEF TransactionRollback, DbTypes
  <2>. QED BY <2>1, <2>2, <2>4, <2>5
<1>16. CASE TransactionCommit
  <2>1. ClientTypes' /\ QueueTypes' /\ CountTypes' /\ OpenCounted'
    BY <1>16 DEF TransactionCommit, ClientTypes, QueueTypes, CountTypes,
      OpenCounted, clientVars, countVars, fateVars
  <2>2. WorkerTypes'
    BY <1>16 DEF TransactionCommit, WorkerTypes, FinishJob
  <2>3. DbTypes'
    <3>1. CASE UNCHANGED <<conn, log, direct, dead>>
      BY <3>1 DEF DbTypes
    <3>2. CASE /\ conn' = NoServerTran /\ log' = log \o conn.log
               /\ direct' = direct \cup conn.direct /\ dead' = dead
      <4>1. log' \in Seq(Writes) /\ direct' \subseteq Writes
        BY <3>2 DEF DbTypes
      <4>. QED BY <3>2, <4>1, ServerTranTypes DEF DbTypes
    <3>. QED BY <1>16, <3>1, <3>2 DEF TransactionCommit
  <2>. QED BY <2>1, <2>2, <2>3
<1>17. CASE QueryRead
  <2>1. ClientTypes' /\ QueueTypes' /\ DbTypes' /\ CountTypes' /\ OpenCounted'
    BY <1>17 DEF QueryRead, ClientTypes, QueueTypes, DbTypes, CountTypes,
      OpenCounted, clientVars, workerVars, dbVars, countVars, fateVars
  <2>2. WorkerTypes'
    <3>1. job' \in Task /\ wpc' = "call"
      BY <1>17, TaskProgress DEF QueryRead, WorkerTypes
    <3>. QED BY <3>1 DEF WorkerTypes
  <2>. QED BY <2>1, <2>2
<1>18. CASE QueryAnswer
  <2>1. ClientTypes' /\ DbTypes' /\ CountTypes' /\ OpenCounted'
    BY <1>18 DEF QueryAnswer, ClientTypes, DbTypes, CountTypes, OpenCounted,
      clientVars, workerVars, dbVars, countVars, fateVars
  <2>2. WorkerTypes'
    BY <1>18 DEF QueryAnswer, WorkerTypes, clientVars, workerVars, dbVars,
      countVars, fateVars, FinishJob
  <2>3. QueueTypes'
    <3>1. job.ticket \in Nat
      BY <1>18, TaskProgress DEF QueryAnswer, WorkerTypes
    <3>2. results' = [r \in Readers |-> IF r = job.by THEN Append(results[r], job.ticket)
                                        ELSE results[r]]
      BY <1>18 DEF QueryAnswer, QueueTypes
    <3>3. results' \in [Readers -> Seq(Nat)]
      BY <3>1, <3>2, AppendSeq DEF QueueTypes
    <3>. QED BY <1>18, <3>3 DEF QueryAnswer, QueueTypes
  <2>. QED BY <2>1, <2>2, <2>3
<1>19. CASE StopRunning
  <2>1. ClientTypes' /\ WorkerTypes' /\ DbTypes' /\ CountTypes' /\ OpenCounted'
    BY <1>19 DEF StopRunning, ClientTypes, WorkerTypes, DbTypes, CountTypes,
      OpenCounted, clientVars, workerVars, dbVars, countVars, fateVars
  <2>2. QueueTypes'
    BY <1>19 DEF StopRunning, QueueTypes, clientVars, workerVars, dbVars, countVars, fateVars
  <2>. QED BY <2>1, <2>2
<1>20. CASE Deactivate
  <2>1. ClientTypes' /\ WorkerTypes' /\ DbTypes' /\ CountTypes' /\ OpenCounted'
    BY <1>20 DEF Deactivate, ClientTypes, WorkerTypes, DbTypes, CountTypes,
      OpenCounted, clientVars, workerVars, dbVars, countVars, fateVars
  <2>2. QueueTypes'
    BY <1>20 DEF Deactivate, QueueTypes, clientVars, workerVars, dbVars, countVars, fateVars
  <2>. QED BY <2>1, <2>2
<1>21. CASE Joined
  <2>1. ClientTypes' /\ WorkerTypes' /\ DbTypes' /\ CountTypes' /\ OpenCounted'
    BY <1>21 DEF Joined, ClientTypes, WorkerTypes, DbTypes, CountTypes,
      OpenCounted, clientVars, workerVars, dbVars, countVars, fateVars
  <2>2. QueueTypes'
    BY <1>21 DEF Joined, QueueTypes, clientVars, workerVars, dbVars, countVars, fateVars
  <2>. QED BY <2>1, <2>2
<1>22. CASE Terminated
  <2>1. ClientTypes' /\ QueueTypes' /\ WorkerTypes' /\ DbTypes' /\ CountTypes' /\ OpenCounted'
    BY <1>22 DEF Terminated, ClientTypes, QueueTypes, WorkerTypes, DbTypes,
      CountTypes, OpenCounted, clientVars, workerVars, dbVars,
      countVars, fateVars, vars
  <2>. QED BY <2>1
<1>23. CASE UNCHANGED vars
  BY <1>23 DEF vars, clientVars, workerVars, dbVars, countVars, fateVars,
     ClientTypes, QueueTypes, WorkerTypes, DbTypes, CountTypes, OpenCounted
<1>. QED
  BY <1>1, <1>2, <1>3, <1>4, <1>5, <1>6, <1>7, <1>8, <1>9, <1>10, <1>11, <1>12, <1>13, <1>14, <1>15, <1>16, <1>17, <1>18, <1>19, <1>20, <1>21, <1>22, <1>23 DEF Next, Client, Worker, HaltDelayThread

\* Type correctness, for every set of threads and every capacity.
THEOREM TypeCorrect == Spec => []TypeOK
<1>1. Init => TypeOK
  BY SqlConstants DEF Init, TypeOK, ClientTypes, QueueTypes, WorkerTypes, DbTypes,
     CountTypes, OpenCounted, NoTran, NoServerTran, Writes
<1>2. TypeOK /\ [Next]_vars => TypeOK'
  BY TypeStep
<1>. QED BY <1>1, <1>2, PTL DEF Spec
=============================================================================
