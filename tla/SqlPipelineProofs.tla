------------------------- MODULE SqlPipelineProofs -------------------------
(***************************************************************************)
(* What becomes of a write, for any number of threads, any capacity of the *)
(* queue and any number of calls.                                          *)
(*                                                                         *)
(* The proofs see the database layer as a line.  A write of thread t waits *)
(* in its open transaction, then in the task t is inside Delay() with,     *)
(* then in a row of the queue, then in the task the delay thread executes  *)
(* (row 0), and is at last visible on the connection or dead.  Writes of   *)
(* one thread never overtake each other on this line, and one that left it *)
(* does not come back.                                                     *)
(***************************************************************************)
EXTENDS SqlDelayProofs

Rows == 0 .. Len(sqlQueue)
TaskAt(i) == IF i = 0 THEN job ELSE sqlQueue[i]
Row(i) == WritesIn(TaskAt(i))
InHand(t) == IF inHand[t] = <<>> THEN NoTask ELSE inHand[t][1]
Hand(t) == WritesIn(InHand(t))

\* A query stands in the line for the last write of its thread it has to see.
Marks(task) == WritesIn(task) \cup {<<task.by, task.upTo>>}
RowMarks(i) == Marks(TaskAt(i))
HandMarks(t) == Marks(InHand(t))

\* How many writes of a thread have left its open transaction.
Sent(t) == IF halt = "down" THEN issued[t] ELSE issued[t] - Len(tran[t].body)

\* In two sets of writes, those of one thread are in this order.
Below(A, B) == \A t \in Threads, m, n \in Nat : <<t, m>> \in A /\ <<t, n>> \in B => m < n

Sorted(s) == \A i, j \in DOMAIN s : i < j => s[i] < s[j]
LogSorted(s) == \A i, j \in DOMAIN s : i < j /\ s[i][1] = s[j][1] => s[i][2] < s[j][2]

\* Where the threads are.
Places ==
    /\ halt # "up" => \A t \in Threads : inHand[t] = <<>>
    /\ halt = "down" => wpc = "exit" /\ sqlQueue = <<>>
    /\ \A t \in Threads : inHand[t] # <<>> => InHand(t).by = t
    /\ \A t \in Threads : ~tran[t].open => tran[t].body = <<>>

\* Queries write nothing, and a transaction has its writes in the order of the calls.
Proper(task) == Sorted(task.body) /\ (task.kind = "query" => task.body = <<>>)
Tasks ==
    /\ \A i \in Rows : Proper(TaskAt(i))
    /\ \A t \in Threads : Proper(InHand(t))

\* An open transaction holds the last writes of its thread.
OpenLast ==
    halt # "down" =>
        \A t \in Threads : \A i \in DOMAIN tran[t].body :
            tran[t].body[i] = Sent(t) + i

Numbered(A) == \A t \in Threads, n \in Nat : <<t, n>> \in A => 1 <= n /\ n <= Sent(t)
MarksSent(A) == \A t \in Threads, n \in Nat : <<t, n>> \in A => n <= Sent(t)

\* Everything else has left it.
AllSent ==
    /\ Numbered(Visible) /\ Numbered(dead)
    /\ \A i \in Rows : Numbered(Row(i)) /\ MarksSent(RowMarks(i))
    /\ \A t \in Threads : Numbered(Hand(t)) /\ MarksSent(HandMarks(t))

\* Nobody overtakes.
InLine ==
    /\ \A i \in Rows : Below(Visible, Row(i))
    /\ \A i, j \in Rows : i < j => Below(RowMarks(i), Row(j))
    /\ \A i \in Rows, t \in Threads : Below(RowMarks(i), Hand(t))
    /\ \A t \in Threads : Below(Visible, Hand(t))

\* The connection commits in this order.
Durable ==
    /\ LogSorted(log) /\ LogSorted(conn.log)
    /\ Below(Range(log), Range(conn.log))

\* What is dead is nowhere else.
DeadApart ==
    /\ dead \cap Visible = {}
    /\ \A i \in Rows : dead \cap Row(i) = {}
    /\ \A t \in Threads : dead \cap Hand(t) = {}

\* What has left its transaction is somewhere.
Covered ==
    halt # "down" =>
        \A t \in Threads : \A n \in 1 .. Sent(t) :
            \/ <<t, n>> \in Visible \cup dead \cup Hand(t)
            \/ \E i \in Rows : <<t, n>> \in Row(i)

Line == OpenLast /\ AllSent /\ InLine /\ DeadApart /\ Covered
Pipeline == Places /\ Tasks /\ Durable /\ Line

\* A transaction is in one place, whole.  That of the delay thread is among what the
\* connection has not committed and what there is still to send, until one of its
\* statements is refused; it is open on the connection, or exposed.
Current == Range(conn.log) \cup Row(0)
Intact(tr, A) == A = tr \/ A \cap tr = {}
Whole(tr, A) == tr \subseteq A \/ tr \cap A = {}
Busy == wpc \in {"body", "abort"}
Mine(tr) == IF conn.inTran THEN tr = conn.tran ELSE tr \in exposed

Behind(tr) ==
    /\ \A i \in Rows : i # 0 => Intact(tr, Row(i))
    /\ \A t \in Threads : Intact(tr, Hand(t))

Undivided(tr) ==
    /\ tr \in exposed \/ Whole(tr, Range(log))
    /\ tr \in exposed \/ Whole(tr, Current) \/ (wpc = "abort" /\ Mine(tr))
    /\ ~Busy => Intact(tr, Row(0))
    /\ Busy => tr \cap Row(0) = {} \/ Mine(tr)

\* Even an exposed transaction is visible from its beginning, without a gap.
NoGap(tr) ==
    /\ \A v, w \in tr : v[2] < w[2] /\ w \in Visible => v \in Visible
    /\ wpc = "body" /\ tr \cap Row(0) # {} => tr \ Row(0) \subseteq Visible

OneThread(tr) == tr \subseteq Writes /\ \A v, w \in tr : v[1] = w[1]
Unbroken(tr) == Behind(tr) /\ Undivided(tr) /\ NoGap(tr)
Atomic == \A tr \in committed : Numbered(tr) /\ OneThread(tr) /\ Unbroken(tr)

\* A transaction is executed as it was committed.
Handed(trans, task) == task.kind = "trans" => WritesIn(task) \in trans
Owned ==
    /\ \A i \in DOMAIN sqlQueue : Handed(committed, sqlQueue[i])
    /\ \A t \in Threads : Handed(committed, InHand(t))
    /\ wpc = "call" => Handed(committed, job)

\* What fell into a transaction is durable, or still on the connection with it, or that
\* transaction is dead.
Held(tr) == tr \subseteq Current \cup dead
Fallen ==
    /\ conn.inTran => conn.tran \in committed /\ conn.tran # {} /\ Held(conn.tran)
    /\ \A p \in fell :
           /\ p[2] \in committed /\ p[2] # {}
           /\ \/ p[1] \in direct
              \/ p[1] \in conn.direct /\ Held(p[2])
              \/ p[2] \subseteq dead
    /\ \A t \in Threads : \A n \in 1 .. directs[t] :
           <<t, n>> \in direct \/ \E tr \in committed : <<<<t, n>>, tr>> \in fell

\* The queries stand in the same line, by their tickets.
Asks(task) == IF task.kind = "query" THEN {<<task.by, task.ticket>>} ELSE {}
AskRow(i) == Asks(TaskAt(i))
AskHand(t) == Asks(InHand(t))

\* How many queries of a reader have been answered, called back or not.
Answered(t) == called[t] + Len(results[t])

InTurn(A) == \A t \in Threads, n \in Nat :
                 <<t, n>> \in A => t \in Readers /\ Answered(t) < n /\ n <= asked[t]

Answers ==
    /\ \A t \in Readers : Answered(t) <= asked[t]
    /\ \A t \in Readers : \A i \in DOMAIN results[t] : results[t][i] = called[t] + i
    /\ \A i \in Rows : InTurn(AskRow(i))
    /\ \A t \in Threads : InTurn(AskHand(t))
    /\ \A i, j \in Rows : i < j => Below(AskRow(i), AskRow(j))
    /\ \A i \in Rows, t \in Threads : Below(AskRow(i), AskHand(t))
    /\ halt # "down" => \A t \in Readers : \A n \in Answered(t) + 1 .. asked[t] :
                            \/ <<t, n>> \in AskHand(t)
                            \/ \E i \in Rows : <<t, n>> \in AskRow(i)
-----------------------------------------------------------------------------
(* Tasks and logs.                                                         *)

\* Which writes are in a task, and what it is marked with.
LEMMA InWrites ==
    ASSUME NEW task, NEW t, NEW n
    PROVE  /\ <<t, n>> \in WritesIn(task) <=>
                  task.by = t /\ \E i \in DOMAIN task.body : task.body[i] = n
           /\ <<t, n>> \in Marks(task) <=>
                  <<t, n>> \in WritesIn(task) \/ (task.by = t /\ task.upTo = n)
  BY DEF WritesIn, Marks

\* A thread without a task has nothing in the line.
LEMMA NoTaskEmpty ==
    /\ WritesIn(NoTask) = {} /\ Proper(NoTask)
    /\ \A t \in Threads, n \in Nat : <<t, n>> \notin Marks(NoTask)
<1>1. NoTask.body = <<>> /\ NoTask.by = NoThread /\ NoTask.kind = "none"
  BY DEF NoTask, SqlAsyncTask
<1>2. WritesIn(NoTask) = {}
  BY <1>1 DEF WritesIn
<1>3. Proper(NoTask)
  BY <1>1 DEF Proper, Sorted
<1>4. NoThread \notin Threads
  BY SqlConstants
<1>. QED BY <1>1, <1>2, <1>3, <1>4, InWrites

\* Every place of the line holds writes.
LEMMA PlaceTypes ==
    ASSUME TypeOK
    PROVE  /\ Visible \subseteq Writes /\ dead \subseteq Writes
           /\ Range(log) \subseteq Writes /\ Range(conn.log) \subseteq Writes
           /\ Len(sqlQueue) \in Nat
           /\ \A i \in Rows : /\ TaskAt(i) \in Task \cup {NoTask}
                              /\ Row(i) \subseteq Writes /\ Row(i) \subseteq RowMarks(i)
           /\ \A t \in Threads : /\ InHand(t) \in Task \cup {NoTask}
                                 /\ Hand(t) \subseteq Writes /\ Hand(t) \subseteq HandMarks(t)
<1>1. log \in Seq(Writes) /\ conn.log \in Seq(Writes) /\ dead \subseteq Writes
  BY DEF TypeOK, DbTypes
<1>2. Range(log) \subseteq Writes /\ Range(conn.log) \subseteq Writes
  BY <1>1, RangeOfSeq
<1>3. \A task \in Task \cup {NoTask} : WritesIn(task) \subseteq Writes
  BY TaskWrites, NoTaskEmpty
<1>4. \A task : WritesIn(task) \subseteq Marks(task)
  BY DEF Marks
<1>5. sqlQueue \in Seq(Task) /\ Len(sqlQueue) \in Nat
  BY DEF TypeOK, QueueTypes
<1>6. ASSUME NEW i \in Rows PROVE TaskAt(i) \in Task \cup {NoTask}
  <2>1. job \in Task \cup {NoTask}
    BY DEF TypeOK, WorkerTypes
  <2>2. CASE i # 0
    <3>1. i \in 1 .. Len(sqlQueue)
      BY <1>5, <2>2 DEF Rows
    <3>. QED BY <1>5, <2>2, <3>1 DEF TaskAt
  <2>. QED BY <2>1, <2>2 DEF TaskAt
<1>7. ASSUME NEW t \in Threads PROVE InHand(t) \in Task \cup {NoTask}
  <2>1. inHand[t] \in Seq(Task)
    BY DEF TypeOK, ClientTypes
  <2>2. inHand[t] # <<>> => inHand[t][1] \in Task
    BY <2>1
  <2>. QED BY <2>2 DEF InHand
<1>. QED BY <1>1, <1>2, <1>3, <1>4, <1>5, <1>6, <1>7
         DEF Visible, Row, RowMarks, Hand, HandMarks

\* A write is the n-th one of a thread.
LEMMA WritePair == ASSUME NEW w \in Writes PROVE \E t \in Threads, n \in Nat : w = <<t, n>>
  BY DEF Writes

\* Places that are in this order have no write in common.
LEMMA BelowApart ==
    ASSUME NEW A, NEW B, Below(A, B), A \subseteq Writes
    PROVE  A \cap B = {}
<1>. SUFFICES ASSUME NEW w \in A, w \in B PROVE FALSE
  OBVIOUS
<1>1. PICK t \in Threads, n \in Nat : w = <<t, n>>
  BY DEF Writes
<1>. QED BY <1>1 DEF Below

\* Appending to a log.
LEMMA AppendRange ==
    ASSUME NEW S, NEW s \in Seq(S), NEW e \in S
    PROVE  Range(Append(s, e)) = Range(s) \cup {e}
<1>. DEFINE r == Append(s, e)
<1>1. /\ Len(s) \in Nat /\ DOMAIN s = 1 .. Len(s) /\ DOMAIN r = 1 .. Len(s) + 1
      /\ r[Len(s) + 1] = e /\ \A i \in 1 .. Len(s) : r[i] = s[i]
  OBVIOUS
<1>. HIDE DEF r
<1>2. Range(r) = Range(s) \cup {e}
  BY <1>1 DEF Range
<1>. QED BY <1>2 DEF r

\* Appending a write, and appending the writes of a transaction.
LEMMA AppendLog ==
    ASSUME NEW s \in Seq(Writes), NEW w \in Writes, LogSorted(s), Below(Range(s), {w})
    PROVE  /\ Range(Append(s, w)) = Range(s) \cup {w} /\ LogSorted(Append(s, w))
<1>. DEFINE r == Append(s, w)
<1>1. /\ Len(s) \in Nat /\ DOMAIN s = 1 .. Len(s) /\ DOMAIN r = 1 .. Len(s) + 1
      /\ r[Len(s) + 1] = w /\ \A i \in 1 .. Len(s) : r[i] = s[i] /\ s[i] \in Writes
  OBVIOUS
<1>. HIDE DEF r
<1>2. Range(r) = Range(s) \cup {w}
  BY AppendRange DEF r
<1>3. ASSUME NEW i \in 1 .. Len(s), s[i][1] = w[1] PROVE s[i][2] < w[2]
  <2>1. s[i] \in Writes /\ s[i] \in Range(s)
    BY <1>1 DEF Range
  <2>2. PICK t \in Threads, m \in Nat : s[i] = <<t, m>>
    BY <2>1 DEF Writes
  <2>3. PICK u \in Threads, n \in Nat : w = <<u, n>>
    BY DEF Writes
  <2>4. u = t
    BY <1>3, <2>2, <2>3
  <2>5. <<t, m>> \in Range(s) /\ <<t, n>> \in {w}
    BY <2>1, <2>2, <2>3, <2>4
  <2>6. m < n
    BY <2>5 DEF Below
  <2>. QED BY <2>2, <2>3, <2>6
<1>4. LogSorted(r)
  <2>. SUFFICES ASSUME NEW i \in DOMAIN r, NEW j \in DOMAIN r, i < j, r[i][1] = r[j][1]
                PROVE  r[i][2] < r[j][2]
    BY DEF LogSorted
  <2>1. i \in 1 .. Len(s)
    BY <1>1
  <2>2. CASE j \in 1 .. Len(s)
    BY <1>1, <2>1, <2>2 DEF LogSorted
  <2>3. CASE j = Len(s) + 1
    BY <1>1, <1>3, <2>1, <2>3
  <2>. QED BY <1>1, <2>2, <2>3
<1>. QED BY <1>2, <1>4 DEF r

LEMMA ConcatLog ==
    ASSUME NEW a \in Seq(Writes), NEW b \in Seq(Writes), LogSorted(a), LogSorted(b),
           Below(Range(a), Range(b))
    PROVE  Range(a \o b) = Range(a) \cup Range(b) /\ LogSorted(a \o b)
<1>. DEFINE r == a \o b
<1>1. /\ Len(a) \in Nat /\ Len(b) \in Nat
      /\ DOMAIN a = 1 .. Len(a) /\ DOMAIN b = 1 .. Len(b)
      /\ DOMAIN r = 1 .. Len(a) + Len(b)
      /\ \A i \in 1 .. Len(a) : r[i] = a[i] /\ a[i] \in Writes
      /\ \A i \in 1 .. Len(b) : r[Len(a) + i] = b[i] /\ b[i] \in Writes
  OBVIOUS
<1>. HIDE DEF r
<1>2. \A i \in DOMAIN r : i \notin 1 .. Len(a) => i - Len(a) \in 1 .. Len(b)
                                                  /\ r[i] = b[i - Len(a)]
  <2>. TAKE i \in DOMAIN r
  <2>. HAVE i \notin 1 .. Len(a)
  <2>1. i - Len(a) \in 1 .. Len(b) /\ Len(a) + (i - Len(a)) = i
    BY <1>1
  <2>. QED BY <1>1, <2>1
<1>3. Range(r) = Range(a) \cup Range(b)
  <2>1. Range(r) \subseteq Range(a) \cup Range(b)
    BY <1>1, <1>2 DEF Range
  <2>2. Range(a) \subseteq Range(r)
    BY <1>1 DEF Range
  <2>3. Range(b) \subseteq Range(r)
    <3>1. \A i \in 1 .. Len(b) : Len(a) + i \in DOMAIN r
      BY <1>1
    <3>. QED BY <1>1, <3>1 DEF Range
  <2>. QED BY <2>1, <2>2, <2>3
<1>4. ASSUME NEW i \in 1 .. Len(a), NEW j \in 1 .. Len(b), a[i][1] = b[j][1]
      PROVE  a[i][2] < b[j][2]
  <2>1. PICK t \in Threads, m \in Nat : a[i] = <<t, m>>
    BY <1>1 DEF Writes
  <2>2. b[j] \in Writes
    OBVIOUS
  <2>3. PICK u \in Threads, n \in Nat : b[j] = <<u, n>>
    BY <2>2, WritePair
  <2>4. a[i] \in Range(a) /\ b[j] \in Range(b)
    BY <1>1 DEF Range
  <2>5. u = t
    BY <1>4, <2>1, <2>3
  <2>6. <<t, m>> \in Range(a) /\ <<t, n>> \in Range(b)
    BY <2>1, <2>3, <2>4, <2>5
  <2>7. m < n
    BY <2>6 DEF Below
  <2>. QED BY <2>1, <2>3, <2>7
<1>5. LogSorted(r)
  <2>. SUFFICES ASSUME NEW i \in DOMAIN r, NEW j \in DOMAIN r, i < j, r[i][1] = r[j][1]
                PROVE  r[i][2] < r[j][2]
    BY DEF LogSorted
  <2>1. CASE i \in 1 .. Len(a) /\ j \in 1 .. Len(a)
    BY <1>1, <2>1 DEF LogSorted
  <2>2. CASE i \in 1 .. Len(a) /\ j \notin 1 .. Len(a)
    BY <1>1, <1>2, <1>4, <2>2
  <2>3. CASE i \notin 1 .. Len(a)
    <3>1. j \notin 1 .. Len(a)
      BY <1>1, <2>3
    <3>2. i - Len(a) < j - Len(a)
      BY <1>1
    <3>. QED BY <1>1, <1>2, <2>3, <3>1, <3>2 DEF LogSorted
  <2>. QED BY <2>1, <2>2, <2>3
<1>. QED BY <1>3, <1>5 DEF r

\* The first write of a transaction is sent.
LEMMA FirstWrite ==
    ASSUME NEW task \in Task, task.body # <<>>, Sorted(task.body)
    PROVE  LET w == <<task.by, Head(task.body)>>
               rest == [task EXCEPT !.body = Tail(@)]
           IN  /\ w \in Writes /\ WritesIn(task) = WritesIn(rest) \cup {w}
               /\ Below({w}, WritesIn(rest)) /\ Sorted(rest.body)
               /\ \A t \in Threads, n \in Nat :
                      <<t, n>> \in Marks(rest) => <<t, n>> \in Marks(task)
               /\ rest.by = task.by /\ rest.kind = task.kind /\ rest.body = Tail(task.body)
<1>. DEFINE b == task.body
            r == Tail(b)
            w == <<task.by, Head(b)>>
            rest == [task EXCEPT !.body = Tail(@)]
<1>1. task.by \in Threads /\ b \in Seq(Nat)
  BY DEF Task
<1>2. task \in [kind : {"write", "trans", "query"}, by : Threads, body : Seq(Nat),
                reads : Nat, ticket : Nat, upTo : Nat]
  BY DEF Task
<1>3. /\ rest.by = task.by /\ rest.kind = task.kind /\ rest.body = r
      /\ rest.upTo = task.upTo
  BY <1>2
<1>4. /\ Len(b) \in Nat /\ Len(b) >= 1 /\ DOMAIN b = 1 .. Len(b) /\ Head(b) = b[1]
      /\ DOMAIN r = 1 .. Len(b) - 1 /\ \A i \in 1 .. Len(b) - 1 : r[i] = b[i + 1]
      /\ \A i \in 1 .. Len(b) : b[i] \in Nat
  BY <1>1
<1>. HIDE DEF b, r, rest
<1>5. \A i, j \in DOMAIN b : i < j => b[i] < b[j]
  BY DEF Sorted, b
<1>6. \A i \in DOMAIN r : i + 1 \in DOMAIN b /\ r[i] = b[i + 1] /\ b[1] < r[i]
  BY <1>4, <1>5
<1>7. \A i \in DOMAIN b : i # 1 => i - 1 \in DOMAIN r /\ r[i - 1] = b[i]
  BY <1>4
<1>8. Sorted(r)
  <2>. SUFFICES ASSUME NEW i \in DOMAIN r, NEW j \in DOMAIN r, i < j PROVE r[i] < r[j]
    BY DEF Sorted
  <2>1. i + 1 < j + 1
    BY <1>4
  <2>. QED BY <1>5, <1>6, <2>1
<1>9. WritesIn(task) = {<<task.by, b[i]>> : i \in DOMAIN b}
      /\ WritesIn(rest) = {<<task.by, r[i]>> : i \in DOMAIN r}
  BY <1>3 DEF WritesIn, b
<1>10. 1 \in DOMAIN b /\ w = <<task.by, b[1]>>
  BY <1>4
<1>11. WritesIn(rest) \subseteq WritesIn(task)
  BY <1>6, <1>9
<1>12. WritesIn(task) \subseteq WritesIn(rest) \cup {w}
  BY <1>7, <1>9, <1>10
<1>13. w \in WritesIn(task) /\ w \in Writes
  BY <1>1, <1>4, <1>9, <1>10 DEF Writes
<1>14. Below({w}, WritesIn(rest))
  BY <1>6, <1>9, <1>10 DEF Below
<1>15. \A t \in Threads, n \in Nat : <<t, n>> \in Marks(rest) => <<t, n>> \in Marks(task)
  BY <1>3, <1>11 DEF Marks
<1>. QED BY <1>3, <1>8, <1>11, <1>12, <1>13, <1>14, <1>15 DEF b, r, rest
\* A thread has issued what it has sent and what is in its transaction.
SentTypes == \A t \in Threads : /\ Sent(t) \in Nat /\ Sent(t) <= issued[t]
                                /\ issued[t] \in Nat /\ Len(tran[t].body) \in Nat

LEMMA SentNat == TypeOK => SentTypes
<1>. SUFFICES ASSUME TypeOK, NEW t \in Threads
              PROVE  /\ Sent(t) \in Nat /\ Sent(t) <= issued[t]
                     /\ issued[t] \in Nat /\ Len(tran[t].body) \in Nat
  BY DEF SentTypes
<1>1. tran[t].body \in Seq(Nat) /\ issued[t] \in Nat
  BY DEF TypeOK, ClientTypes, CountTypes
<1>2. Len(tran[t].body) \in Nat /\ Len(tran[t].body) <= issued[t]
  BY <1>1 DEF TypeOK, OpenCounted
<1>. QED BY <1>1, <1>2 DEF Sent

\* The same after a step.
LEMMA SentNatNext == TypeOK' => SentTypes'
  BY SentNat, PTL

-----------------------------------------------------------------------------
(* How the line moves.                                                     *)

\* The delay thread moves writes from its task to the connection, or gives up some of
\* them; the rest of the line stands still.
LEMMA WorkerAdvances ==
    ASSUME TypeOK, Line,
           UNCHANGED <<tran, inHand, sqlQueue, issued>>,
           halt' = "down" <=> halt = "down",
           Row(0)' \subseteq Row(0),
           \A t \in Threads, n \in Nat : <<t, n>> \in RowMarks(0)' => <<t, n>> \in RowMarks(0),
           Visible' \subseteq Visible \cup Row(0),
           dead' \subseteq dead \cup Visible \cup Row(0),
           Visible \cup dead \cup Row(0) \subseteq Visible' \cup dead' \cup Row(0)',
           Below(Visible', Row(0)'), dead' \cap Visible' = {}, dead' \cap Row(0)' = {}
    PROVE  Line'
<1>1. /\ \A t \in Threads : Sent(t)' = Sent(t) /\ Hand(t)' = Hand(t)
                            /\ HandMarks(t)' = HandMarks(t)
      /\ Rows' = Rows
  BY DEF Sent, InHand, Hand, HandMarks, Rows
<1>2. \A i \in Rows : i # 0 => Row(i)' = Row(i) /\ RowMarks(i)' = RowMarks(i)
  BY DEF TaskAt, Row, RowMarks
<1>3. /\ 0 \in Rows /\ Len(sqlQueue) \in Nat /\ \A i \in Rows : i # 0 => 0 < i
      /\ \A i \in Rows : Row(i) \subseteq Writes /\ Row(i) \subseteq RowMarks(i)
      /\ Visible \subseteq Writes
  BY PlaceTypes DEF Rows
<1>4. OpenLast'
  BY <1>1 DEF Line, OpenLast
<1>5. AllSent'
  <2>1. Numbered(Visible) /\ Numbered(dead) /\ Numbered(Row(0)) /\ MarksSent(RowMarks(0))
    BY <1>3 DEF Line, AllSent
  <2>2. Numbered(Visible)' /\ Numbered(dead)' /\ Numbered(Row(0))' /\ MarksSent(RowMarks(0))'
    BY <1>1, <2>1 DEF Numbered, MarksSent
  <2>3. ASSUME NEW i \in Rows PROVE Numbered(Row(i))' /\ MarksSent(RowMarks(i))'
    <3>1. CASE i = 0
      BY <2>2, <3>1
    <3>2. CASE i # 0
      BY <1>1, <1>2, <3>2 DEF Line, AllSent, Numbered, MarksSent
    <3>. QED BY <3>1, <3>2
  <2>4. \A t \in Threads : Numbered(Hand(t))' /\ MarksSent(HandMarks(t))'
    BY <1>1 DEF Line, AllSent, Numbered, MarksSent
  <2>. QED BY <1>1, <2>2, <2>3, <2>4 DEF AllSent
<1>6. \A i \in Rows : i # 0 => Below(Visible, Row(i)) /\ Below(RowMarks(0), Row(i))
                               /\ Below(Row(0), Row(i))
  BY <1>3 DEF Line, InLine, Below
<1>7. \A t \in Threads : Below(Visible, Hand(t)) /\ Below(RowMarks(0), Hand(t))
                         /\ Below(Row(0), Hand(t))
  BY <1>3 DEF Line, InLine, Below
<1>8. InLine'
  <2>1. ASSUME NEW i \in Rows PROVE Below(Visible, Row(i))'
    <3>1. CASE i = 0
      BY <3>1
    <3>2. CASE i # 0
      BY <1>2, <1>6, <3>2 DEF Below
    <3>. QED BY <3>1, <3>2
  <2>2. ASSUME NEW i \in Rows, NEW j \in Rows, i < j PROVE Below(RowMarks(i), Row(j))'
    <3>1. j # 0 /\ Row(j)' = Row(j)
      BY <1>2, <1>3, <2>2 DEF Rows
    <3>2. CASE i = 0
      BY <1>6, <3>1, <3>2 DEF Below
    <3>3. CASE i # 0
      BY <1>2, <2>2, <3>1, <3>3 DEF Line, InLine, Below
    <3>. QED BY <3>2, <3>3
  <2>3. ASSUME NEW i \in Rows, NEW t \in Threads PROVE Below(RowMarks(i), Hand(t))'
    <3>1. CASE i = 0
      BY <1>1, <1>7, <3>1 DEF Below
    <3>2. CASE i # 0
      BY <1>1, <1>2, <3>2 DEF Line, InLine
    <3>. QED BY <3>1, <3>2
  <2>4. ASSUME NEW t \in Threads PROVE Below(Visible, Hand(t))'
    BY <1>1, <1>7 DEF Below
  <2>. QED BY <1>1, <2>1, <2>2, <2>3, <2>4 DEF InLine
<1>9. DeadApart'
  <2>1. ASSUME NEW i \in Rows PROVE dead' \cap Row(i)' = {}
    <3>1. CASE i = 0
      BY <3>1
    <3>2. CASE i # 0
      <4>1. Visible \cap Row(i) = {} /\ Row(0) \cap Row(i) = {} /\ dead \cap Row(i) = {}
        BY <1>3, <1>6, <3>2, BelowApart DEF Line, DeadApart
      <4>. QED BY <1>2, <3>2, <4>1
    <3>. QED BY <3>1, <3>2
  <2>2. ASSUME NEW t \in Threads PROVE dead' \cap Hand(t)' = {}
    <3>1. Visible \cap Hand(t) = {} /\ Row(0) \cap Hand(t) = {} /\ dead \cap Hand(t) = {}
      BY <1>3, <1>7, BelowApart DEF Line, DeadApart
    <3>. QED BY <1>1, <3>1
  <2>. QED BY <1>1, <2>1, <2>2 DEF DeadApart
<1>10. Covered'
  <2>. SUFFICES ASSUME halt # "down", NEW t \in Threads, NEW n \in 1 .. Sent(t)
                PROVE  \/ <<t, n>> \in Visible' \cup dead' \cup Hand(t)'
                       \/ \E i \in Rows : <<t, n>> \in Row(i)'
    BY <1>1 DEF Covered
  <2>1. \/ <<t, n>> \in Visible \cup dead \cup Hand(t)
        \/ \E i \in Rows : <<t, n>> \in Row(i)
    BY DEF Line, Covered
  <2>. QED BY <1>1, <1>2, <1>3, <2>1
<1>. QED BY <1>4, <1>5, <1>8, <1>9, <1>10 DEF Line

\* Steps that leave the writes where they are.
LEMMA LineSeen ==
    ASSUME TypeOK, Line, UNCHANGED <<tran, inHand, sqlQueue, issued, dead>>,
           halt' = "down" <=> halt = "down",
           Visible' = Visible, Row(0)' = Row(0),
           \A t \in Threads, n \in Nat : <<t, n>> \in RowMarks(0)' => <<t, n>> \in RowMarks(0)
    PROVE  Line'
<1>1. 0 \in Rows
  BY PlaceTypes DEF Rows
<1>2. Below(Visible', Row(0)') /\ dead' \cap Visible' = {} /\ dead' \cap Row(0)' = {}
  BY <1>1 DEF Line, InLine, DeadApart, Below
<1>. QED BY <1>1, <1>2, WorkerAdvances

LEMMA LineStill ==
    ASSUME TypeOK, Line, UNCHANGED <<tran, inHand, sqlQueue, issued, dead, log>>,
           halt' = "down" <=> halt = "down",
           conn'.log = conn.log, Row(0)' = Row(0),
           \A t \in Threads, n \in Nat : <<t, n>> \in RowMarks(0)' => <<t, n>> \in RowMarks(0)
    PROVE  Line'
<1>1. Visible' = Visible
  BY DEF Visible
<1>. QED BY <1>1, LineSeen

\* Outside a server transaction the connection holds nothing.
LEMMA Closed ==
    ASSUME TypeOK, ~conn.inTran
    PROVE  conn.log = <<>> /\ Range(conn.log) = {} /\ conn.direct = {}
<1>1. conn.log = <<>> /\ conn.direct = {}
  BY DEF TypeOK, DbTypes, NoServerTran
<1>. QED BY <1>1 DEF Range

\* The server obeys a write that comes after all of its thread.
LEMMA ObeyedDurable ==
    ASSUME TypeOK, Durable, NEW w \in Writes, Below(Visible, {w}), Obeyed(w)
    PROVE  /\ Visible' = Visible \cup {w} /\ Durable' /\ dead' = dead
           /\ conn'.inTran = conn.inTran /\ conn'.tran = conn.tran
           /\ conn'.direct = conn.direct
           /\ Range(log') = Range(log) \cup (IF conn.inTran THEN {} ELSE {w})
           /\ Range(conn'.log) = Range(conn.log) \cup (IF conn.inTran THEN {w} ELSE {})
<1>1. log \in Seq(Writes) /\ conn.log \in Seq(Writes)
      /\ conn \in [inTran : BOOLEAN, log : Seq(Writes), direct : SUBSET Writes,
                   tran : SUBSET Writes]
  BY DEF TypeOK, DbTypes
<1>2. /\ LogSorted(log) /\ LogSorted(conn.log) /\ Below(Range(log), Range(conn.log))
      /\ Below(Range(log), {w}) /\ Below(Range(conn.log), {w})
  BY DEF Durable, Visible, Below
<1>3. CASE conn.inTran
  <2>1. conn' = [conn EXCEPT !.log = Append(@, w)] /\ UNCHANGED <<log, dead>>
    BY <1>3 DEF Obeyed
  <2>2. conn'.log = Append(conn.log, w) /\ conn'.inTran = conn.inTran
        /\ conn'.tran = conn.tran /\ conn'.direct = conn.direct
    BY <1>1, <2>1
  <2>3. Range(conn'.log) = Range(conn.log) \cup {w} /\ LogSorted(conn'.log)
    BY <1>1, <1>2, <2>2, AppendLog
  <2>4. Below(Range(log), Range(conn.log) \cup {w})
    BY <1>2 DEF Below
  <2>. QED BY <1>2, <1>3, <2>1, <2>2, <2>3, <2>4 DEF Visible, Durable
<1>4. CASE ~conn.inTran
  <2>1. conn' = conn /\ log' = Append(log, w) /\ dead' = dead
    BY <1>4 DEF Obeyed
  <2>2. Range(conn.log) = {}
    BY <1>4, Closed
  <2>3. Range(log') = Range(log) \cup {w} /\ LogSorted(log')
    BY <1>1, <1>2, <2>1, AppendLog
  <2>4. Below(Range(log'), {})
    BY DEF Below
  <2>. QED BY <1>2, <1>4, <2>1, <2>2, <2>3, <2>4 DEF Visible, Durable
<1>. QED BY <1>3, <1>4

\* The server commits: nothing moves but into the log.
LEMMA Committed ==
    ASSUME TypeOK, Durable, log' = log \o conn.log, conn'.log = <<>>
    PROVE  Visible' = Visible /\ Durable' /\ Range(log') = Visible /\ Range(conn'.log) = {}
<1>1. Range(conn'.log) = {} /\ LogSorted(conn'.log)
  BY DEF Range, LogSorted
<1>2. Range(log') = Visible /\ LogSorted(log')
  BY ConcatLog DEF TypeOK, DbTypes, Durable, Visible
<1>3. Below(Range(log'), {})
  BY DEF Below
<1>. QED BY <1>1, <1>2, <1>3 DEF Visible, Durable

\* A thread hands a task over: it stands behind everything its thread has sent.
LEMMA HandOver ==
    ASSUME TypeOK, TypeOK', Line, NEW t \in Threads, inHand[t] = <<>>,
           NEW task \in Task, task.by = t, inHand' = [inHand EXCEPT ![t] = <<task>>],
           UNCHANGED <<sqlQueue, job, dead, log, conn, halt>>, halt = "up",
           \A u \in Threads : u # t => Sent(u)' = Sent(u) /\ tran'[u] = tran[u],
           \A n \in Nat : <<t, n>> \in WritesIn(task) <=> Sent(t) < n /\ n <= Sent(t)',
           Sent(t) <= Sent(t)',
           task.upTo <= Sent(t)',
           \A i \in DOMAIN tran'[t].body : tran'[t].body[i] = Sent(t)' + i
    PROVE  Line'
<1>1. /\ Visible' = Visible /\ Rows' = Rows
      /\ \A i \in Rows : Row(i)' = Row(i) /\ RowMarks(i)' = RowMarks(i)
  BY DEF Visible, Rows, TaskAt, Row, RowMarks
<1>0. InHand(t)' = task /\ Hand(t)' = WritesIn(task) /\ HandMarks(t)' = Marks(task)
  <2>1. InHand(t)' = task
    BY DEF TypeOK, ClientTypes, InHand
  <2>2. Hand(t)' = WritesIn(InHand(t)') /\ HandMarks(t)' = Marks(InHand(t)')
    BY DEF Hand, HandMarks, WritesIn, Marks
  <2>. QED BY <2>1, <2>2
<1>2. \A u \in Threads : u # t => Hand(u)' = Hand(u) /\ HandMarks(u)' = HandMarks(u)
  BY DEF TypeOK, ClientTypes, InHand, Hand, HandMarks
<1>3. Hand(t) = {}
  BY NoTaskEmpty DEF Hand, InHand
<1>4. \A u \in Threads : Sent(u) \in Int /\ Sent(u)' \in Int /\ Sent(u) <= Sent(u)'
  <2>1. \A u \in Threads : Sent(u) \in Nat
    BY SentNat DEF SentTypes
  <2>2. \A u \in Threads : Sent(u)' \in Nat
    BY SentNatNext DEF SentTypes
  <2>. QED BY <2>1, <2>2
<1>5. \A u \in Threads, n \in Nat : u # t => <<u, n>> \notin Hand(t)' /\ <<u, n>> \notin HandMarks(t)'
  BY <1>0, InWrites
<1>6. \A n \in Nat : <<t, n>> \in HandMarks(t)' => n <= Sent(t)'
  BY <1>0, <1>4, InWrites
<1>7. OpenLast'
  BY DEF Line, OpenLast
<1>8. AllSent'
  <2>1. Numbered(Visible)' /\ Numbered(dead)'
    BY <1>1, <1>4 DEF Line, AllSent, Numbered
  <2>2. ASSUME NEW i \in Rows PROVE Numbered(Row(i))' /\ MarksSent(RowMarks(i))'
    BY <1>1, <1>4 DEF Line, AllSent, Numbered, MarksSent
  <2>3. ASSUME NEW u \in Threads, u # t PROVE Numbered(Hand(u))' /\ MarksSent(HandMarks(u))'
    BY <1>2, <1>4, <2>3 DEF Line, AllSent, Numbered, MarksSent
  <2>4. Numbered(Hand(t))' /\ MarksSent(HandMarks(t))'
    <3>1. 0 <= Sent(t)
      BY SentNat DEF SentTypes
    <3>. QED BY <1>0, <1>4, <1>5, <1>6, <3>1 DEF Numbered, MarksSent
  <2>. QED BY <1>1, <2>1, <2>2, <2>3, <2>4 DEF AllSent
<1>9. Numbered(Visible) /\ Numbered(dead) /\ \A i \in Rows : Numbered(Row(i)) /\ MarksSent(RowMarks(i))
  BY DEF Line, AllSent
<1>10. InLine'
  <2>1. \A i \in Rows : Below(RowMarks(i), Hand(t)')
    BY <1>0, <1>4, <1>5, <1>9 DEF Below, MarksSent
  <2>2. Below(Visible, Hand(t)')
    BY <1>0, <1>4, <1>5, <1>9 DEF Below, Numbered
  <2>3. \A u \in Threads : u # t => Below(Visible, Hand(u)')
                                    /\ \A i \in Rows : Below(RowMarks(i), Hand(u)')
    BY <1>2 DEF Line, InLine
  <2>4. \A u \in Threads : Below(Visible, Hand(u)') /\ \A i \in Rows : Below(RowMarks(i), Hand(u)')
    BY <2>1, <2>2, <2>3
  <2>5. \A i \in Rows : Below(Visible, Row(i))
    BY DEF Line, InLine
  <2>6. \A i, j \in Rows : i < j => Below(RowMarks(i), Row(j))
    BY DEF Line, InLine
  <2>. QED BY <1>1, <2>4, <2>5, <2>6 DEF InLine, Below
<1>11. DeadApart'
  <2>1. dead \cap Hand(t)' = {}
    <3>. SUFFICES ASSUME NEW w \in dead, w \in Hand(t)' PROVE FALSE
      OBVIOUS
    <3>1. w \in Writes
      BY DEF TypeOK, DbTypes
    <3>2. PICK u \in Threads, n \in Nat : w = <<u, n>>
      BY <3>1, WritePair
    <3>. QED BY <1>0, <1>4, <1>5, <1>9, <3>2 DEF Numbered
  <2>. QED BY <1>1, <1>2, <2>1 DEF Line, DeadApart
<1>12. Covered'
  <2>1. ASSUME NEW u \in Threads, NEW n \in 1 .. Sent(u)'
        PROVE  \/ <<u, n>> \in Visible \cup dead \cup Hand(u)'
               \/ \E i \in Rows : <<u, n>> \in Row(i)
    <3>1. CASE u = t /\ Sent(t) < n
      BY <1>0, <1>4, <3>1
    <3>2. CASE ~(u = t /\ Sent(t) < n)
      <4>1. n \in 1 .. Sent(u)
        BY <1>4, <3>2
      <4>2. \/ <<u, n>> \in Visible \cup dead \cup Hand(u)
            \/ \E i \in Rows : <<u, n>> \in Row(i)
        BY <4>1 DEF Line, Covered
      <4>. QED BY <1>2, <1>3, <4>2
    <3>. QED BY <3>1, <3>2
  <2>2. ASSUME NEW u \in Threads, NEW n \in 1 .. Sent(u)'
        PROVE  \/ <<u, n>> \in Visible' \cup dead' \cup Hand(u)'
               \/ \E i \in Rows' : <<u, n>> \in Row(i)'
    <3>1. \/ <<u, n>> \in Visible \cup dead \cup Hand(u)'
          \/ \E i \in Rows : <<u, n>> \in Row(i)
      BY <2>1
    <3>. QED BY <1>1, <3>1
  <2>. QED BY <2>2 DEF Covered
<1>. QED BY <1>7, <1>8, <1>10, <1>11, <1>12 DEF Line

\* ACE's queue takes the task of a thread: it becomes the last row.
LEMMA Enqueued ==
    ASSUME TypeOK, Line, NEW t \in Threads, inHand[t] # <<>>,
           \A u \in Threads : inHand[u] # <<>> => InHand(u).by = u,
           inHand' = [inHand EXCEPT ![t] = <<>>],
           sqlQueue' = Append(sqlQueue, inHand[t][1]),
           UNCHANGED <<tran, issued, job, dead, log, conn, halt>>
    PROVE  Line'
<1>1. /\ Visible' = Visible /\ \A u \in Threads : Sent(u)' = Sent(u)
  BY DEF Visible, Sent
<1>2. sqlQueue \in Seq(Task) /\ inHand[t][1] \in Task /\ inHand[t][1] = InHand(t)
  BY DEF TypeOK, QueueTypes, ClientTypes, InHand
<1>. PICK N \in Nat : N = Len(sqlQueue) + 1
  BY <1>2
<1>3. Len(sqlQueue) \in Nat /\ Len(sqlQueue') = N
      /\ sqlQueue'[N] = InHand(t) /\ \A i \in 1 .. Len(sqlQueue) : sqlQueue'[i] = sqlQueue[i]
  BY <1>2
<1>4. N \in Nat /\ N # 0 /\ \A i \in Rows : i < N /\ i \in Int
  BY <1>3 DEF Rows
<1>5. Rows' = Rows \cup {N}
  BY <1>3 DEF Rows
<1>6. ASSUME NEW i \in Rows PROVE TaskAt(i)' = TaskAt(i)
  BY <1>3 DEF Rows, TaskAt
<1>7. /\ \A i \in Rows : Row(i)' = Row(i) /\ RowMarks(i)' = RowMarks(i)
      /\ Row(N)' = Hand(t) /\ RowMarks(N)' = HandMarks(t)
  <2>1. TaskAt(N)' = InHand(t)
    BY <1>3, <1>4 DEF TaskAt
  <2>2. \A i \in Rows : Row(i)' = Row(i) /\ RowMarks(i)' = RowMarks(i)
    BY <1>6 DEF Row, RowMarks
  <2>3. Row(N)' = WritesIn(TaskAt(N)') /\ RowMarks(N)' = Marks(TaskAt(N)')
    BY DEF Row, RowMarks, WritesIn, Marks
  <2>. QED BY <2>1, <2>2, <2>3 DEF Hand, HandMarks
<1>8. \A u \in Threads : u # t => Hand(u)' = Hand(u) /\ HandMarks(u)' = HandMarks(u)
  BY DEF TypeOK, ClientTypes, InHand, Hand, HandMarks
<1>9. Hand(t)' = {} /\ \A u \in Threads, n \in Nat : <<u, n>> \notin HandMarks(t)'
  <2>1. InHand(t)' = NoTask
    BY DEF TypeOK, ClientTypes, InHand
  <2>2. Hand(t)' = WritesIn(InHand(t)') /\ HandMarks(t)' = Marks(InHand(t)')
    BY DEF Hand, HandMarks, WritesIn, Marks
  <2>. QED BY <2>1, <2>2, NoTaskEmpty
<1>10. \A u, v \in Threads, n \in Nat :
           u # v => <<u, n>> \notin Hand(v) /\ <<u, n>> \notin HandMarks(v)
  BY InWrites, NoTaskEmpty DEF Hand, HandMarks, InHand
<1>11. OpenLast'
  BY <1>1 DEF Line, OpenLast
<1>12. AllSent'
  <2>1. Numbered(Visible)' /\ Numbered(dead)'
    BY <1>1 DEF Line, AllSent, Numbered
  <2>2. ASSUME NEW i \in Rows' PROVE Numbered(Row(i))' /\ MarksSent(RowMarks(i))'
    BY <1>1, <1>5, <1>7 DEF Line, AllSent, Numbered, MarksSent
  <2>3. ASSUME NEW u \in Threads PROVE Numbered(Hand(u))' /\ MarksSent(HandMarks(u))'
    BY <1>1, <1>8, <1>9 DEF Line, AllSent, Numbered, MarksSent
  <2>. QED BY <2>1, <2>2, <2>3 DEF AllSent
<1>13. InLine'
  <2>1. ASSUME NEW i \in Rows' PROVE Below(Visible, Row(i))'
    BY <1>1, <1>5, <1>7 DEF Line, InLine, Below
  <2>2. ASSUME NEW i \in Rows', NEW j \in Rows', i < j PROVE Below(RowMarks(i), Row(j))'
    <3>1. i \in Rows
      BY <1>4, <1>5, <2>2
    <3>2. CASE j \in Rows
      BY <1>7, <2>2, <3>1, <3>2 DEF Line, InLine, Below
    <3>3. CASE j = N
      BY <1>7, <3>1, <3>3 DEF Line, InLine, Below
    <3>. QED BY <1>5, <3>2, <3>3
  <2>3. ASSUME NEW i \in Rows', NEW u \in Threads PROVE Below(RowMarks(i), Hand(u))'
    <3>1. CASE u = t
      BY <1>9, <3>1 DEF Below
    <3>2. CASE u # t /\ i \in Rows
      BY <1>7, <1>8, <3>2 DEF Line, InLine, Below
    <3>3. CASE u # t /\ i = N
      <4>1. Below(HandMarks(t), Hand(u))
        <5>1. ASSUME NEW x \in Threads, NEW m \in Nat, NEW n \in Nat,
                     <<x, m>> \in HandMarks(t), <<x, n>> \in Hand(u)
              PROVE  FALSE
          <6>1. x = t
            BY <1>10, <5>1
          <6>. QED BY <1>10, <3>3, <5>1, <6>1
        <5>. QED BY <5>1 DEF Below
      <4>. QED BY <1>7, <1>8, <3>3, <4>1 DEF Below
    <3>. QED BY <1>5, <3>1, <3>2, <3>3
  <2>4. ASSUME NEW u \in Threads PROVE Below(Visible, Hand(u))'
    BY <1>1, <1>8, <1>9 DEF Line, InLine, Below
  <2>. QED BY <2>1, <2>2, <2>3, <2>4 DEF InLine
<1>14. DeadApart'
  BY <1>1, <1>5, <1>7, <1>8, <1>9 DEF Line, DeadApart
<1>15. Covered'
  <2>. SUFFICES ASSUME halt # "down", NEW u \in Threads, NEW n \in 1 .. Sent(u)
                PROVE  \/ <<u, n>> \in Visible' \cup dead' \cup Hand(u)'
                       \/ \E i \in Rows' : <<u, n>> \in Row(i)'
    BY <1>1 DEF Covered
  <2>1. \/ <<u, n>> \in Visible \cup dead \cup Hand(u)
        \/ \E i \in Rows : <<u, n>> \in Row(i)
    BY DEF Line, Covered
  <2>2. CASE u = t /\ <<u, n>> \in Hand(u)
    BY <1>5, <1>7, <2>2
  <2>3. CASE u # t \/ <<u, n>> \notin Hand(u)
    BY <1>1, <1>5, <1>7, <1>8, <2>1, <2>3
  <2>. QED BY <2>2, <2>3
<1>. QED BY <1>11, <1>12, <1>13, <1>14, <1>15 DEF Line

\* The delay thread takes the first row.
LEMMA Dequeued ==
    ASSUME TypeOK, Line, job = NoTask, sqlQueue # <<>>,
           job' = Head(sqlQueue), sqlQueue' = Tail(sqlQueue),
           UNCHANGED <<tran, inHand, issued, dead, log, conn, halt>>
    PROVE  Line'
<1>1. /\ Visible' = Visible
      /\ \A u \in Threads : Sent(u)' = Sent(u) /\ Hand(u)' = Hand(u)
                            /\ HandMarks(u)' = HandMarks(u)
  BY DEF Visible, Sent, InHand, Hand, HandMarks
<1>2. sqlQueue \in Seq(Task)
  BY DEF TypeOK, QueueTypes
<1>3. /\ Len(sqlQueue) \in Nat /\ Len(sqlQueue') = Len(sqlQueue) - 1 /\ Len(sqlQueue) >= 1
      /\ job' = sqlQueue[1] /\ \A i \in 1 .. Len(sqlQueue) - 1 : sqlQueue'[i] = sqlQueue[i + 1]
  BY <1>2
<1>4. \A i \in Rows' : i + 1 \in Rows /\ i + 1 # 0 /\ TaskAt(i)' = TaskAt(i + 1)
  BY <1>3 DEF Rows, TaskAt
<1>5. \A i \in Rows' : Row(i)' = Row(i + 1) /\ RowMarks(i)' = RowMarks(i + 1)
  BY <1>4 DEF Row, RowMarks
<1>6. Row(0) = {} /\ \A i \in Rows : i # 0 => i - 1 \in Rows' /\ Row(i - 1)' = Row(i)
  <2>1. Row(0) = {}
    BY NoTaskEmpty DEF Row, TaskAt
  <2>2. \A i \in Rows : i # 0 => i - 1 \in Rows' /\ (i - 1) + 1 = i
    BY <1>3 DEF Rows
  <2>. QED BY <1>5, <2>1, <2>2
<1>7. OpenLast'
  BY <1>1 DEF Line, OpenLast
<1>8. AllSent'
  BY <1>1, <1>4, <1>5 DEF Line, AllSent, Numbered, MarksSent
<1>9. InLine'
  <2>1. ASSUME NEW i \in Rows' PROVE Below(Visible, Row(i))'
    BY <1>1, <1>4, <1>5 DEF Line, InLine, Below
  <2>2. ASSUME NEW i \in Rows', NEW j \in Rows', i < j PROVE Below(RowMarks(i), Row(j))'
    <3>1. i + 1 \in Rows /\ j + 1 \in Rows /\ i + 1 < j + 1
      BY <1>3, <1>4, <2>2 DEF Rows
    <3>. QED BY <1>5, <3>1 DEF Line, InLine, Below
  <2>3. ASSUME NEW i \in Rows', NEW u \in Threads PROVE Below(RowMarks(i), Hand(u))'
    BY <1>1, <1>4, <1>5 DEF Line, InLine, Below
  <2>4. ASSUME NEW u \in Threads PROVE Below(Visible, Hand(u))'
    BY <1>1 DEF Line, InLine, Below
  <2>. QED BY <2>1, <2>2, <2>3, <2>4 DEF InLine
<1>10. DeadApart'
  BY <1>1, <1>4, <1>5 DEF Line, DeadApart
<1>11. Covered'
  <2>. SUFFICES ASSUME halt # "down", NEW u \in Threads, NEW n \in 1 .. Sent(u)
                PROVE  \/ <<u, n>> \in Visible' \cup dead' \cup Hand(u)'
                       \/ \E i \in Rows' : <<u, n>> \in Row(i)'
    BY <1>1 DEF Covered
  <2>1. \/ <<u, n>> \in Visible \cup dead \cup Hand(u)
        \/ \E i \in Rows : <<u, n>> \in Row(i)
    BY DEF Line, Covered
  <2>. QED BY <1>1, <1>6, <2>1
<1>. QED BY <1>7, <1>8, <1>9, <1>10, <1>11 DEF Line

\* An open transaction holds what its thread issued and has not sent.
LEMMA OpenNumbers ==
    ASSUME TypeOK, OpenLast, halt # "down", NEW t \in Threads
    PROVE  \A u \in Threads, n \in Nat :
               <<u, n>> \in OpenWrites(t) <=> u = t /\ Sent(t) < n /\ n <= issued[t]
<1>. DEFINE b == tran[t].body
<1>1. b \in Seq(Nat) /\ issued[t] \in Nat
  BY DEF TypeOK, ClientTypes, CountTypes
<1>2. Len(b) \in Nat /\ DOMAIN b = 1 .. Len(b) /\ Sent(t) = issued[t] - Len(b)
  BY <1>1 DEF Sent
<1>3. \A i \in DOMAIN b : b[i] = Sent(t) + i
  BY DEF OpenLast
<1>4. OpenWrites(t) = {<<t, b[i]>> : i \in DOMAIN b}
  BY DEF OpenWrites
<1>. HIDE DEF b
<1>. SUFFICES ASSUME NEW u \in Threads, NEW n \in Nat
              PROVE  <<u, n>> \in OpenWrites(t) <=> u = t /\ Sent(t) < n /\ n <= issued[t]
  OBVIOUS
<1>5. <<u, n>> \in OpenWrites(t) <=> u = t /\ \E i \in DOMAIN b : b[i] = n
  BY <1>4
<1>6. ASSUME NEW i \in DOMAIN b, b[i] = n PROVE Sent(t) < n /\ n <= issued[t]
  BY <1>1, <1>2, <1>3, <1>6
<1>7. ASSUME Sent(t) < n, n <= issued[t] PROVE \E i \in DOMAIN b : b[i] = n
  <2>1. n - Sent(t) \in DOMAIN b
    BY <1>1, <1>2, <1>7
  <2>2. b[n - Sent(t)] = Sent(t) + (n - Sent(t))
    BY <1>3, <2>1
  <2>. QED BY <1>1, <1>2, <2>1, <2>2
<1>. QED BY <1>5, <1>6, <1>7

\* A transaction that is rolled back, or forgotten by a second BeginTransaction(), is
\* dead; it counts as sent.
LEMMA TranDropped ==
    ASSUME TypeOK, TypeOK', Line, NEW t \in Threads, halt # "down",
           dead' = dead \cup OpenWrites(t), tran'[t].body = <<>>,
           \A u \in Threads : u # t => tran'[u] = tran[u],
           UNCHANGED <<inHand, sqlQueue, issued, job, log, conn, halt>>
    PROVE  Line'
<1>1. /\ Visible' = Visible /\ Rows' = Rows
      /\ \A i \in Rows : Row(i)' = Row(i) /\ RowMarks(i)' = RowMarks(i)
      /\ \A u \in Threads : Hand(u)' = Hand(u) /\ HandMarks(u)' = HandMarks(u)
  BY DEF Visible, Rows, TaskAt, Row, RowMarks, InHand, Hand, HandMarks
<1>2. /\ \A u \in Threads : u # t => Sent(u)' = Sent(u)
      /\ Sent(t)' = issued[t] /\ Sent(t) <= issued[t] /\ issued[t] \in Nat
      /\ \A u \in Threads : Sent(u) \in Nat /\ Sent(u)' \in Nat
  <2>1. Sent(t)' = issued[t] - Len(<<>>) /\ Len(<<>>) = 0
    BY DEF Sent
  <2>2. SentTypes /\ SentTypes'
    BY SentNat, SentNatNext
  <2>3. Sent(t)' = issued[t]
    BY <2>1, <2>2 DEF SentTypes
  <2>. QED BY <2>2, <2>3 DEF Sent, SentTypes
<1>3. \A u \in Threads, n \in Nat :
          <<u, n>> \in OpenWrites(t) <=> u = t /\ Sent(t) < n /\ n <= issued[t]
  BY OpenNumbers DEF Line
<1>4. OpenLast'
  <2>1. \A u \in Threads : u # t => \A i \in DOMAIN tran[u].body : tran[u].body[i] = Sent(u) + i
    BY DEF Line, OpenLast
  <2>2. \A i \in DOMAIN tran'[t].body : FALSE
    OBVIOUS
  <2>. QED BY <1>2, <2>1, <2>2 DEF OpenLast
<1>5. AllSent'
  <2>1. Numbered(Visible)'
    BY <1>1, <1>2 DEF Line, AllSent, Numbered
  <2>2. Numbered(dead)'
    BY <1>2, <1>3 DEF Line, AllSent, Numbered
  <2>3. ASSUME NEW i \in Rows PROVE Numbered(Row(i))' /\ MarksSent(RowMarks(i))'
    BY <1>1, <1>2 DEF Line, AllSent, Numbered, MarksSent
  <2>4. ASSUME NEW u \in Threads PROVE Numbered(Hand(u))' /\ MarksSent(HandMarks(u))'
    BY <1>1, <1>2 DEF Line, AllSent, Numbered, MarksSent
  <2>. QED BY <1>1, <2>1, <2>2, <2>3, <2>4 DEF AllSent
<1>6. InLine'
  BY <1>1 DEF Line, InLine, Below
<1>7. ASSUME NEW A, Numbered(A), A \subseteq Writes PROVE OpenWrites(t) \cap A = {}
  <2>. SUFFICES ASSUME NEW w \in A, w \in OpenWrites(t) PROVE FALSE
    OBVIOUS
  <2>1. w \in Writes
    BY <1>7
  <2>2. PICK u \in Threads, n \in Nat : w = <<u, n>>
    BY <2>1, WritePair
  <2>. QED BY <1>2, <1>3, <1>7, <2>2 DEF Numbered
<1>8. DeadApart'
  <2>1. OpenWrites(t) \cap Visible = {}
    BY <1>7, PlaceTypes DEF Line, AllSent
  <2>2. \A i \in Rows : OpenWrites(t) \cap Row(i) = {}
    BY <1>7, PlaceTypes DEF Line, AllSent
  <2>3. \A u \in Threads : OpenWrites(t) \cap Hand(u) = {}
    BY <1>7, PlaceTypes DEF Line, AllSent
  <2>. QED BY <1>1, <2>1, <2>2, <2>3 DEF Line, DeadApart
<1>9. Covered'
  <2>. SUFFICES ASSUME NEW u \in Threads, NEW n \in 1 .. Sent(u)'
                PROVE  \/ <<u, n>> \in Visible \cup dead' \cup Hand(u)
                       \/ \E i \in Rows : <<u, n>> \in Row(i)
    BY <1>1 DEF Covered
  <2>1. CASE u = t /\ Sent(t) < n
    BY <1>2, <1>3, <2>1
  <2>2. CASE ~(u = t /\ Sent(t) < n)
    <3>1. n \in 1 .. Sent(u)
      BY <1>2, <2>2
    <3>. QED BY <3>1 DEF Line, Covered
  <2>. QED BY <2>1, <2>2
<1>. QED BY <1>4, <1>5, <1>6, <1>8, <1>9 DEF Line

\* A statement joins the open transaction: it is not sent yet.
LEMMA TranExtended ==
    ASSUME TypeOK, TypeOK', Line, NEW t \in Threads, halt # "down",
           tran'[t].body = Append(tran[t].body, issued[t] + 1), issued'[t] = issued[t] + 1,
           \A u \in Threads : u # t => tran'[u] = tran[u] /\ issued'[u] = issued[u],
           UNCHANGED <<inHand, sqlQueue, job, log, conn, dead, halt>>
    PROVE  Line'
<1>1. /\ Visible' = Visible /\ Rows' = Rows
      /\ \A i \in Rows : Row(i)' = Row(i) /\ RowMarks(i)' = RowMarks(i)
      /\ \A u \in Threads : Hand(u)' = Hand(u) /\ HandMarks(u)' = HandMarks(u)
  BY DEF Visible, Rows, TaskAt, Row, RowMarks, InHand, Hand, HandMarks
<1>2. tran[t].body \in Seq(Nat) /\ issued[t] \in Nat
  BY DEF TypeOK, ClientTypes, CountTypes
<1>3. Len(tran'[t].body) = Len(tran[t].body) + 1 /\ Len(tran[t].body) \in Nat
  BY <1>2
<1>4. \A u \in Threads : Sent(u)' = Sent(u)
  <2>1. Sent(t)' = Sent(t)
    <3>1. Sent(t) = issued[t] - Len(tran[t].body)
      BY DEF Sent
    <3>2. Sent(t)' = issued'[t] - Len(tran'[t].body)
      BY DEF Sent
    <3>3. Sent(t)' = (issued[t] + 1) - (Len(tran[t].body) + 1)
      BY <1>3, <3>2, Zenon
    <3>4. \A a, b \in Nat : (a + 1) - (b + 1) = a - b
      OBVIOUS
    <3>. QED BY <1>2, <1>3, <3>1, <3>3, <3>4, Zenon
  <2>. QED BY <2>1 DEF Sent
<1>5. OpenLast'
  <2>1. \A u \in Threads : \A i \in DOMAIN tran[u].body : tran[u].body[i] = Sent(u) + i
    BY DEF Line, OpenLast
  <2>2. Sent(t) = issued[t] - Len(tran[t].body)
    BY DEF Sent
  <2>3. ASSUME NEW i \in DOMAIN tran'[t].body PROVE tran'[t].body[i] = Sent(t) + i
    <3>1. CASE i \in DOMAIN tran[t].body
      <4>1. tran'[t].body[i] = tran[t].body[i]
        BY <1>2, <3>1
      <4>. QED BY <2>1, <3>1, <4>1
    <3>2. CASE i \notin DOMAIN tran[t].body
      <4>1. i = Len(tran[t].body) + 1 /\ tran'[t].body[i] = issued[t] + 1
        BY <1>2, <2>3, <3>2
      <4>. QED BY <1>2, <1>3, <2>2, <4>1
    <3>. QED BY <3>1, <3>2
  <2>. QED BY <1>4, <2>1, <2>3 DEF OpenLast
<1>6. AllSent'
  BY <1>1, <1>4 DEF Line, AllSent, Numbered, MarksSent
<1>7. InLine' /\ DeadApart'
  BY <1>1 DEF Line, InLine, DeadApart, Below
<1>8. Covered'
  <2>1. Covered
    BY DEF Line
  <2>2. Rows' = Rows /\ Visible' = Visible /\ dead' = dead /\ halt' = halt
    BY <1>1
  <2>3. \A i \in Rows : Row(i)' = Row(i)
    BY <1>1
  <2>4. \A v \in Threads : Hand(v)' = Hand(v) /\ Sent(v)' = Sent(v)
    BY <1>1, <1>4
  <2>5. ASSUME NEW u \in Threads, NEW n \in 1 .. Sent(u)'
        PROVE  \/ <<u, n>> \in Visible' \cup dead' \cup Hand(u)'
               \/ \E i \in Rows' : <<u, n>> \in Row(i)'
    <3>1. n \in 1 .. Sent(u)
      BY <2>4
    <3>2. \/ <<u, n>> \in Visible \cup dead \cup Hand(u)
          \/ \E i \in Rows : <<u, n>> \in Row(i)
      BY <2>1, <3>1 DEF Covered
    <3>3. CASE <<u, n>> \in Visible \cup dead \cup Hand(u)
      BY <2>2, <2>4, <3>3
    <3>4. CASE \E i \in Rows : <<u, n>> \in Row(i)
      BY <2>2, <2>3, <3>4
    <3>. QED BY <3>2, <3>3, <3>4
  <2>. QED BY <2>5 DEF Covered
<1>. QED BY <1>5, <1>6, <1>7, <1>8 DEF Line

\* The halt drops what is in the queue; open transactions do not matter any more.
LEMMA QueueDropped ==
    ASSUME TypeOK, TypeOK', Line, halt' = "down", sqlQueue' = <<>>,
           UNCHANGED <<tran, inHand, issued, job, dead, log, conn>>
    PROVE  Line'
<1>1. /\ Visible' = Visible /\ Rows' = {0} /\ 0 \in Rows
      /\ Row(0)' = Row(0) /\ RowMarks(0)' = RowMarks(0)
      /\ \A u \in Threads : Hand(u)' = Hand(u) /\ HandMarks(u)' = HandMarks(u)
  <2>1. Len(sqlQueue) \in Nat /\ Len(sqlQueue') = 0
    BY PlaceTypes
  <2>2. Rows' = {0} /\ 0 \in Rows
    BY <2>1 DEF Rows
  <2>. QED BY <2>2 DEF Visible, TaskAt, Row, RowMarks, InHand, Hand, HandMarks
<1>2. \A u \in Threads : Sent(u) \in Nat /\ Sent(u)' \in Nat /\ Sent(u) <= Sent(u)'
  <2>1. SentTypes /\ SentTypes' /\ \A u \in Threads : Sent(u)' = issued[u]
    BY SentNat, SentNatNext DEF Sent
  <2>. QED BY <2>1 DEF SentTypes
<1>3. AllSent'
  <2>1. Numbered(Visible)' /\ Numbered(dead)' /\ Numbered(Row(0))' /\ MarksSent(RowMarks(0))'
    BY <1>1, <1>2 DEF Line, AllSent, Numbered, MarksSent
  <2>2. ASSUME NEW u \in Threads PROVE Numbered(Hand(u))' /\ MarksSent(HandMarks(u))'
    BY <1>1, <1>2 DEF Line, AllSent, Numbered, MarksSent
  <2>. QED BY <1>1, <2>1, <2>2 DEF AllSent
<1>4. InLine' /\ DeadApart'
  BY <1>1 DEF Line, InLine, DeadApart, Below
<1>5. OpenLast' /\ Covered'
  BY DEF OpenLast, Covered
<1>. QED BY <1>3, <1>4, <1>5 DEF Line

\* After the halt a statement is executed at once, behind all others of its thread.
LEMMA SentAtOnce ==
    ASSUME TypeOK, TypeOK', Line, NEW t \in Threads, halt = "down",
           job = NoTask, sqlQueue = <<>>, \A u \in Threads : inHand[u] = <<>>,
           issued' = [issued EXCEPT ![t] = @ + 1],
           \/ Visible' = Visible \cup {<<t, issued[t] + 1>>} /\ dead' = dead
           \/ Visible' = Visible /\ dead' = dead \cup {<<t, issued[t] + 1>>},
           UNCHANGED <<tran, inHand, sqlQueue, job, halt>>
    PROVE  Line'
<1>1. Rows = {0} /\ Rows' = {0}
  <2>1. Len(sqlQueue) = 0 /\ Len(sqlQueue') = 0
    OBVIOUS
  <2>. QED BY <2>1 DEF Rows
<1>2. /\ Row(0)' = {} /\ \A u \in Threads : Hand(u)' = {}
      /\ \A u \in Threads, n \in Nat : <<u, n>> \notin RowMarks(0)'
      /\ \A u, v \in Threads, n \in Nat : <<u, n>> \notin HandMarks(v)'
  <2>1. TaskAt(0)' = NoTask /\ \A u \in Threads : InHand(u)' = NoTask
    BY DEF TaskAt, InHand
  <2>2. /\ Row(0)' = WritesIn(TaskAt(0)') /\ RowMarks(0)' = Marks(TaskAt(0)')
        /\ \A u \in Threads : Hand(u)' = WritesIn(InHand(u)') /\ HandMarks(u)' = Marks(InHand(u)')
    BY DEF Row, RowMarks, Hand, HandMarks, WritesIn, Marks
  <2>. QED BY <2>1, <2>2, NoTaskEmpty
<1>3. /\ \A u \in Threads : Sent(u) = issued[u] /\ Sent(u)' = issued'[u] /\ issued[u] \in Nat
      /\ issued'[t] = issued[t] + 1 /\ \A u \in Threads : u # t => issued'[u] = issued[u]
  BY DEF Sent, TypeOK, CountTypes
<1>4. Numbered(Visible) /\ Numbered(dead) /\ Visible \subseteq Writes /\ dead \subseteq Writes
  BY PlaceTypes DEF Line, AllSent
<1>5. AllSent'
  <2>1. Numbered(Visible)' /\ Numbered(dead)'
    BY <1>3, <1>4 DEF Numbered
  <2>. QED BY <1>1, <1>2, <2>1 DEF AllSent, Numbered, MarksSent
<1>6. InLine'
  BY <1>1, <1>2 DEF InLine, Below
<1>7. DeadApart'
  <2>1. <<t, issued[t] + 1>> \notin Visible /\ <<t, issued[t] + 1>> \notin dead
    BY <1>3, <1>4 DEF Numbered
  <2>. QED BY <1>1, <1>2, <2>1 DEF Line, DeadApart
<1>8. OpenLast' /\ Covered'
  BY DEF OpenLast, Covered
<1>. QED BY <1>5, <1>6, <1>7, <1>8 DEF Line
-----------------------------------------------------------------------------
(* Every step moves the line in one of these ways.                         *)

\* A write sent after the halt comes after all of its thread.
LEMMA SyncBelow ==
    ASSUME TypeOK, Line, halt = "down", NEW t \in Threads
    PROVE  Below(Visible, {<<t, issued[t] + 1>>})
<1>1. Sent(t) = issued[t] /\ issued[t] \in Nat
  BY DEF Sent, TypeOK, CountTypes
<1>2. Numbered(Visible)
  BY DEF Line, AllSent
<1>. QED BY <1>1, <1>2 DEF Numbered, Below

\* The client operations.
LEMMA ClientLine ==
    ASSUME TypeOK, TypeOK', Pipeline, NEW t \in Threads, Client(t)
    PROVE  Line'
<1>. USE DEF Pipeline
<1>1. /\ tran[t] \in [open : BOOLEAN, body : Seq(Nat)]
      /\ tran \in [Threads -> [open : BOOLEAN, body : Seq(Nat)]]
      /\ issued[t] \in Nat /\ asked[t] \in Nat /\ issued \in [Threads -> Nat]
      /\ inHand \in [Threads -> Seq(Task)]
  BY DEF TypeOK, ClientTypes, CountTypes
<1>2. /\ Sent(t) \in Nat /\ Sent(t) <= issued[t]
  BY SentNat DEF SentTypes
<1>3. CASE BeginTransaction(t) \/ RollbackTransaction(t)
  <2>1. /\ halt # "down" /\ dead' = dead \cup OpenWrites(t)
        /\ UNCHANGED <<inHand, sqlQueue, issued, job, log, conn, halt>>
        /\ \E b \in BOOLEAN : tran' = [tran EXCEPT ![t] = [open |-> b, body |-> <<>>]]
    BY <1>3 DEF BeginTransaction, RollbackTransaction, FreeAndUnlocked, Free, NoTran,
                workerVars, countVars, fateVars
  <2>2. tran'[t].body = <<>> /\ \A u \in Threads : u # t => tran'[u] = tran[u]
    BY <1>1, <2>1
  <2>. QED BY <2>1, <2>2, TranDropped
<1>4. CASE CommitTransaction(t)
  <2>. DEFINE task == SqlTransaction(t, tran[t].body)
  <2>1. /\ halt = "up" /\ inHand[t] = <<>> /\ inHand' = [inHand EXCEPT ![t] = <<task>>]
        /\ UNCHANGED <<sqlQueue, job, dead, log, conn, halt, issued>>
        /\ tran' = [tran EXCEPT ![t] = NoTran]
    BY <1>4 DEF CommitTransaction, FreeAndUnlocked, Free, DelayLocked, workerVars, dbVars
  <2>2. task \in Task
    BY <1>1, TaskTypes
  <2>3. task.by = t /\ task.upTo = 0 /\ WritesIn(task) = OpenWrites(t)
    BY DEF SqlTransaction, SqlAsyncTask, WritesIn, OpenWrites
  <2>4. tran'[t].body = <<>> /\ \A u \in Threads : u # t => tran'[u] = tran[u]
    BY <1>1, <2>1 DEF NoTran
  <2>5. Sent(t)' = issued[t] /\ \A u \in Threads : u # t => Sent(u)' = Sent(u)
    <3>1. Sent(t)' = issued[t] - Len(<<>>) /\ Len(<<>>) = 0
      BY <2>1, <2>4 DEF Sent
    <3>. QED BY <1>1, <2>1, <2>4, <3>1 DEF Sent
  <2>6. \A n \in Nat : <<t, n>> \in WritesIn(task) <=> Sent(t) < n /\ n <= Sent(t)'
    BY <2>1, <2>3, <2>5, OpenNumbers DEF Line
  <2>. HIDE DEF task
  <2>7. \A i \in DOMAIN tran'[t].body : tran'[t].body[i] = Sent(t)' + i
    BY <2>4
  <2>8. Sent(t) <= Sent(t)' /\ task.upTo <= Sent(t)'
    BY <1>1, <1>2, <2>3, <2>5
  <2>. QED BY <2>1, <2>2, <2>3, <2>4, <2>5, <2>6, <2>7, <2>8, HandOver
<1>5. CASE Execute(t)
  <2>1. /\ halt = "up" /\ inHand[t] = <<>> /\ issued' = [issued EXCEPT ![t] = @ + 1]
        /\ UNCHANGED <<sqlQueue, job, log, conn, dead, halt>>
    BY <1>5 DEF Execute, FreeAndUnlocked, Free, workerVars, dbVars
  <2>2. issued'[t] = issued[t] + 1 /\ \A u \in Threads : u # t => issued'[u] = issued[u]
    BY <1>1, <2>1
  <2>3. CASE tran[t].open
    <3>1. inHand' = inHand /\ tran' = [tran EXCEPT ![t].body = Append(@, issued[t] + 1)]
      BY <1>5, <2>3 DEF Execute
    <3>2. /\ tran'[t].body = Append(tran[t].body, issued[t] + 1)
          /\ \A u \in Threads : u # t => tran'[u] = tran[u]
      BY <1>1, <3>1
    <3>. QED BY <2>1, <2>2, <3>1, <3>2, TranExtended
  <2>4. CASE ~tran[t].open
    <3>. DEFINE task == SqlStatement(t, issued[t] + 1)
    <3>1. tran' = tran /\ inHand' = [inHand EXCEPT ![t] = <<task>>]
      BY <1>5, <2>4 DEF Execute, DelayLocked
    <3>2. task \in Task
      <4>1. issued[t] + 1 \in Nat /\ tran[t].body \in Seq(Nat)
        BY <1>1
      <4>. QED BY <4>1, TaskTypes
    <3>3. task.by = t /\ task.upTo = 0 /\ task.body = <<issued[t] + 1>>
      BY DEF SqlStatement, SqlAsyncTask
    <3>4. tran[t].body = <<>>
      BY <2>4 DEF Places
    <3>5. Sent(t) = issued[t] /\ Sent(t)' = issued[t] + 1
          /\ \A u \in Threads : u # t => Sent(u)' = Sent(u)
      <4>1. Len(tran[t].body) = 0 /\ Len(tran'[t].body) = 0
        BY <3>1, <3>4
      <4>2. Sent(t) = issued[t] - Len(tran[t].body)
        BY <2>1 DEF Sent
      <4>3. Sent(t)' = issued'[t] - Len(tran'[t].body)
        BY <2>1 DEF Sent
      <4>. QED BY <1>1, <2>1, <2>2, <3>1, <4>1, <4>2, <4>3 DEF Sent
    <3>6. \A n \in Nat : <<t, n>> \in WritesIn(task) <=> n = issued[t] + 1
      BY <3>3, InWrites
    <3>. HIDE DEF task
    <3>7. \A n \in Nat : <<t, n>> \in WritesIn(task) <=> Sent(t) < n /\ n <= Sent(t)'
      BY <1>1, <3>5, <3>6
    <3>8. \A i \in DOMAIN tran'[t].body : tran'[t].body[i] = Sent(t)' + i
      BY <3>1, <3>4
    <3>9. Sent(t) <= Sent(t)' /\ task.upTo <= Sent(t)'
      BY <1>1, <3>3, <3>5
    <3>. QED BY <2>1, <3>1, <3>2, <3>3, <3>5, <3>7, <3>8, <3>9, HandOver
  <2>. QED BY <2>3, <2>4
<1>6. CASE AsyncQuery(t)
  <2>. DEFINE task == SqlQuery(t, asked[t] + 1, issued[t] - Len(tran[t].body))
  <2>1. /\ halt = "up" /\ inHand[t] = <<>> /\ inHand' = [inHand EXCEPT ![t] = <<task>>]
        /\ UNCHANGED <<sqlQueue, job, dead, log, conn, halt, issued, tran>>
    BY <1>6 DEF AsyncQuery, Free, workerVars, dbVars
  <2>2. Sent(t) = issued[t] - Len(tran[t].body) /\ \A u \in Threads : Sent(u)' = Sent(u)
    BY <2>1 DEF Sent
  <2>3. task \in Task
    <3>1. /\ asked[t] + 1 \in Nat /\ issued[t] - Len(tran[t].body) \in Nat
          /\ tran[t].body \in Seq(Nat)
      BY <1>1, <1>2, <2>2
    <3>. QED BY <3>1, TaskTypes
  <2>4. task.by = t /\ task.upTo = Sent(t) /\ task.body = <<>>
    BY <2>2 DEF SqlQuery, SqlAsyncTask
  <2>. HIDE DEF task
  <2>5. \A n \in Nat : <<t, n>> \in WritesIn(task) <=> Sent(t) < n /\ n <= Sent(t)'
    BY <1>2, <2>2, <2>4, InWrites
  <2>6. \A i \in DOMAIN tran'[t].body : tran'[t].body[i] = Sent(t)' + i
    BY <2>1, <2>2 DEF Line, OpenLast
  <2>7. Sent(t) <= Sent(t)' /\ task.upTo <= Sent(t)'
    BY <1>2, <2>2, <2>4
  <2>. QED BY <2>1, <2>2, <2>3, <2>4, <2>5, <2>6, <2>7, HandOver
<1>7. CASE Delay(t)
  <2>1. /\ inHand[t] # <<>> /\ inHand' = [inHand EXCEPT ![t] = <<>>]
        /\ sqlQueue' = Append(sqlQueue, Head(inHand[t]))
        /\ UNCHANGED <<tran, issued, job, dead, log, conn, halt>>
    BY <1>7 DEF Delay, workerVars, dbVars, countVars, fateVars
  <2>2. Head(inHand[t]) = inHand[t][1]
    OBVIOUS
  <2>. QED BY <2>1, <2>2, Enqueued DEF Places
<1>8. CASE DirectExecute(t) \/ Update(t)
  <2>1. /\ UNCHANGED <<tran, inHand, sqlQueue, issued, dead, log, job, halt>>
        /\ conn' = conn \/ conn' = [conn EXCEPT !.direct = @ \cup {<<t, directs[t] + 1>>}]
    BY <1>8 DEF DirectExecute, Update, clientVars, workerVars, dbVars
  <2>2. conn'.log = conn.log
    BY <2>1 DEF TypeOK, DbTypes
  <2>3. Row(0)' = Row(0) /\ RowMarks(0)' = RowMarks(0)
    BY <2>1 DEF Row, RowMarks, TaskAt
  <2>. QED BY <2>1, <2>2, <2>3, LineStill
<1>9. CASE ExecuteSync(t)
  <2>. DEFINE w == <<t, issued[t] + 1>>
  <2>1. /\ halt = "down" /\ issued' = [issued EXCEPT ![t] = @ + 1]
        /\ UNCHANGED <<tran, inHand, sqlQueue, job, halt>> /\ Perform(w)
    BY <1>9 DEF ExecuteSync, clientVars, workerVars
  <2>2. wpc = "exit" /\ sqlQueue = <<>> /\ \A u \in Threads : inHand[u] = <<>>
    BY <2>1 DEF Places
  <2>3. job = NoTask
    BY <2>2 DEF TypeOK, WorkerTypes
  <2>4. w \in Writes
    BY <1>1 DEF Writes
  <2>5. Below(Visible, {w})
    BY <2>1, SyncBelow
  <2>6. \/ Visible' = Visible \cup {w} /\ dead' = dead
        \/ Visible' = Visible /\ dead' = dead \cup {w}
    <3>1. CASE Obeyed(w)
      BY <2>4, <2>5, <3>1, ObeyedDurable
    <3>2. CASE Refused(w)
      BY <3>2 DEF Refused, Visible
    <3>. QED BY <2>1, <3>1, <3>2 DEF Perform
  <2>. QED BY <2>1, <2>2, <2>3, <2>6, SentAtOnce
<1>. QED BY <1>3, <1>4, <1>5, <1>6, <1>7, <1>8, <1>9 DEF Client

\* The delay thread is done with its task.
LEMMA Finished ==
    ASSUME FinishJob
    PROVE  Row(0)' = {} /\ \A t \in Threads, n \in Nat : <<t, n>> \notin RowMarks(0)'
<1>1. TaskAt(0)' = NoTask
  BY DEF FinishJob, TaskAt
<1>2. Row(0)' = WritesIn(TaskAt(0)') /\ RowMarks(0)' = Marks(TaskAt(0)')
  BY DEF Row, RowMarks, WritesIn, Marks
<1>. QED BY <1>1, <1>2, NoTaskEmpty

\* What the line says of the task in progress.
LEMMA InProgress ==
    ASSUME TypeOK, Pipeline
    PROVE  /\ Row(0) = WritesIn(job) /\ RowMarks(0) = Marks(job) /\ Proper(job)
           /\ Below(Visible, Row(0)) /\ Row(0) \subseteq Writes /\ Visible \subseteq Writes
           /\ Visible \cap Row(0) = {} /\ dead \cap Visible = {} /\ dead \cap Row(0) = {}
<1>1. 0 \in Rows /\ Row(0) \subseteq Writes /\ Visible \subseteq Writes
  BY PlaceTypes DEF Rows
<1>2. TaskAt(0) = job
  BY DEF TaskAt
<1>3. Proper(job)
  BY <1>1, <1>2 DEF Pipeline, Tasks
<1>4. Below(Visible, Row(0)) /\ dead \cap Visible = {} /\ dead \cap Row(0) = {}
  BY <1>1 DEF Pipeline, Line, InLine, DeadApart
<1>5. Visible \cap Row(0) = {}
  BY <1>1, <1>4, BelowApart
<1>. QED BY <1>1, <1>2, <1>3, <1>4, <1>5 DEF Row, RowMarks

\* The delay thread sends the first write of its task.
LEMMA PerformLine ==
    ASSUME TypeOK, Pipeline, job \in Task, job.body # <<>>,
           UNCHANGED <<tran, inHand, sqlQueue, issued, halt>>,
           NEW w, w = <<job.by, Head(job.body)>>,
           NEW rest, rest = [job EXCEPT !.body = Tail(@)],
           Perform(w), Row(0)' = WritesIn(rest),
           \A t \in Threads, n \in Nat : <<t, n>> \in RowMarks(0)' => <<t, n>> \in Marks(rest)
    PROVE  /\ Line' /\ Durable'
           /\ w \in Writes /\ w \in Row(0) /\ Row(0) = Row(0)' \cup {w} /\ w \notin Row(0)'
           /\ Below({w}, Row(0)') /\ Below(Visible, {w})
<1>3. /\ Row(0) = WritesIn(job) /\ RowMarks(0) = Marks(job) /\ Sorted(job.body)
      /\ Below(Visible, Row(0)) /\ Row(0) \subseteq Writes /\ Visible \subseteq Writes
      /\ Visible \cap Row(0) = {} /\ dead \cap Visible = {} /\ dead \cap Row(0) = {}
  BY InProgress DEF Proper
<1>4. /\ w \in Writes /\ WritesIn(job) = WritesIn(rest) \cup {w}
      /\ Below({w}, WritesIn(rest))
      /\ \A t \in Threads, n \in Nat : <<t, n>> \in Marks(rest) => <<t, n>> \in Marks(job)
  BY <1>3, FirstWrite
<1>6. {w} \cap WritesIn(rest) = {}
  <2>1. {w} \subseteq Writes /\ Below({w}, WritesIn(rest))
    BY <1>4
  <2>. QED BY <2>1, BelowApart
<1>7. Row(0) = Row(0)' \cup {w} /\ w \notin Row(0)' /\ Below({w}, Row(0)')
  BY <1>3, <1>4, <1>6
<1>8. Below(Visible, {w})
  BY <1>3, <1>4 DEF Below
<1>. HIDE DEF Perform
<1>11. /\ halt' = "down" <=> halt = "down"
       /\ Row(0)' \subseteq Row(0)
       /\ \A t \in Threads, n \in Nat : <<t, n>> \in RowMarks(0)' => <<t, n>> \in RowMarks(0)
  <2>1. \A t \in Threads, n \in Nat : <<t, n>> \in RowMarks(0)' => <<t, n>> \in Marks(job)
    BY <1>4
  <2>. QED BY <1>3, <1>7, <2>1
<1>12. ASSUME \/ Visible' = Visible /\ dead' = dead \cup {w}
              \/ Visible' = Visible \cup {w} /\ dead' = dead
       PROVE  Line'
  <2>1. /\ Visible' \subseteq Visible \cup Row(0)
        /\ dead' \subseteq dead \cup Visible \cup Row(0)
        /\ Visible \cup dead \cup Row(0) \subseteq Visible' \cup dead' \cup Row(0)'
    BY <1>7, <1>12
  <2>2. Below(Visible', Row(0)')
    BY <1>3, <1>7, <1>12 DEF Below
  <2>3. dead' \cap Visible' = {} /\ dead' \cap Row(0)' = {}
    BY <1>3, <1>7, <1>12
  <2>. QED BY <1>11, <2>1, <2>2, <2>3, WorkerAdvances DEF Pipeline
<1>9. CASE Refused(w)
  <2>1. Visible' = Visible /\ dead' = dead \cup {w} /\ conn' = conn /\ log' = log
    BY <1>9 DEF Visible, Refused
  <2>2. Line'
    BY <1>12, <2>1
  <2>. QED BY <1>4, <1>7, <1>8, <2>1, <2>2 DEF Pipeline, Durable
<1>10. CASE Obeyed(w)
  <2>1. Visible' = Visible \cup {w} /\ Durable' /\ dead' = dead
    BY <1>4, <1>8, <1>10, ObeyedDurable DEF Pipeline
  <2>2. Line'
    BY <1>12, <2>1
  <2>. QED BY <1>4, <1>7, <1>8, <2>1, <2>2
<1>. QED BY <1>9, <1>10 DEF Perform

\* One statement of a transaction.
LEMMA StatementLine ==
    ASSUME TypeOK, Pipeline, TransactionStatement, NEW w, w = <<job.by, Head(job.body)>>
    PROVE  /\ Line' /\ Durable' /\ Perform(w)
           /\ w \in Writes /\ w \in Row(0) /\ Row(0) = Row(0)' \cup {w} /\ w \notin Row(0)'
           /\ Below({w}, Row(0)') /\ Below(Visible, {w})
<1>. DEFINE rest == [job EXCEPT !.body = Tail(@)]
<1>1. /\ job' = rest /\ job \in Task /\ job.body # <<>> /\ Perform(w)
      /\ UNCHANGED <<tran, inHand, sqlQueue, issued, halt>>
  BY DEF TransactionStatement, Perform, clientVars, countVars, TypeOK, WorkerTypes
<1>2. Row(0)' = WritesIn(rest) /\ RowMarks(0)' = Marks(rest)
  <2>1. TaskAt(0)' = rest
    BY <1>1 DEF TaskAt
  <2>2. Row(0)' = WritesIn(TaskAt(0)') /\ RowMarks(0)' = Marks(TaskAt(0)')
    BY DEF Row, RowMarks, WritesIn, Marks
  <2>. QED BY <2>1, <2>2
<1>. HIDE DEF rest
<1>3. rest = [job EXCEPT !.body = Tail(@)]
  BY DEF rest
<1>. QED BY <1>1, <1>2, <1>3, PerformLine

\* A statement outside transactions.
LEMMA SingleLine ==
    ASSUME TypeOK, Pipeline, StatementExecute, NEW w, w = <<job.by, Head(job.body)>>
    PROVE  /\ Line' /\ Durable' /\ Perform(w) /\ Row(0)' = {} /\ Row(0) = {w}
           /\ w \in Writes /\ Below(Visible, {w})
<1>. DEFINE rest == [job EXCEPT !.body = Tail(@)]
<1>1. /\ UNCHANGED <<tran, inHand, sqlQueue, issued, halt>> /\ FinishJob
      /\ job \in Task /\ job.kind = "write" /\ Perform(w)
  BY DEF StatementExecute, clientVars, countVars, TypeOK, WorkerTypes
<1>2. Row(0)' = {} /\ \A t \in Threads, n \in Nat : <<t, n>> \notin RowMarks(0)'
  BY <1>1, Finished
<1>3. job.body # <<>> /\ Len(job.body) = 1 /\ job.body \in Seq(Nat)
  BY <1>1, TaskProgress DEF Task
<1>4. WritesIn(rest) = {}
  <2>1. DOMAIN Tail(job.body) = {}
    <3>1. ASSUME NEW b \in Seq(Nat), b # <<>>
          PROVE  DOMAIN Tail(b) = 1 .. Len(b) - 1
      BY <3>1
    <3>2. DOMAIN Tail(job.body) = 1 .. Len(job.body) - 1
      BY <1>3, <3>1
    <3>. QED BY <1>3, <3>2
  <2>2. DOMAIN rest.body = {}
    BY <1>1, <2>1 DEF Task
  <2>. QED BY <2>2 DEF WritesIn
<1>. HIDE DEF rest
<1>5. rest = [job EXCEPT !.body = Tail(@)]
  BY DEF rest
<1>. QED BY <1>1, <1>2, <1>3, <1>4, <1>5, PerformLine

\* The end of a transaction.
LEMMA EndLine ==
    ASSUME TypeOK, Pipeline, TransactionRollback \/ TransactionCommit
    PROVE  Line' /\ Durable' /\ Row(0)' = {}
<1>1. UNCHANGED <<tran, inHand, sqlQueue, issued, halt>> /\ FinishJob
  BY DEF TransactionRollback, TransactionCommit, clientVars, countVars
<1>2. Row(0)' = {} /\ \A t \in Threads, n \in Nat : <<t, n>> \notin RowMarks(0)'
  BY <1>1, Finished
<1>3. /\ Row(0) = WritesIn(job) /\ Visible \cap Row(0) = {} /\ dead \cap Visible = {}
      /\ dead \cap Row(0) = {} /\ Visible \subseteq Writes
  BY InProgress
<1>4. Below(Visible', {}) /\ Below(Range(log'), {})
  BY DEF Below
<1>5. CASE /\ conn' = NoServerTran /\ log' = log
           /\ dead' = dead \cup Range(conn.log) \cup WritesIn(job)
  <2>1. conn'.log = <<>> /\ Range(conn'.log) = {} /\ LogSorted(conn'.log)
    BY <1>5 DEF NoServerTran, Range, LogSorted
  <2>2. Visible' = Range(log) /\ Durable'
    BY <1>4, <1>5, <2>1 DEF Visible, Durable, Pipeline
  <2>3. Range(log) \cap Range(conn.log) = {}
    <3>1. Range(log) \subseteq Writes /\ Below(Range(log), Range(conn.log))
      BY <1>3 DEF Visible, Pipeline, Durable
    <3>. QED BY <3>1, BelowApart
  <2>4. dead' \cap Visible' = {}
    BY <1>3, <1>5, <2>2, <2>3 DEF Visible
  <2>5. /\ Visible' \subseteq Visible /\ dead' \subseteq dead \cup Visible \cup Row(0)
        /\ Visible \cup dead \cup Row(0) \subseteq Visible' \cup dead'
    BY <1>3, <1>5, <2>2 DEF Visible
  <2>6. Line'
    BY <1>1, <1>2, <1>4, <2>4, <2>5, WorkerAdvances DEF Pipeline
  <2>. QED BY <1>2, <2>2, <2>6
<1>6. CASE UNCHANGED <<conn, log>> /\ dead' = dead \cup WritesIn(job)
  <2>1. Visible' = Visible /\ Durable'
    BY <1>6 DEF Visible, Pipeline, Durable
  <2>2. Line'
    BY <1>1, <1>2, <1>3, <1>4, <1>6, <2>1, WorkerAdvances DEF Pipeline
  <2>. QED BY <1>2, <2>1, <2>2
<1>7. CASE TransactionCommit
  <2>1. Row(0) = {} /\ dead' = dead
    BY <1>3, <1>7 DEF WritesIn, TransactionCommit
  <2>2. CASE UNCHANGED <<conn, log>>
    BY <1>3, <1>6, <2>1, <2>2
  <2>3. CASE conn' = NoServerTran /\ log' = log \o conn.log
    <3>1. conn'.log = <<>>
      BY <2>3 DEF NoServerTran
    <3>2. Visible' = Visible /\ Durable'
      BY <2>3, <3>1, Committed DEF Pipeline
    <3>3. Line'
      BY <1>1, <1>2, <1>3, <1>4, <2>1, <3>2, WorkerAdvances DEF Pipeline
    <3>. QED BY <1>2, <3>2, <3>3
  <2>. QED BY <1>7, <2>2, <2>3 DEF TransactionCommit
<1>8. CASE TransactionRollback
  BY <1>5, <1>6, <1>8 DEF TransactionRollback
<1>. QED BY <1>7, <1>8

\* Steps of the delay thread that send no write.
LEMMA QuietSteps ==
    ASSUME TypeOK, Pipeline, WorkerLoop \/ TransactionStart \/ QueryRead \/ QueryAnswer
    PROVE  /\ Row(0)' = Row(0)
           /\ \A t \in Threads, n \in Nat : <<t, n>> \in RowMarks(0)' => <<t, n>> \in RowMarks(0)
           /\ UNCHANGED <<inHand, sqlQueue, dead, committed>>
           /\ ~Busy /\ wpc' # "abort"
<1>1. /\ UNCHANGED <<inHand, sqlQueue, dead, committed>>
      /\ ~Busy /\ wpc' # "abort"
  BY DEF WorkerLoop, TransactionStart, QueryRead, QueryAnswer, FinishJob, clientVars, dbVars,
         countVars, fateVars, Busy
<1>3. Row(0) = WritesIn(job) /\ RowMarks(0) = Marks(job) /\ Proper(job)
  BY InProgress
<1>4. CASE job' = job
  BY <1>1, <1>4 DEF Row, RowMarks, TaskAt
<1>5. CASE FinishJob /\ job.body = <<>>
  <2>1. Row(0)' = {} /\ \A t \in Threads, n \in Nat : <<t, n>> \notin RowMarks(0)'
    BY <1>5, Finished
  <2>2. Row(0) = {}
    BY <1>3, <1>5 DEF WritesIn
  <2>. QED BY <1>1, <2>1, <2>2
<1>6. CASE QueryRead
  <2>1. job \in Task /\ job' = [job EXCEPT !.reads = @ - 1]
    BY <1>6 DEF QueryRead, TypeOK, WorkerTypes
  <2>2. job'.by = job.by /\ job'.body = job.body /\ job'.upTo = job.upTo
    BY <2>1 DEF Task
  <2>3. TaskAt(0)' = job' /\ WritesIn(job') = WritesIn(job) /\ Marks(job') = Marks(job)
    BY <2>2 DEF TaskAt, WritesIn, Marks
  <2>4. Row(0)' = WritesIn(TaskAt(0)') /\ RowMarks(0)' = Marks(TaskAt(0)')
    BY DEF Row, RowMarks, WritesIn, Marks
  <2>. QED BY <1>1, <1>3, <2>3, <2>4
<1>7. job' = job \/ (FinishJob /\ job.body = <<>>) \/ QueryRead
  BY <1>3 DEF WorkerLoop, TransactionStart, QueryAnswer, Proper
<1>. QED BY <1>4, <1>5, <1>6, <1>7

\* What becomes of the connection when a transaction is about to start.
LEMMA StartCases ==
    ASSUME TypeOK, TransactionStart
    PROVE  /\ job.kind = "trans" /\ wpc = "call" /\ job \in Task /\ dead' = dead /\ fell' = fell
           /\ \/ /\ job.body = <<>> /\ wpc' = "loop" /\ UNCHANGED <<conn, log, direct, exposed>>
              \/ /\ job.body # <<>> /\ wpc' = "body" /\ job' = job
                 /\ \/ /\ conn'.inTran /\ conn'.tran = WritesIn(job)
                       /\ conn'.log = <<>> /\ log' = log \o conn.log
                       /\ conn'.direct = {} /\ direct' = direct \cup conn.direct
                       /\ exposed' = exposed
                    \/ /\ conn.inTran /\ conn'.inTran /\ conn'.tran = WritesIn(job)
                       /\ conn'.log = conn.log /\ log' = log
                       /\ conn'.direct = conn.direct /\ direct' = direct
                       /\ exposed' = exposed
                    \/ /\ ~conn.inTran /\ conn' = conn /\ log' = log /\ direct' = direct
                       /\ exposed' = exposed \cup {WritesIn(job)}
<1>1. conn \in [inTran : BOOLEAN, log : Seq(Writes), direct : SUBSET Writes,
                tran : SUBSET Writes]
  BY DEF TypeOK, DbTypes
<1>2. ASSUME conn' = [NoServerTran EXCEPT !.inTran = TRUE, !.tran = WritesIn(job)]
      PROVE  conn'.inTran /\ conn'.tran = WritesIn(job) /\ conn'.log = <<>> /\ conn'.direct = {}
  BY <1>2 DEF NoServerTran
<1>3. ASSUME conn' = [conn EXCEPT !.tran = WritesIn(job)]
      PROVE  /\ conn'.inTran = conn.inTran /\ conn'.tran = WritesIn(job)
             /\ conn'.log = conn.log /\ conn'.direct = conn.direct
  BY <1>1, <1>3
<1>4. job \in Task
  BY DEF TransactionStart, TypeOK, WorkerTypes
<1>. QED BY <1>2, <1>3, <1>4 DEF TransactionStart, FinishJob

\* The other steps of the delay thread.
LEMMA WorkerLine ==
    ASSUME TypeOK, Pipeline, Worker
    PROVE  Line' /\ Durable'
<1>1. CASE WorkerLoop \/ TransactionStart \/ QueryRead \/ QueryAnswer
  <2>1. UNCHANGED <<tran, inHand, sqlQueue, issued, dead, halt>>
    BY <1>1 DEF WorkerLoop, TransactionStart, QueryRead, QueryAnswer, clientVars, dbVars,
                countVars
  <2>2. \/ log' = log /\ conn'.log = conn.log
        \/ log' = log \o conn.log /\ conn'.log = <<>>
    <3>1. CASE TransactionStart
      BY <3>1, StartCases
    <3>2. CASE WorkerLoop \/ QueryRead \/ QueryAnswer
      BY <3>2 DEF WorkerLoop, QueryRead, QueryAnswer, dbVars
    <3>. QED BY <1>1, <3>1, <3>2
  <2>3. Visible' = Visible /\ Durable'
    <3>1. CASE log' = log /\ conn'.log = conn.log
      BY <3>1 DEF Visible, Pipeline, Durable
    <3>2. CASE log' = log \o conn.log /\ conn'.log = <<>>
      BY <3>2, Committed DEF Pipeline
    <3>. QED BY <2>2, <3>1, <3>2
  <2>. QED BY <1>1, <2>1, <2>3, QuietSteps, LineSeen DEF Pipeline
<1>2. CASE WorkerDequeue
  <2>1. UNCHANGED <<tran, inHand, issued, dead, log, conn, halt>>
    BY <1>2 DEF WorkerDequeue, clientVars, dbVars, countVars
  <2>2. job = NoTask
    BY <1>2 DEF WorkerDequeue, TypeOK, WorkerTypes
  <2>3. CASE sqlQueue # <<>> /\ job' = Head(sqlQueue) /\ sqlQueue' = Tail(sqlQueue)
    BY <2>1, <2>2, <2>3, Dequeued DEF Pipeline, Durable
  <2>4. CASE UNCHANGED <<job, sqlQueue>>
    <3>1. Row(0)' = Row(0) /\ RowMarks(0)' = RowMarks(0)
      BY <2>4 DEF Row, RowMarks, TaskAt
    <3>. QED BY <2>1, <2>4, <3>1, LineStill DEF Pipeline, Durable
  <2>. QED BY <1>2, <2>3, <2>4 DEF WorkerDequeue
<1>. QED BY <1>1, <1>2, StatementLine, EndLine, SingleLine DEF Worker

\* Every step keeps the line, and the order in which the connection commits.
LEMMA NextLine ==
    ASSUME TypeOK, TypeOK', Pipeline, [Next]_vars
    PROVE  Line' /\ Durable'
<1>1. ASSUME NEW t \in Threads, Client(t) PROVE Line' /\ Durable'
  <2>1. Line'
    BY <1>1, ClientLine
  <2>2. CASE ExecuteSync(t)
    <3>. DEFINE w == <<t, issued[t] + 1>>
    <3>1. halt = "down" /\ Perform(w) /\ w \in Writes
      BY <2>2 DEF ExecuteSync, TypeOK, CountTypes, Writes
    <3>2. Below(Visible, {w})
      BY <3>1, SyncBelow DEF Pipeline
    <3>3. CASE Obeyed(w)
      BY <2>1, <3>1, <3>2, <3>3, ObeyedDurable DEF Pipeline
    <3>4. CASE Refused(w)
      BY <2>1, <3>4 DEF Refused, Pipeline, Durable
    <3>. QED BY <3>1, <3>3, <3>4 DEF Perform
  <2>3. CASE ~ExecuteSync(t)
    <3>1. log' = log
      BY <1>1, <2>3 DEF Client, BeginTransaction, RollbackTransaction, CommitTransaction,
         Execute, AsyncQuery, Delay, DirectExecute, Update, dbVars
    <3>2. conn' = conn \/ conn' = [conn EXCEPT !.direct = @ \cup {<<t, directs[t] + 1>>}]
      BY <1>1, <2>3 DEF Client, BeginTransaction, RollbackTransaction, CommitTransaction,
         Execute, AsyncQuery, Delay, DirectExecute, Update, dbVars
    <3>3. conn'.log = conn.log
      BY <3>2 DEF TypeOK, DbTypes
    <3>. QED BY <2>1, <3>1, <3>3 DEF Pipeline, Durable
  <2>. QED BY <2>2, <2>3
<1>2. CASE Worker
  BY <1>2, WorkerLine
<1>3. CASE StopRunning \/ Deactivate \/ Terminated \/ UNCHANGED vars
  <2>1. /\ UNCHANGED <<tran, inHand, sqlQueue, issued, dead, log, job, conn>>
        /\ halt' = "down" <=> halt = "down"
    BY <1>3 DEF StopRunning, Deactivate, Terminated, vars, clientVars, workerVars, dbVars,
                countVars, fateVars
  <2>2. Row(0)' = Row(0) /\ RowMarks(0)' = RowMarks(0)
    BY <2>1 DEF Row, RowMarks, TaskAt
  <2>. QED BY <2>1, <2>2, LineStill DEF Pipeline, Durable
<1>4. CASE Joined
  <2>1. /\ halt' = "down" /\ sqlQueue' = <<>>
        /\ UNCHANGED <<tran, inHand, issued, job, dead, log, conn>>
    BY <1>4 DEF Joined, clientVars, workerVars, dbVars, countVars, fateVars
  <2>. QED BY <2>1, QueueDropped DEF Pipeline, Durable
<1>. QED BY <1>1, <1>2, <1>3, <1>4 DEF Next, HaltDelayThread

\* Where the threads are, after every step.
LEMMA NextPlaces == ASSUME TypeOK, Pipeline, [Next]_vars PROVE Places'
<1>. USE DEF Pipeline, Places
<1>1. ASSUME NEW t \in Threads, Client(t) PROVE Places'
  <2>1. /\ tran \in [Threads -> [open : BOOLEAN, body : Seq(Nat)]]
        /\ inHand \in [Threads -> Seq(Task)]
    BY DEF TypeOK, ClientTypes
  <2>2. CASE DirectExecute(t) \/ Update(t) \/ ExecuteSync(t)
    <3>1. UNCHANGED <<tran, inHand, sqlQueue, wpc, halt>>
      BY <2>2 DEF DirectExecute, Update, ExecuteSync, clientVars, workerVars
    <3>. QED BY <3>1 DEF InHand
  <2>3. CASE BeginTransaction(t) \/ RollbackTransaction(t)
    <3>1. /\ UNCHANGED <<inHand, sqlQueue, wpc, halt, conn>>
          /\ \E b \in BOOLEAN : tran' = [tran EXCEPT ![t] = [open |-> b, body |-> <<>>]]
      BY <2>3 DEF BeginTransaction, RollbackTransaction, workerVars, dbVars, NoTran
    <3>2. \A u \in Threads : ~tran'[u].open => tran'[u].body = <<>>
      BY <2>1, <3>1
    <3>. QED BY <3>1, <3>2 DEF InHand
  <2>4. CASE CommitTransaction(t) \/ Execute(t) \/ AsyncQuery(t)
    <3>1. /\ halt = "up" /\ UNCHANGED <<sqlQueue, wpc, halt, conn>>
      BY <2>4 DEF CommitTransaction, Execute, AsyncQuery, FreeAndUnlocked, Free, workerVars,
                  dbVars
    <3>2. \/ inHand' = inHand
          \/ \E task : task.by = t /\ inHand' = [inHand EXCEPT ![t] = <<task>>]
      BY <2>4 DEF CommitTransaction, Execute, AsyncQuery, DelayLocked, SqlTransaction,
                  SqlStatement, SqlQuery, SqlAsyncTask
    <3>3. \A u \in Threads : inHand'[u] # <<>> => InHand(u)'.by = u
      BY <2>1, <3>2 DEF InHand
    <3>4. \A u \in Threads : ~tran'[u].open => tran'[u].body = <<>>
      <4>1. CASE CommitTransaction(t)
        BY <2>1, <4>1 DEF CommitTransaction, NoTran
      <4>2. CASE Execute(t)
        <5>1. \/ tran' = tran
              \/ /\ tran[t].open
                 /\ tran' = [tran EXCEPT ![t].body = Append(@, issued[t] + 1)]
          BY <4>2 DEF Execute
        <5>2. ASSUME tran[t].open, tran' = [tran EXCEPT ![t].body = Append(@, issued[t] + 1)]
              PROVE  tran'[t].open /\ \A u \in Threads : u # t => tran'[u] = tran[u]
          BY <2>1, <5>2
        <5>. QED BY <5>1, <5>2
      <4>3. CASE AsyncQuery(t)
        BY <4>3 DEF AsyncQuery
      <4>. QED BY <2>4, <4>1, <4>2, <4>3
    <3>. QED BY <3>1, <3>3, <3>4
  <2>5. CASE Delay(t)
    <3>1. /\ UNCHANGED <<tran, wpc, halt, conn>> /\ inHand' = [inHand EXCEPT ![t] = <<>>]
          /\ inHand[t] # <<>>
      BY <2>5 DEF Delay, workerVars, dbVars
    <3>2. \A u \in Threads : inHand'[u] # <<>> => InHand(u)'.by = u
      BY <2>1, <3>1 DEF InHand
    <3>3. halt = "up"
      BY <3>1
    <3>. QED BY <3>1, <3>2, <3>3
  <2>. QED BY <1>1, <2>2, <2>3, <2>4, <2>5 DEF Client
<1>2. CASE Worker
  <2>1. UNCHANGED <<tran, inHand, halt>> /\ \A u \in Threads : InHand(u)' = InHand(u)
    BY <1>2 DEF Worker, WorkerLoop, WorkerDequeue, StatementExecute, TransactionStart,
       TransactionStatement, TransactionRollback, TransactionCommit, QueryRead, QueryAnswer,
       clientVars, InHand
  <2>2. wpc # "exit"
    BY <1>2 DEF Worker, WorkerLoop, WorkerDequeue, StatementExecute, TransactionStart,
       TransactionStatement, TransactionRollback, TransactionCommit, QueryRead, QueryAnswer
  <2>3. halt # "down"
    BY <2>2
  <2>. QED BY <2>1, <2>3
<1>3. CASE HaltDelayThread
  <2>1. /\ UNCHANGED <<tran, inHand, wpc, conn>>
        /\ \A u \in Threads : InHand(u)' = InHand(u)
    BY <1>3 DEF HaltDelayThread, StopRunning, Deactivate, Joined, clientVars, workerVars,
                dbVars, InHand
  <2>2. (halt' # "up" => \A u \in Threads : inHand[u] = <<>>)
        /\ (halt' = "down" => wpc = "exit" /\ sqlQueue' = <<>>)
    BY <1>3 DEF HaltDelayThread, StopRunning, Deactivate, Joined
  <2>. QED BY <2>1, <2>2
<1>4. CASE Terminated \/ UNCHANGED vars
  BY <1>4 DEF Terminated, vars, clientVars, workerVars, dbVars, InHand
<1>. QED BY <1>1, <1>2, <1>3, <1>4 DEF Next

\* The open transaction of a thread has its writes in the order of the calls.
LEMMA OpenSorted ==
    ASSUME TypeOK, OpenLast, halt # "down", NEW t \in Threads PROVE Sorted(tran[t].body)
<1>1. tran[t].body \in Seq(Nat) /\ Sent(t) \in Nat
  BY SentNat DEF SentTypes, TypeOK, ClientTypes
<1>2. \A i \in DOMAIN tran[t].body : tran[t].body[i] = Sent(t) + i /\ i \in Nat
  BY <1>1 DEF OpenLast
<1>. QED BY <1>1, <1>2 DEF Sorted

\* The tasks, after every step.
LEMMA NextTasks == ASSUME TypeOK, TypeOK', Pipeline, [Next]_vars PROVE Tasks'
<1>. USE DEF Pipeline
<1>1. /\ inHand \in [Threads -> Seq(Task)] /\ sqlQueue \in Seq(Task) /\ Len(sqlQueue) \in Nat
      /\ 0 \in Rows /\ Proper(job) /\ \A i \in 1 .. Len(sqlQueue) : Proper(sqlQueue[i])
  <2>1. inHand \in [Threads -> Seq(Task)] /\ sqlQueue \in Seq(Task)
    BY DEF TypeOK, ClientTypes, QueueTypes
  <2>2. \A i \in 1 .. Len(sqlQueue) : i \in Rows /\ TaskAt(i) = sqlQueue[i]
    BY <2>1 DEF Rows, TaskAt
  <2>3. 0 \in Rows /\ TaskAt(0) = job
    BY <2>1 DEF Rows, TaskAt
  <2>. QED BY <2>1, <2>2, <2>3 DEF Tasks
<1>2. ASSUME Proper(job'), \A i \in 1 .. Len(sqlQueue') : Proper(sqlQueue'[i]),
             \A u \in Threads : Proper(InHand(u)')
      PROVE  Tasks'
  <2>1. sqlQueue' \in Seq(Task)
    BY DEF TypeOK, QueueTypes
  <2>2. ASSUME NEW i \in Rows' PROVE Proper(TaskAt(i))'
    <3>1. CASE i = 0
      <4>1. TaskAt(i)' = job'
        BY <3>1 DEF TaskAt
      <4>. QED BY <1>2, <4>1 DEF Proper, Sorted
    <3>2. CASE i # 0
      <4>1. i \in 1 .. Len(sqlQueue') /\ TaskAt(i)' = sqlQueue'[i]
        BY <2>1, <3>2 DEF Rows, TaskAt
      <4>. QED BY <1>2, <4>1 DEF Proper, Sorted
    <3>. QED BY <3>1, <3>2
  <2>3. ASSUME NEW u \in Threads PROVE Proper(InHand(u))'
    BY <1>2 DEF Proper, Sorted
  <2>. QED BY <2>2, <2>3 DEF Tasks
<1>3. ASSUME NEW t \in Threads, Client(t) PROVE Tasks'
  <2>0. job' = job
    BY <1>3 DEF Client, BeginTransaction, RollbackTransaction, CommitTransaction,
       Execute, AsyncQuery, Delay, DirectExecute, Update, ExecuteSync, workerVars
  <2>1. CASE Delay(t)
    <3>1. /\ inHand[t] # <<>> /\ inHand' = [inHand EXCEPT ![t] = <<>>]
          /\ sqlQueue' = Append(sqlQueue, inHand[t][1])
      BY <2>1 DEF Delay
    <3>2. inHand[t][1] = InHand(t) /\ Proper(InHand(t)) /\ inHand[t][1] \in Task
      BY <1>1, <3>1 DEF InHand, Tasks
    <3>3. \A i \in 1 .. Len(sqlQueue') : Proper(sqlQueue'[i])
      <4>1. Len(sqlQueue') = Len(sqlQueue) + 1
        BY <1>1, <3>1, <3>2
      <4>2. \A i \in 1 .. Len(sqlQueue') :
                sqlQueue'[i] = IF i = Len(sqlQueue) + 1 THEN inHand[t][1] ELSE sqlQueue[i]
        BY <1>1, <3>1, <3>2
      <4>3. \A i \in 1 .. Len(sqlQueue') : i = Len(sqlQueue) + 1 \/ i \in 1 .. Len(sqlQueue)
        BY <1>1, <4>1
      <4>. QED BY <1>1, <3>2, <4>2, <4>3
    <3>4. \A u \in Threads : InHand(u)' = IF u = t THEN NoTask ELSE InHand(u)
      BY <1>1, <3>1 DEF InHand
    <3>. QED BY <1>1, <1>2, <2>0, <3>3, <3>4, NoTaskEmpty DEF Tasks
  <2>2. CASE ~Delay(t)
    <3>1. sqlQueue' = sqlQueue
      BY <1>3, <2>2 DEF Client, BeginTransaction, RollbackTransaction, CommitTransaction,
         Execute, AsyncQuery, DirectExecute, Update, ExecuteSync
    <3>2. \/ inHand' = inHand
          \/ /\ inHand' = [inHand EXCEPT ![t] = <<SqlTransaction(t, tran[t].body)>>]
             /\ halt = "up"
          \/ inHand' = [inHand EXCEPT ![t] = <<SqlStatement(t, issued[t] + 1)>>]
          \/ \E k, n : inHand' = [inHand EXCEPT ![t] = <<SqlQuery(t, k, n)>>]
      BY <1>3, <2>2 DEF Client, BeginTransaction, RollbackTransaction, CommitTransaction,
         Execute, AsyncQuery, DirectExecute, Update, ExecuteSync, clientVars, DelayLocked,
         FreeAndUnlocked, Free
    <3>3. halt = "up" => Proper(SqlTransaction(t, tran[t].body))
      BY OpenSorted DEF SqlTransaction, SqlAsyncTask, Proper, Line
    <3>4. Proper(SqlStatement(t, issued[t] + 1))
      BY DEF SqlStatement, SqlAsyncTask, Proper, Sorted
    <3>5. \A k, n : Proper(SqlQuery(t, k, n))
      BY DEF SqlQuery, SqlAsyncTask, Proper, Sorted
    <3>6. \/ \A u \in Threads : InHand(u)' = InHand(u)
          \/ \E task : Proper(task) /\ inHand' = [inHand EXCEPT ![t] = <<task>>]
      BY <3>2, <3>3, <3>4, <3>5 DEF InHand
    <3>7. \A u \in Threads : Proper(InHand(u)')
      <4>1. ASSUME NEW task, Proper(task), inHand' = [inHand EXCEPT ![t] = <<task>>],
                   NEW u \in Threads
            PROVE  Proper(InHand(u)')
        <5>1. InHand(u)' = IF u = t THEN task ELSE InHand(u)
          BY <1>1, <4>1 DEF InHand
        <5>. QED BY <4>1, <5>1 DEF Tasks
      <4>. QED BY <3>6, <4>1 DEF Tasks
    <3>. QED BY <1>1, <1>2, <2>0, <3>1, <3>7
  <2>. QED BY <2>1, <2>2
<1>4. CASE Worker
  <2>1. \A u \in Threads : InHand(u)' = InHand(u)
    BY <1>4 DEF Worker, WorkerLoop, WorkerDequeue, StatementExecute, TransactionStart,
       TransactionStatement, TransactionRollback, TransactionCommit, QueryRead, QueryAnswer,
       clientVars, InHand
  <2>2. CASE WorkerDequeue /\ activated
    <3>1. sqlQueue # <<>> /\ job' = Head(sqlQueue) /\ sqlQueue' = Tail(sqlQueue)
      BY <2>2 DEF WorkerDequeue
    <3>2. /\ Len(sqlQueue) >= 1 /\ job' = sqlQueue[1] /\ Len(sqlQueue') = Len(sqlQueue) - 1
          /\ \A i \in 1 .. Len(sqlQueue) - 1 : sqlQueue'[i] = sqlQueue[i + 1]
      BY <1>1, <3>1
    <3>3. \A i \in 1 .. Len(sqlQueue') : Proper(sqlQueue'[i])
      BY <1>1, <3>2
    <3>4. Proper(job')
      BY <1>1, <3>2
    <3>. QED BY <1>2, <2>1, <3>3, <3>4 DEF Tasks
  <2>3. CASE ~(WorkerDequeue /\ activated)
    <3>1. sqlQueue' = sqlQueue
      BY <1>4, <2>3 DEF Worker, WorkerLoop, WorkerDequeue, StatementExecute,
         TransactionStart, TransactionStatement, TransactionRollback, TransactionCommit,
         QueryRead, QueryAnswer
    <3>2. \/ job' = job \/ job' = NoTask
          \/ /\ job \in Task /\ job.body # <<>> /\ job.kind = "trans"
             /\ job' = [job EXCEPT !.body = Tail(@)]
          \/ job \in Task /\ job' = [job EXCEPT !.reads = @ - 1]
      BY <1>4, <2>3 DEF Worker, WorkerLoop, WorkerDequeue, StatementExecute,
         TransactionStart, TransactionStatement, TransactionRollback, TransactionCommit,
         QueryRead, QueryAnswer, FinishJob, TypeOK, WorkerTypes
    <3>3. ASSUME job \in Task, job.body # <<>>, job.kind = "trans",
                 job' = [job EXCEPT !.body = Tail(@)]
          PROVE  Proper(job')
      BY <1>1, <3>3, FirstWrite DEF Proper
    <3>4. ASSUME job \in Task, job' = [job EXCEPT !.reads = @ - 1] PROVE Proper(job')
      <4>1. job'.body = job.body /\ job'.kind = job.kind
        BY <3>4 DEF Task
      <4>. QED BY <1>1, <4>1 DEF Proper
    <3>5. Proper(job')
      BY <1>1, <3>2, <3>3, <3>4, NoTaskEmpty
    <3>. QED BY <1>1, <1>2, <2>1, <3>1, <3>5 DEF Tasks
  <2>. QED BY <2>2, <2>3
<1>5. CASE HaltDelayThread \/ Terminated \/ UNCHANGED vars
  <2>1. /\ job' = job /\ \A u \in Threads : InHand(u)' = InHand(u)
        /\ sqlQueue' = sqlQueue \/ sqlQueue' = <<>>
    BY <1>5 DEF HaltDelayThread, StopRunning, Deactivate, Joined, Terminated, vars,
       clientVars, workerVars, InHand
  <2>2. \A i \in 1 .. Len(sqlQueue') : Proper(sqlQueue'[i])
    BY <1>1, <2>1
  <2>. QED BY <1>1, <1>2, <2>1, <2>2 DEF Tasks
<1>. QED BY <1>3, <1>4, <1>5 DEF Next

\* The line, at every moment.
LEMMA PipelineAlways == Spec => [](TypeOK /\ Pipeline)
<1>1. Init => TypeOK /\ Pipeline
  <2>. SUFFICES ASSUME Init PROVE TypeOK /\ Pipeline
    OBVIOUS
  <2>1. TypeOK
    BY SqlConstants DEF Init, TypeOK, ClientTypes, QueueTypes, WorkerTypes, DbTypes,
       CountTypes, OpenCounted, NoTran, NoServerTran, Writes
  <2>2. /\ Range(log) = {} /\ Range(conn.log) = {} /\ Visible = {} /\ dead = {}
    BY DEF Init, Range, Visible, NoServerTran
  <2>3. Rows = {0} /\ TaskAt(0) = NoTask /\ \A t \in Threads : InHand(t) = NoTask
    <3>1. Len(sqlQueue) = 0
      BY DEF Init
    <3>. QED BY <3>1 DEF Init, Rows, TaskAt, InHand
  <2>4. /\ Row(0) = {} /\ \A t \in Threads : Hand(t) = {}
        /\ \A t \in Threads, n \in Nat : <<t, n>> \notin RowMarks(0)
        /\ \A t, u \in Threads, n \in Nat : <<t, n>> \notin HandMarks(u)
    BY <2>3, NoTaskEmpty DEF Row, RowMarks, Hand, HandMarks
  <2>5. \A t \in Threads : Sent(t) = 0 /\ tran[t].body = <<>>
    <3>1. \A t \in Threads : tran[t].body = <<>> /\ issued[t] = 0 /\ halt = "up"
      BY DEF Init, NoTran
    <3>2. Len(<<>>) = 0
      OBVIOUS
    <3>. QED BY <3>1, <3>2 DEF Sent
  <2>6. Places
    BY <2>5 DEF Init, Places
  <2>7. Tasks
    BY <2>3, NoTaskEmpty DEF Tasks
  <2>8. Durable
    BY <2>2 DEF Init, Durable, LogSorted, Below, NoServerTran
  <2>9. OpenLast /\ Covered
    BY <2>5 DEF OpenLast, Covered
  <2>10. AllSent /\ InLine /\ DeadApart
    BY <2>2, <2>3, <2>4 DEF AllSent, InLine, DeadApart, Numbered, MarksSent, Below
  <2>. QED BY <2>1, <2>6, <2>7, <2>8, <2>9, <2>10 DEF Pipeline, Line
<1>2. TypeOK /\ Pipeline /\ [Next]_vars => (TypeOK /\ Pipeline)'
  <2>. SUFFICES ASSUME TypeOK, Pipeline, [Next]_vars PROVE (TypeOK /\ Pipeline)'
    OBVIOUS
  <2>1. TypeOK'
    BY TypeStep
  <2>2. Line' /\ Durable'
    BY <2>1, NextLine
  <2>3. Places' /\ Tasks'
    BY <2>1, NextPlaces, NextTasks
  <2>. QED BY <2>1, <2>2, <2>3 DEF Pipeline
<1>. QED BY <1>1, <1>2, PTL DEF Spec

-----------------------------------------------------------------------------
(* What follows from the line.                                             *)

\* Writes of one thread become durable in the order of the Execute() calls, each at
\* most once, whatever else runs and fails.
THEOREM WritesInOrder == Spec => []ThreadOrder
<1>1. TypeOK /\ Pipeline => ThreadOrder
  BY DEF Pipeline, Durable, LogSorted, ThreadOrder
<1>. QED BY <1>1, PipelineAlways, PTL

\* Where a write waits, in the words of the property.
LEMMA PendingPlaces ==
    ASSUME TypeOK, Pipeline, NEW w
    PROVE  w \in Pending <=> \/ \E i \in Rows : w \in Row(i)
                             \/ \E t \in Threads : w \in Hand(t)
                             \/ \E t \in Threads : w \in OpenWrites(t)
<1>1. sqlQueue \in Seq(Task) /\ Len(sqlQueue) \in Nat
  BY DEF TypeOK, QueueTypes
<1>2. (\E i \in Rows : w \in Row(i)) <=>
          w \in WritesIn(job) \/ \E i \in DOMAIN sqlQueue : w \in WritesIn(sqlQueue[i])
  <2>1. DOMAIN sqlQueue = 1 .. Len(sqlQueue)
    BY <1>1
  <2>2. 0 \in Rows /\ Row(0) = WritesIn(job)
    BY <1>1 DEF Rows, Row, TaskAt
  <2>3. \A i \in 1 .. Len(sqlQueue) : i \in Rows /\ Row(i) = WritesIn(sqlQueue[i])
    BY <1>1 DEF Rows, Row, TaskAt
  <2>4. \A i \in Rows : i = 0 \/ i \in 1 .. Len(sqlQueue)
    BY <1>1 DEF Rows
  <2>. QED BY <2>1, <2>2, <2>3, <2>4
<1>3. (\E t \in Threads : w \in Hand(t)) <=>
          \E t \in {u \in Threads : inHand[u] # <<>>} : w \in WritesIn(inHand[t][1])
  BY NoTaskEmpty DEF Hand, InHand
<1>4. w \in Pending <=>
          \/ \E i \in DOMAIN sqlQueue : w \in WritesIn(sqlQueue[i])
          \/ \E t \in {u \in Threads : inHand[u] # <<>>} : w \in WritesIn(inHand[t][1])
          \/ \E t \in Threads : w \in OpenWrites(t)
          \/ w \in WritesIn(job)
  BY DEF Pending
<1>. QED BY <1>2, <1>3, <1>4

\* Until the halt every write that Execute() accepted is visible on the connection,
\* dead or waiting, and in one of these places only.
THEOREM NothingForgottenAlways == Spec => []NothingForgotten
<1>1. ASSUME TypeOK, Pipeline PROVE NothingForgotten
  <2>. SUFFICES ASSUME halt # "down"
                PROVE  /\ \A t \in Threads : \A n \in 1 .. issued[t] :
                              <<t, n>> \in Visible \cup dead \cup Pending
                       /\ Visible \cap dead = {} /\ Visible \cap Pending = {}
                       /\ dead \cap Pending = {}
    BY DEF NothingForgotten
  <2>. USE <1>1 DEF Pipeline, Line
  <2>1. /\ Visible \subseteq Writes /\ dead \subseteq Writes
        /\ \A t \in Threads : Sent(t) \in Nat /\ issued[t] \in Nat
    BY PlaceTypes, SentNat DEF SentTypes
  <2>2. \A t, u \in Threads, n \in Nat :
            <<u, n>> \in OpenWrites(t) <=> u = t /\ Sent(t) < n /\ n <= issued[t]
    BY OpenNumbers
  <2>3. ASSUME NEW t \in Threads, NEW n \in 1 .. issued[t]
        PROVE  <<t, n>> \in Visible \cup dead \cup Pending
    <3>1. CASE n \in 1 .. Sent(t)
      BY <3>1, PendingPlaces DEF Covered
    <3>2. CASE n \notin 1 .. Sent(t)
      <4>1. <<t, n>> \in OpenWrites(t)
        BY <2>1, <2>2, <3>2
      <4>. QED BY <4>1, PendingPlaces
    <3>. QED BY <3>1, <3>2
  <2>4. ASSUME NEW A, Numbered(A), A \subseteq Writes, NEW t \in Threads
        PROVE  A \cap OpenWrites(t) = {}
    <3>. SUFFICES ASSUME NEW w \in A, w \in OpenWrites(t) PROVE FALSE
      OBVIOUS
    <3>1. w \in Writes
      BY <2>4
    <3>2. PICK u \in Threads, n \in Nat : w = <<u, n>>
      BY <3>1, WritePair
    <3>. QED BY <2>1, <2>2, <2>4, <3>2 DEF Numbered
  <2>5. Visible \cap Pending = {}
    <3>1. \A i \in Rows : Visible \cap Row(i) = {}
      BY <2>1, BelowApart DEF InLine
    <3>2. \A t \in Threads : Visible \cap Hand(t) = {}
      BY <2>1, BelowApart DEF InLine
    <3>3. \A t \in Threads : Visible \cap OpenWrites(t) = {}
      BY <2>1, <2>4 DEF AllSent
    <3>. QED BY <3>1, <3>2, <3>3, PendingPlaces
  <2>6. dead \cap Pending = {}
    <3>1. \A t \in Threads : dead \cap OpenWrites(t) = {}
      BY <2>1, <2>4 DEF AllSent
    <3>. QED BY <3>1, PendingPlaces DEF DeadApart
  <2>. QED BY <2>3, <2>5, <2>6 DEF DeadApart
<1>2. TypeOK /\ Pipeline => NothingForgotten
  BY <1>1
<1>. QED BY <1>2, PipelineAlways, PTL

\* An asynchronous query finds every write that its thread had sent before it asked,
\* unless it failed.
THEOREM QueryReads == Spec => []QueryReadsOwnWrites
<1>1. ASSUME TypeOK, Pipeline, wpc = "call", job.kind = "query", NEW n \in 1 .. job.upTo
      PROVE  <<job.by, n>> \in Visible \cup dead
  <2>. USE <1>1 DEF Pipeline, Line
  <2>1. job \in Task
    BY <1>1 DEF TypeOK, WorkerTypes
  <2>2. job.by \in Threads /\ job.upTo \in Nat
    BY <2>1 DEF Task
  <2>3. 0 \in Rows /\ TaskAt(0) = job /\ job.body = <<>> /\ Len(sqlQueue) \in Nat
    BY <1>1, InProgress, PlaceTypes DEF Rows, TaskAt, Proper
  <2>4. Row(0) = {} /\ <<job.by, job.upTo>> \in RowMarks(0)
    BY <2>3 DEF Row, RowMarks, Marks, WritesIn
  <2>5. halt # "down"
    BY <1>1 DEF Places
  <2>6. job.upTo <= Sent(job.by) /\ Sent(job.by) \in Nat
    BY <2>2, <2>3, <2>4, SentNat DEF AllSent, MarksSent, SentTypes
  <2>7. n \in 1 .. Sent(job.by) /\ n \in Nat /\ n <= job.upTo
    BY <2>2, <2>6
  <2>8. \/ <<job.by, n>> \in Visible \cup dead \cup Hand(job.by)
        \/ \E i \in Rows : <<job.by, n>> \in Row(i)
    BY <2>2, <2>5, <2>7 DEF Covered
  <2>9. <<job.by, n>> \notin Hand(job.by)
    <3>1. Below(RowMarks(0), Hand(job.by))
      BY <2>2, <2>3 DEF InLine
    <3>. QED BY <2>2, <2>4, <2>7, <3>1 DEF Below
  <2>10. \A i \in Rows : <<job.by, n>> \notin Row(i)
    <3>. SUFFICES ASSUME NEW i \in Rows, <<job.by, n>> \in Row(i) PROVE FALSE
      OBVIOUS
    <3>1. i # 0
      BY <2>4
    <3>2. 0 < i
      BY <2>3, <3>1 DEF Rows
    <3>3. Below(RowMarks(0), Row(i))
      BY <2>3, <3>2 DEF InLine
    <3>. QED BY <2>2, <2>4, <2>7, <3>3 DEF Below
  <2>. QED BY <2>8, <2>9, <2>10
<1>2. TypeOK /\ Pipeline => QueryReadsOwnWrites
  BY <1>1 DEF QueryReadsOwnWrites
<1>. QED BY <1>2, PipelineAlways, PTL

-----------------------------------------------------------------------------
(* A transaction stays whole.                                              *)

\* What a thread has sent, it has sent.
LEMMA SentGrows ==
    ASSUME TypeOK, TypeOK', [Next]_vars
    PROVE  \A t \in Threads : Sent(t) <= Sent(t)'
<1>. SUFFICES ASSUME NEW t \in Threads PROVE Sent(t) <= Sent(t)'
  OBVIOUS
<1>1. /\ Sent(t) \in Nat /\ Sent(t)' \in Nat /\ Sent(t) <= issued[t] /\ issued[t] \in Nat
      /\ Len(tran[t].body) \in Nat
  <2>1. SentTypes /\ SentTypes'
    BY SentNat, SentNatNext
  <2>. QED BY <2>1 DEF SentTypes
<1>2. /\ tran[t].body \in Seq(Nat) /\ issued \in [Threads -> Nat]
      /\ tran \in [Threads -> [open : BOOLEAN, body : Seq(Nat)]]
  BY DEF TypeOK, ClientTypes, CountTypes
<1>3. CASE UNCHANGED <<tran, issued>> /\ (halt' = "down" <=> halt = "down")
  BY <1>1, <1>3 DEF Sent
<1>4. CASE UNCHANGED <<tran, issued>> /\ halt' = "down"
  BY <1>1, <1>4 DEF Sent
<1>5. CASE issued' = issued /\ halt' = halt
           /\ \E u \in Threads, b \in BOOLEAN : tran' = [tran EXCEPT ![u] = [open |-> b, body |-> <<>>]]
  <2>1. PICK u \in Threads, b \in BOOLEAN : tran' = [tran EXCEPT ![u] = [open |-> b, body |-> <<>>]]
    BY <1>5
  <2>2. CASE u = t
    <3>1. tran'[t].body = <<>> /\ Len(<<>>) = 0
      BY <1>2, <2>1, <2>2
    <3>2. Sent(t)' = issued[t]
      BY <1>1, <1>5, <3>1 DEF Sent
    <3>. QED BY <1>1, <3>2
  <2>3. CASE u # t
    <3>1. tran'[t] = tran[t]
      BY <1>2, <2>1, <2>3
    <3>. QED BY <1>1, <1>5, <3>1 DEF Sent
  <2>. QED BY <2>2, <2>3
<1>6. CASE \E u \in Threads : /\ issued' = [issued EXCEPT ![u] = @ + 1] /\ halt' = halt
                              /\ tran' = tran
  <2>1. PICK u \in Threads : issued' = [issued EXCEPT ![u] = @ + 1]
    BY <1>6
  <2>2. issued'[t] = issued[t] \/ issued'[t] = issued[t] + 1
    BY <1>2, <2>1
  <2>. QED BY <1>1, <1>6, <2>2 DEF Sent
<1>7. CASE \E u \in Threads :
               /\ issued' = [issued EXCEPT ![u] = @ + 1] /\ halt' = halt
               /\ tran' = [tran EXCEPT ![u].body = Append(@, issued[u] + 1)]
  <2>1. PICK u \in Threads : /\ issued' = [issued EXCEPT ![u] = @ + 1]
                             /\ tran' = [tran EXCEPT ![u].body = Append(@, issued[u] + 1)]
    BY <1>7
  <2>0. halt' = halt
    BY <1>7
  <2>2. CASE u = t
    <3>1. issued'[t] = issued[t] + 1 /\ tran'[t].body = Append(tran[t].body, issued[t] + 1)
      BY <1>2, <2>1, <2>2
    <3>2. Len(tran'[t].body) = Len(tran[t].body) + 1
      BY <1>1, <1>2, <3>1
    <3>. QED BY <1>1, <2>0, <3>1, <3>2 DEF Sent
  <2>3. CASE u # t
    <3>1. tran'[t] = tran[t] /\ issued'[t] = issued[t]
      BY <1>2, <2>1, <2>3
    <3>. QED BY <1>1, <2>0, <3>1 DEF Sent
  <2>. QED BY <2>2, <2>3
<1>8. ASSUME NEW u \in Threads, Client(u) PROVE Sent(t) <= Sent(t)'
  <2>1. CASE BeginTransaction(u) \/ RollbackTransaction(u) \/ CommitTransaction(u)
    <3>1. /\ issued' = issued /\ halt' = halt
          /\ \E b \in BOOLEAN : tran' = [tran EXCEPT ![u] = [open |-> b, body |-> <<>>]]
      BY <2>1 DEF BeginTransaction, RollbackTransaction, CommitTransaction, countVars, fateVars, NoTran
    <3>. QED BY <1>5, <3>1
  <2>2. CASE Execute(u) \/ ExecuteSync(u)
    <3>1. /\ issued' = [issued EXCEPT ![u] = @ + 1] /\ halt' = halt
          /\ tran' = tran \/ tran' = [tran EXCEPT ![u].body = Append(@, issued[u] + 1)]
      BY <2>2 DEF Execute, ExecuteSync, clientVars
    <3>. QED BY <1>6, <1>7, <3>1
  <2>3. CASE AsyncQuery(u) \/ Delay(u) \/ DirectExecute(u) \/ Update(u)
    <3>1. UNCHANGED <<tran, issued, halt>>
      BY <2>3 DEF AsyncQuery, Delay, DirectExecute, Update, clientVars, countVars, fateVars
    <3>. QED BY <1>3, <3>1
  <2>. QED BY <1>8, <2>1, <2>2, <2>3 DEF Client
<1>9. ASSUME Worker \/ StopRunning \/ Deactivate \/ Joined \/ Terminated \/ UNCHANGED vars
      PROVE  Sent(t) <= Sent(t)'
  <2>1. /\ UNCHANGED <<tran, issued>>
        /\ halt' = "down" \/ (halt' = "down" <=> halt = "down")
    BY <1>9 DEF Worker, WorkerLoop, WorkerDequeue, StatementExecute, TransactionStart,
       TransactionStatement, TransactionRollback, TransactionCommit, QueryRead, QueryAnswer,
       StopRunning, Deactivate, Joined, Terminated, vars, clientVars, countVars, fateVars
  <2>. QED BY <1>3, <1>4, <2>1
<1>. QED BY <1>8, <1>9 DEF Next, HaltDelayThread

\* What waits behind the delay thread does not move.
LEMMA BehindStill ==
    ASSUME NEW tr, Behind(tr), UNCHANGED <<inHand, sqlQueue>>
    PROVE  Behind(tr)'
<1>1. /\ Rows' = Rows /\ \A i \in Rows : i # 0 => Row(i)' = Row(i)
      /\ \A t \in Threads : Hand(t)' = Hand(t)
  BY DEF Rows, TaskAt, Row, InHand, Hand
<1>. QED BY <1>1 DEF Behind, Intact

\* A thread hands a task over.
LEMMA BehindHandOver ==
    ASSUME TypeOK, NEW tr, Behind(tr), NEW t \in Threads, NEW task,
           inHand' = [inHand EXCEPT ![t] = <<task>>], Intact(tr, WritesIn(task)),
           sqlQueue' = sqlQueue
    PROVE  Behind(tr)'
<1>1. /\ Rows' = Rows /\ \A i \in Rows : i # 0 => Row(i)' = Row(i)
  BY DEF Rows, TaskAt, Row
<1>2. \A u \in Threads : u # t => Hand(u)' = Hand(u)
  BY DEF TypeOK, ClientTypes, InHand, Hand
<1>3. Hand(t)' = WritesIn(task)
  <2>1. InHand(t)' = task
    BY DEF TypeOK, ClientTypes, InHand
  <2>2. Hand(t)' = WritesIn(InHand(t)')
    BY DEF Hand, WritesIn
  <2>. QED BY <2>1, <2>2
<1>. QED BY <1>1, <1>2, <1>3 DEF Behind, Intact

\* The queue takes it.
LEMMA BehindEnqueued ==
    ASSUME TypeOK, NEW tr, Behind(tr), NEW t \in Threads, inHand[t] # <<>>,
           inHand' = [inHand EXCEPT ![t] = <<>>],
           sqlQueue' = Append(sqlQueue, inHand[t][1])
    PROVE  Behind(tr)'
<1>1. sqlQueue \in Seq(Task) /\ inHand[t][1] \in Task /\ inHand[t][1] = InHand(t)
  BY DEF TypeOK, QueueTypes, ClientTypes, InHand
<1>. PICK N \in Nat : N = Len(sqlQueue) + 1
  BY <1>1
<1>2. Len(sqlQueue) \in Nat /\ Len(sqlQueue') = N
      /\ sqlQueue'[N] = InHand(t) /\ \A i \in 1 .. Len(sqlQueue) : sqlQueue'[i] = sqlQueue[i]
  BY <1>1
<1>3. N # 0 /\ Rows' = Rows \cup {N}
  BY <1>2 DEF Rows
<1>4. \A i \in Rows : i # 0 => TaskAt(i)' = TaskAt(i)
  BY <1>2 DEF Rows, TaskAt
<1>5. /\ \A i \in Rows : i # 0 => Row(i)' = Row(i)
      /\ Row(N)' = Hand(t)
  <2>1. TaskAt(N)' = InHand(t)
    BY <1>2, <1>3 DEF TaskAt
  <2>2. Row(N)' = WritesIn(TaskAt(N)')
    BY DEF Row, WritesIn
  <2>. QED BY <1>4, <2>1, <2>2 DEF Hand, Row
<1>6. Hand(t)' = {} /\ \A u \in Threads : u # t => Hand(u)' = Hand(u)
  <2>1. InHand(t)' = NoTask /\ \A u \in Threads : u # t => InHand(u)' = InHand(u)
    BY DEF TypeOK, ClientTypes, InHand
  <2>2. Hand(t)' = WritesIn(InHand(t)')
    BY DEF Hand, WritesIn
  <2>. QED BY <2>1, <2>2, NoTaskEmpty DEF Hand
<1>. QED BY <1>3, <1>5, <1>6 DEF Behind, Intact

\* The delay thread takes the first row.
LEMMA BehindDequeued ==
    ASSUME TypeOK, NEW tr, Behind(tr), sqlQueue # <<>>,
           job' = Head(sqlQueue), sqlQueue' = Tail(sqlQueue), inHand' = inHand
    PROVE  Behind(tr)' /\ Intact(tr, Row(0)')
<1>1. sqlQueue \in Seq(Task)
  BY DEF TypeOK, QueueTypes
<1>2. /\ Len(sqlQueue) \in Nat /\ Len(sqlQueue') = Len(sqlQueue) - 1 /\ Len(sqlQueue) >= 1
      /\ job' = sqlQueue[1] /\ \A i \in 1 .. Len(sqlQueue) - 1 : sqlQueue'[i] = sqlQueue[i + 1]
  BY <1>1
<1>3. \A i \in Rows' : i + 1 \in Rows /\ i + 1 # 0 /\ TaskAt(i)' = TaskAt(i + 1)
  BY <1>2 DEF Rows, TaskAt
<1>4. \A i \in Rows' : Row(i)' = Row(i + 1)
  BY <1>3 DEF Row
<1>5. 0 \in Rows' /\ \A t \in Threads : Hand(t)' = Hand(t)
  BY <1>2 DEF Rows, InHand, Hand
<1>6. \A i \in Rows' : Intact(tr, Row(i)')
  BY <1>3, <1>4 DEF Behind
<1>. QED BY <1>5, <1>6 DEF Behind, Intact

\* The halt drops the queue.
LEMMA BehindDropped ==
    ASSUME NEW tr, Behind(tr), sqlQueue' = <<>>, inHand' = inHand
    PROVE  Behind(tr)'
<1>1. Rows' = {0}
  <2>1. Len(sqlQueue') = 0
    OBVIOUS
  <2>. QED BY <2>1 DEF Rows
<1>2. \A t \in Threads : Hand(t)' = Hand(t)
  BY DEF InHand, Hand
<1>. QED BY <1>1, <1>2 DEF Behind, Intact

\* The step moves no write of the transaction at the connection.
Elsewhere(tr) ==
    /\ tr \cap Range(log)' = tr \cap Range(log)
    /\ tr \cap Range(conn.log)' = tr \cap Range(conn.log)
    /\ tr \cap Row(0)' = tr \cap Row(0)
    /\ exposed' = exposed /\ conn.inTran' = conn.inTran /\ conn.tran' = conn.tran
    /\ wpc' = wpc \/ wpc' \in {"loop", "dequeue", "call", "exit"} \/ wpc' = "abort"

LEMMA FrontElsewhere ==
    ASSUME NEW tr, Undivided(tr), NoGap(tr), Elsewhere(tr), wpc = "abort" => wpc' = "abort",
           Busy' => Busy, ~Busy' => Intact(tr, Row(0)')
    PROVE  Undivided(tr)' /\ NoGap(tr)'
<1>1. Mine(tr)' <=> Mine(tr)
  BY DEF Mine, Elsewhere
<1>2. Whole(tr, Range(log)') <=> Whole(tr, Range(log))
  BY DEF Whole, Elsewhere
<1>3. tr \cap Current' = tr \cap Current /\ tr \cap Visible' = tr \cap Visible
  BY DEF Elsewhere, Current, Visible
<1>4. Whole(tr, Current') <=> Whole(tr, Current)
  BY <1>3 DEF Whole
<1>5. Undivided(tr)'
  <2>1. tr \in exposed' \/ Whole(tr, Range(log)')
    BY <1>2 DEF Undivided, Elsewhere
  <2>2. tr \in exposed' \/ Whole(tr, Current') \/ (wpc' = "abort" /\ Mine(tr)')
    BY <1>1, <1>4 DEF Undivided, Elsewhere
  <2>3. ~Busy' => Intact(tr, Row(0)')
    OBVIOUS
  <2>4. Busy' => tr \cap Row(0)' = {} \/ Mine(tr)'
    BY <1>1 DEF Undivided, Elsewhere
  <2>5. /\ Whole(tr, Range(log)') <=> Whole(tr, Range(log))'
        /\ Whole(tr, Current') <=> Whole(tr, Current)'
        /\ Intact(tr, Row(0)') <=> Intact(tr, Row(0))'
    BY DEF Whole, Intact
  <2>. QED BY <2>1, <2>2, <2>3, <2>4, <2>5 DEF Undivided
<1>6. NoGap(tr)'
  <2>1. \A v, w \in tr : v[2] < w[2] /\ w \in Visible' => v \in Visible'
    BY <1>3 DEF NoGap
  <2>2. wpc' = "body" => wpc = "body"
    BY DEF Elsewhere, Busy
  <2>3. wpc' = "body" /\ tr \cap Row(0)' # {} => tr \ Row(0)' \subseteq Visible'
    BY <1>3, <2>2 DEF NoGap, Elsewhere
  <2>. QED BY <2>1, <2>3 DEF NoGap
<1>. QED BY <1>5, <1>6

\* Nothing happens at the connection.
LEMMA FrontStill ==
    ASSUME NEW tr, Undivided(tr), NoGap(tr), UNCHANGED <<job, log, wpc, exposed>>,
           conn'.log = conn.log, conn'.inTran = conn.inTran, conn'.tran = conn.tran
    PROVE  Undivided(tr)' /\ NoGap(tr)'
<1>1. Row(0)' = Row(0) /\ Range(conn.log)' = Range(conn.log) /\ Range(log)' = Range(log)
  BY DEF Row, TaskAt
<1>2. Elsewhere(tr)
  BY <1>1 DEF Elsewhere
<1>3. Busy' = Busy
  BY DEF Busy
<1>. QED BY <1>1, <1>2, <1>3, FrontElsewhere DEF Undivided

\* A write of no part of the transaction is obeyed or refused.
LEMMA PerformElsewhere ==
    ASSUME TypeOK, NEW tr, NEW w \in Writes, w \notin tr, Perform(w)
    PROVE  /\ tr \cap Range(log)' = tr \cap Range(log)
           /\ tr \cap Range(conn.log)' = tr \cap Range(conn.log)
           /\ conn.inTran' = conn.inTran /\ conn.tran' = conn.tran
<1>1. log \in Seq(Writes) /\ conn.log \in Seq(Writes)
      /\ conn \in [inTran : BOOLEAN, log : Seq(Writes), direct : SUBSET Writes,
                   tran : SUBSET Writes]
  BY DEF TypeOK, DbTypes
<1>2. Range(Append(log, w)) = Range(log) \cup {w}
  BY <1>1, AppendRange
<1>3. Range(Append(conn.log, w)) = Range(conn.log) \cup {w}
  BY <1>1, AppendRange
<1>4. CASE conn' = [conn EXCEPT !.log = Append(@, w)] /\ log' = log
  <2>1. conn'.log = Append(conn.log, w) /\ conn'.inTran = conn.inTran /\ conn'.tran = conn.tran
    BY <1>1, <1>4
  <2>. QED BY <1>3, <1>4, <2>1
<1>5. CASE conn' = conn /\ log' = Append(log, w)
  BY <1>2, <1>5
<1>6. CASE conn' = conn /\ log' = log
  BY <1>6
<1>. QED BY <1>4, <1>5, <1>6 DEF Perform, Obeyed, Refused

\* Nothing that is sent, and nothing that is visible, is in an open transaction or new.
LEMMA FreshApart ==
    ASSUME TypeOK, NEW tr, Numbered(tr), NEW t \in Threads, NEW A \in SUBSET Writes,
           \A u \in Threads, n \in Nat : <<u, n>> \in A => u = t /\ Sent(t) < n
    PROVE  A \cap tr = {}
<1>. SUFFICES ASSUME NEW w \in A, w \in tr PROVE FALSE
  OBVIOUS
<1>1. PICK u \in Threads, n \in Nat : w = <<u, n>>
  BY WritePair
<1>2. u = t /\ Sent(t) < n /\ n <= Sent(t) /\ Sent(t) \in Nat
  BY <1>1, SentNat DEF Numbered, SentTypes
<1>. QED BY <1>2

\* An open transaction is nowhere on the line.
LEMMA OpenUnbroken ==
    ASSUME TypeOK, Pipeline, halt # "down", NEW t \in Threads, NEW tr, tr = OpenWrites(t)
    PROVE  Unbroken(tr) /\ OneThread(tr)
<1>. USE DEF Pipeline, Line
<1>1. \A u \in Threads, n \in Nat : <<u, n>> \in tr <=> u = t /\ Sent(t) < n /\ n <= issued[t]
  BY OpenNumbers
<1>2. tr \in SUBSET Writes
  BY DEF OpenWrites, TypeOK, ClientTypes, Writes
<1>3. ASSUME NEW A, Numbered(A) PROVE tr \cap A = {} /\ A \cap tr = {}
  BY <1>1, <1>2, <1>3, FreshApart
<1>4. /\ Numbered(Range(log)) /\ Numbered(Range(conn.log)) /\ 0 \in Rows
      /\ \A i \in Rows : Numbered(Row(i)) /\ \A u \in Threads : Numbered(Hand(u))
  BY PlaceTypes DEF AllSent, Numbered, Visible, Rows
<1>5. tr \cap Range(log) = {} /\ tr \cap Range(conn.log) = {} /\ tr \cap Row(0) = {}
      /\ Row(0) \cap tr = {}
  BY <1>3, <1>4
<1>6. Behind(tr)
  BY <1>3, <1>4 DEF Behind, Intact
<1>7. Undivided(tr)
  BY <1>5 DEF Undivided, Whole, Intact, Current
<1>8. NoGap(tr)
  BY <1>5 DEF NoGap, Visible
<1>9. OneThread(tr)
  BY DEF OneThread, OpenWrites, TypeOK, ClientTypes, Writes
<1>. QED BY <1>6, <1>7, <1>8, <1>9 DEF Unbroken

\* Client operations break no transaction.
LEMMA ClientUnbroken ==
    ASSUME TypeOK, TypeOK', Pipeline, NEW t \in Threads, Client(t),
           NEW tr, Numbered(tr), Unbroken(tr)
    PROVE  Unbroken(tr)'
<1>. USE DEF Unbroken
<1>1. /\ tran[t].body \in Seq(Nat) /\ issued[t] \in Nat /\ Sent(t) \in Nat
      /\ issued \in [Threads -> Nat]
      /\ conn \in [inTran : BOOLEAN, log : Seq(Writes), direct : SUBSET Writes,
                   tran : SUBSET Writes]
  BY SentNat DEF TypeOK, ClientTypes, CountTypes, DbTypes, SentTypes
<1>2. CASE \/ BeginTransaction(t) \/ RollbackTransaction(t) \/ DirectExecute(t) \/ Update(t)
           \/ Execute(t) /\ inHand' = inHand
  <2>1. /\ UNCHANGED <<inHand, sqlQueue, job, wpc, log, exposed>>
        /\ conn' = conn \/ conn' = [conn EXCEPT !.direct = @ \cup {<<t, directs[t] + 1>>}]
    BY <1>2 DEF BeginTransaction, RollbackTransaction, DirectExecute, Update, Execute,
       clientVars, workerVars, dbVars, fateVars
  <2>2. conn'.log = conn.log /\ conn'.inTran = conn.inTran /\ conn'.tran = conn.tran
    BY <1>1, <2>1
  <2>. QED BY <2>1, <2>2, BehindStill, FrontStill
<1>3. CASE CommitTransaction(t)
  <2>. DEFINE task == SqlTransaction(t, tran[t].body)
  <2>1. /\ halt = "up" /\ inHand' = [inHand EXCEPT ![t] = <<task>>]
        /\ UNCHANGED <<sqlQueue, job, log, conn, wpc, exposed>>
    BY <1>3 DEF CommitTransaction, FreeAndUnlocked, Free, DelayLocked, workerVars, dbVars,
       fateVars
  <2>2. WritesIn(task) = OpenWrites(t) /\ OpenWrites(t) \in SUBSET Writes
    BY <1>1 DEF SqlTransaction, SqlAsyncTask, WritesIn, OpenWrites, Writes
  <2>3. \A u \in Threads, n \in Nat : <<u, n>> \in OpenWrites(t) => u = t /\ Sent(t) < n
    BY <2>1, OpenNumbers DEF Pipeline, Line
  <2>4. OpenWrites(t) \cap tr = {}
    BY <2>2, <2>3, FreshApart
  <2>. HIDE DEF task
  <2>. QED BY <2>1, <2>2, <2>4, BehindHandOver, FrontStill DEF Intact
<1>4. CASE Execute(t) /\ inHand' # inHand
  <2>. DEFINE task == SqlStatement(t, issued[t] + 1)
  <2>1. /\ halt = "up" /\ inHand' = [inHand EXCEPT ![t] = <<task>>] /\ ~tran[t].open
        /\ UNCHANGED <<sqlQueue, job, log, conn, wpc, exposed>>
    BY <1>4 DEF Execute, FreeAndUnlocked, Free, DelayLocked, workerVars, dbVars, fateVars
  <2>2. WritesIn(task) = {<<t, issued[t] + 1>>}
    BY DEF SqlStatement, SqlAsyncTask, WritesIn
  <2>3. Sent(t) <= issued[t]
    BY SentNat DEF SentTypes
  <2>4. WritesIn(task) \in SUBSET Writes
    BY <1>1, <2>2 DEF Writes
  <2>5. \A u \in Threads, n \in Nat : <<u, n>> \in WritesIn(task) => u = t /\ Sent(t) < n
    BY <1>1, <2>2, <2>3
  <2>. HIDE DEF task
  <2>6. WritesIn(task) \cap tr = {}
    BY <2>4, <2>5, FreshApart
  <2>. QED BY <2>1, <2>6, BehindHandOver, FrontStill DEF Intact
<1>5. CASE AsyncQuery(t)
  <2>. DEFINE task == SqlQuery(t, asked[t] + 1, issued[t] - Len(tran[t].body))
  <2>1. /\ inHand' = [inHand EXCEPT ![t] = <<task>>]
        /\ UNCHANGED <<sqlQueue, job, log, conn, wpc, exposed>>
    BY <1>5 DEF AsyncQuery, workerVars, dbVars, fateVars
  <2>2. WritesIn(task) = {}
    BY DEF SqlQuery, SqlAsyncTask, WritesIn
  <2>. HIDE DEF task
  <2>. QED BY <2>1, <2>2, BehindHandOver, FrontStill DEF Intact
<1>6. CASE Delay(t)
  <2>1. /\ inHand[t] # <<>> /\ inHand' = [inHand EXCEPT ![t] = <<>>]
        /\ sqlQueue' = Append(sqlQueue, Head(inHand[t]))
        /\ UNCHANGED <<job, log, conn, wpc, exposed>>
    BY <1>6 DEF Delay, workerVars, dbVars, fateVars
  <2>2. Head(inHand[t]) = inHand[t][1]
    OBVIOUS
  <2>. QED BY <2>1, <2>2, BehindEnqueued, FrontStill
<1>7. CASE ExecuteSync(t)
  <2>. DEFINE w == <<t, issued[t] + 1>>
  <2>1. /\ halt = "down" /\ UNCHANGED <<inHand, sqlQueue, job, wpc, exposed>> /\ Perform(w)
    BY <1>7 DEF ExecuteSync, clientVars, workerVars, fateVars
  <2>2. w \in Writes /\ Sent(t) = issued[t]
    BY <1>1, <2>1 DEF Writes, Sent
  <2>3. w \notin tr
    BY <1>1, <2>2 DEF Numbered
  <2>. HIDE DEF w
  <2>4. Row(0)' = Row(0)
    BY <2>1 DEF Row, TaskAt
  <2>5. Elsewhere(tr)
    BY <2>1, <2>2, <2>3, <2>4, PerformElsewhere DEF Elsewhere
  <2>6. Busy' = Busy
    BY <2>1 DEF Busy
  <2>. QED BY <2>1, <2>4, <2>5, <2>6, BehindStill, FrontElsewhere DEF Undivided
<1>. QED BY <1>2, <1>3, <1>4, <1>5, <1>6, <1>7 DEF Client

\* A statement of the delay thread's transaction is obeyed or refused.
LEMMA StatementUnbroken ==
    ASSUME TypeOK, Pipeline, TransactionStatement, NEW tr, OneThread(tr),
           Undivided(tr), NoGap(tr)
    PROVE  Undivided(tr)' /\ NoGap(tr)'
<1>. DEFINE w == <<job.by, Head(job.body)>>
<1>1. /\ wpc = "body" /\ UNCHANGED <<inHand, sqlQueue, exposed>>
      /\ (Obeyed(w) /\ wpc' = "body") \/ (Refused(w) /\ wpc' = "abort")
  <2>1. wpc = "body" /\ UNCHANGED <<inHand, sqlQueue, exposed>>
    BY DEF TransactionStatement, clientVars, fateVars
  <2>2. (Obeyed(w) /\ wpc' = wpc) \/ (Refused(w) /\ wpc' = "abort")
    BY Zenon DEF TransactionStatement
  <2>. HIDE DEF w
  <2>. QED BY <2>1, <2>2
<1>. HIDE DEF w
<1>2. /\ Perform(w) /\ w \in Writes /\ w \in Row(0) /\ Row(0) = Row(0)' \cup {w}
      /\ w \notin Row(0)' /\ Below({w}, Row(0)') /\ Below(Visible, {w})
  BY StatementLine DEF w
<1>3. log \in Seq(Writes) /\ conn.log \in Seq(Writes)
      /\ conn \in [inTran : BOOLEAN, log : Seq(Writes), direct : SUBSET Writes,
                   tran : SUBSET Writes]
  BY DEF TypeOK, DbTypes
<1>4. Busy /\ Busy'
  BY <1>1 DEF Busy
<1>5. CASE w \notin tr
  <2>1. Elsewhere(tr)
    BY <1>1, <1>2, <1>5, PerformElsewhere DEF Elsewhere
  <2>. QED BY <1>1, <1>4, <2>1, FrontElsewhere
<1>6. CASE w \in tr
  <2>1. Mine(tr)
    BY <1>2, <1>4, <1>6 DEF Undivided
  <2>2. conn.inTran' = conn.inTran /\ conn.tran' = conn.tran
    BY <1>2, <1>3 DEF Perform, Obeyed, Refused
  <2>3. Mine(tr)'
    BY <1>1, <2>1, <2>2 DEF Mine
  <2>4. CASE Refused(w) /\ wpc' = "abort"
    <3>1. log' = log /\ conn' = conn /\ Visible' = Visible
      BY <2>4 DEF Refused, Visible
    <3>2. Undivided(tr)'
      BY <1>1, <1>4, <2>3, <2>4, <3>1 DEF Undivided, Whole
    <3>3. NoGap(tr)'
      BY <2>4, <3>1 DEF NoGap
    <3>. QED BY <3>2, <3>3
  <2>5. CASE Obeyed(w) /\ wpc' = "body"
    <3>1. \/ /\ conn.inTran /\ log' = log /\ Range(conn.log)' = Range(conn.log) \cup {w}
          \/ /\ ~conn.inTran /\ conn' = conn /\ Range(log)' = Range(log) \cup {w}
      <4>1. CASE conn.inTran /\ conn' = [conn EXCEPT !.log = Append(@, w)] /\ log' = log
        <5>1. conn'.log = Append(conn.log, w)
          BY <1>3, <4>1
        <5>2. Range(Append(conn.log, w)) = Range(conn.log) \cup {w}
          BY <1>2, <1>3, AppendRange
        <5>. QED BY <4>1, <5>1, <5>2
      <4>2. CASE ~conn.inTran /\ log' = Append(log, w) /\ conn' = conn
        <5>1. Range(Append(log, w)) = Range(log) \cup {w}
          BY <1>2, <1>3, AppendRange
        <5>. QED BY <4>2, <5>1
      <4>. QED BY <2>5, <4>1, <4>2 DEF Obeyed
    <3>2. Visible' = Visible \cup {w}
      BY <3>1 DEF Visible
    <3>3. Undivided(tr)'
      <4>1. CASE conn.inTran /\ log' = log /\ Range(conn.log)' = Range(conn.log) \cup {w}
        <5>1. Current' = Current
          BY <1>2, <4>1 DEF Current
        <5>2. tr \in exposed' \/ Whole(tr, Range(log))'
          BY <1>1, <4>1 DEF Undivided, Whole
        <5>3. tr \in exposed' \/ Whole(tr, Current)'
          BY <1>1, <5>1 DEF Undivided, Whole
        <5>. QED BY <1>4, <2>3, <5>2, <5>3 DEF Undivided
      <4>2. CASE ~conn.inTran
        <5>1. tr \in exposed'
          BY <1>1, <2>1, <4>2 DEF Mine
        <5>. QED BY <1>4, <2>3, <5>1 DEF Undivided
      <4>. QED BY <3>1, <4>1, <4>2
    <3>4. tr \ Row(0) \subseteq Visible
      BY <1>1, <1>2, <1>6 DEF NoGap
    <3>5. \A v, x \in tr : v[2] < x[2] /\ x \in Visible' => v \in Visible'
      <4>. SUFFICES ASSUME NEW v \in tr, NEW x \in tr, v[2] < x[2], x \in Visible'
                    PROVE  v \in Visible'
        OBVIOUS
      <4>1. CASE x \in Visible
        BY <3>2, <4>1 DEF NoGap
      <4>2. CASE x = w
        <5>1. ASSUME v \in Row(0)' PROVE FALSE
          <6>1. PICK t \in Threads, m \in Nat : v = <<t, m>>
            BY WritePair DEF OneThread
          <6>2. PICK u \in Threads, n \in Nat : w = <<u, n>>
            BY <1>2, WritePair
          <6>3. u = t
            BY <1>6, <6>1, <6>2 DEF OneThread
          <6>4. n < m
            BY <1>2, <5>1, <6>1, <6>2, <6>3 DEF Below
          <6>5. m < n
            BY <4>2, <6>1, <6>2
          <6>. QED BY <6>4, <6>5
        <5>. QED BY <1>2, <3>2, <3>4, <5>1
      <4>. QED BY <3>2, <4>1, <4>2
    <3>6. tr \ Row(0)' \subseteq Visible'
      BY <1>2, <3>2, <3>4
    <3>. QED BY <3>3, <3>5, <3>6 DEF NoGap
  <2>. QED BY <1>1, <2>4, <2>5
<1>. QED BY <1>5, <1>6

\* A statement outside transactions is obeyed or refused.
LEMMA SingleUnbroken ==
    ASSUME TypeOK, Pipeline, StatementExecute, NEW tr, Undivided(tr), NoGap(tr),
           \A x \in tr : x[2] \in Nat
    PROVE  Undivided(tr)' /\ NoGap(tr)'
<1>. DEFINE w == <<job.by, Head(job.body)>>
<1>1. /\ wpc = "call" /\ wpc' = "loop" /\ exposed' = exposed
  BY DEF StatementExecute, FinishJob, fateVars
<1>. HIDE DEF w
<1>2. Perform(w) /\ w \in Writes /\ Row(0)' = {} /\ Row(0) = {w}
  BY SingleLine DEF w
<1>3. ~Busy /\ ~Busy'
  BY <1>1 DEF Busy
<1>4. CASE w \notin tr
  <2>1. Elsewhere(tr)
    BY <1>1, <1>2, <1>4, PerformElsewhere DEF Elsewhere
  <2>2. Intact(tr, Row(0)')
    BY <1>2 DEF Intact
  <2>. QED BY <1>1, <1>3, <2>1, <2>2, FrontElsewhere
<1>5. CASE w \in tr
  <2>1. tr = {w}
    BY <1>2, <1>3, <1>5 DEF Undivided, Intact
  <2>2. \A A : Whole(tr, A)
    BY <2>1 DEF Whole
  <2>3. Whole(tr, Range(log))' /\ Whole(tr, Current)'
    BY <2>1 DEF Whole
  <2>4. Undivided(tr)'
    BY <1>2, <1>3, <2>3 DEF Undivided, Intact
  <2>5. NoGap(tr)'
    BY <1>1, <2>1 DEF NoGap
  <2>. QED BY <2>4, <2>5
<1>. QED BY <1>4, <1>5

\* The delay thread starts a transaction.
LEMMA StartUnbroken ==
    ASSUME TypeOK, Pipeline, TransactionStart, NEW tr, Undivided(tr), NoGap(tr)
    PROVE  Undivided(tr)' /\ NoGap(tr)'
<1>1. /\ Row(0) = WritesIn(job) /\ Visible \cap Row(0) = {} /\ Row(0)' = Row(0) /\ ~Busy
      /\ wpc = "call"
  BY InProgress, QuietSteps, StartCases
<1>2. log \in Seq(Writes) /\ conn.log \in Seq(Writes)
  BY DEF TypeOK, DbTypes
<1>3. Intact(tr, Row(0)) /\ Intact(tr, Row(0)')
  BY <1>1 DEF Undivided
<1>4. CASE wpc' = "loop" /\ UNCHANGED <<conn, log, exposed>>
  <2>1. Elsewhere(tr) /\ ~Busy'
    BY <1>1, <1>4 DEF Elsewhere, Busy
  <2>. QED BY <1>1, <1>3, <2>1, FrontElsewhere
<1>5. CASE /\ wpc' = "body"
           /\ \/ conn'.inTran /\ conn'.tran = Row(0) /\ exposed' = exposed
              \/ ~conn.inTran /\ conn' = conn /\ exposed' = exposed \cup {Row(0)}
           /\ \/ conn'.log = conn.log /\ log' = log
              \/ conn'.log = <<>> /\ log' = log \o conn.log
  <2>1. Range(log \o conn.log) = Range(log) \cup Range(conn.log)
    BY <1>2, ConcatLog DEF Pipeline, Durable
  <2>2. Range(<<>>) = {}
    BY DEF Range
  <2>3. Visible' = Visible
    BY <1>5, <2>1, <2>2 DEF Visible
  <2>4. exposed \subseteq exposed'
    BY <1>5
  <2>5. tr \in exposed \/ (Whole(tr, Range(log)) /\ Whole(tr, Current))
    BY <1>1 DEF Undivided
  <2>6. ASSUME Whole(tr, Range(log)), Whole(tr, Current)
        PROVE  Whole(tr, Range(log)) /\ Whole(tr, Range(log) \cup Range(conn.log))
               /\ Whole(tr, Row(0)) /\ Whole(tr, Current)
    <3>1. CASE Row(0) = tr
      BY <1>1, <2>6, <3>1 DEF Whole, Visible, Current
    <3>2. CASE Row(0) \cap tr = {}
      BY <2>6, <3>2 DEF Whole, Visible, Current
    <3>. QED BY <1>3, <2>6, <3>1, <3>2 DEF Intact
  <2>7. /\ Current' = Current \/ Current' = Row(0)
        /\ Range(log)' = Range(log) \/ Range(log)' = Range(log) \cup Range(conn.log)
    BY <1>1, <1>5, <2>1, <2>2 DEF Current
  <2>8. tr \in exposed' \/ (Whole(tr, Range(log))' /\ Whole(tr, Current)')
    <3>1. ASSUME Whole(tr, Range(log)'), Whole(tr, Current')
          PROVE  Whole(tr, Range(log))' /\ Whole(tr, Current)'
      BY <3>1 DEF Whole
    <3>. QED BY <2>4, <2>5, <2>6, <2>7, <3>1
  <2>9. tr \cap Row(0)' = {} \/ Mine(tr)'
    BY <1>1, <1>3, <1>5 DEF Intact, Mine
  <2>10. Undivided(tr)'
    BY <1>5, <2>8, <2>9 DEF Undivided, Busy
  <2>11. NoGap(tr)'
    BY <1>1, <1>3, <2>3 DEF NoGap, Intact
  <2>. QED BY <2>10, <2>11
<1>. QED BY <1>1, <1>4, <1>5, StartCases

\* The delay thread ends a transaction.
LEMMA EndUnbroken ==
    ASSUME TypeOK, Pipeline, TransactionRollback \/ TransactionCommit,
           NEW tr, OneThread(tr), Undivided(tr), NoGap(tr)
    PROVE  Undivided(tr)' /\ NoGap(tr)'
<1>1. /\ Row(0) = WritesIn(job) /\ Row(0)' = {}
  BY InProgress, EndLine
<1>2. log \in Seq(Writes) /\ conn.log \in Seq(Writes)
  BY DEF TypeOK, DbTypes
<1>3. ~Busy' /\ wpc' # "body" /\ wpc' # "abort" /\ Busy
  BY DEF TransactionRollback, TransactionCommit, FinishJob, Busy
<1>4. Current' = Range(conn.log)'
  BY <1>1 DEF Current
<1>5. Range(log \o conn.log) = Range(log) \cup Range(conn.log)
  BY <1>2, ConcatLog DEF Pipeline, Durable
<1>6. ASSUME conn' = NoServerTran PROVE Range(conn.log)' = {}
  BY <1>6 DEF NoServerTran, Range
<1>7. ASSUME tr \in exposed' \/ Whole(tr, Range(log)'),
             tr \in exposed' \/ Whole(tr, Range(conn.log)')
      PROVE  Undivided(tr)'
  <2>1. Whole(tr, Range(log)') => Whole(tr, Range(log))'
    BY DEF Whole
  <2>2. Whole(tr, Range(conn.log)') => Whole(tr, Current)'
    BY <1>4 DEF Whole
  <2>3. Intact(tr, Row(0))'
    BY <1>1 DEF Intact
  <2>. QED BY <1>3, <1>7, <2>1, <2>2, <2>3 DEF Undivided
<1>8. CASE TransactionRollback /\ conn' = NoServerTran
  <2>1. log' = log /\ exposed' = exposed
    BY <1>8 DEF TransactionRollback, NoServerTran
  <2>2. Undivided(tr)'
    BY <1>6, <1>7, <1>8, <2>1 DEF Undivided, Whole
  <2>3. Visible' = Range(log)
    BY <1>6, <1>8, <2>1 DEF Visible
  <2>4. \A v, w \in tr : v[2] < w[2] /\ w \in Visible' => v \in Visible'
    <3>. SUFFICES ASSUME NEW v \in tr, NEW w \in tr, v[2] < w[2], w \in Range(log),
                         v \notin Range(log)
                  PROVE  FALSE
      BY <2>3
    <3>1. v \in Range(conn.log)
      BY DEF NoGap, Visible
    <3>2. PICK t \in Threads, m \in Nat : v = <<t, m>>
      BY WritePair DEF OneThread
    <3>3. PICK u \in Threads, n \in Nat : w = <<u, n>>
      BY WritePair DEF OneThread
    <3>4. u = t
      BY <3>2, <3>3 DEF OneThread
    <3>5. n < m
      BY <3>1, <3>2, <3>3, <3>4 DEF Pipeline, Durable, Below
    <3>6. m < n
      BY <3>2, <3>3
    <3>. QED BY <3>5, <3>6
  <2>. QED BY <1>3, <2>2, <2>4 DEF NoGap
<1>9. CASE TransactionRollback /\ conn' # NoServerTran
  <2>1. /\ conn.inTran /\ conn' = conn /\ log' = log /\ exposed' = exposed \cup {conn.tran}
    BY <1>9 DEF TransactionRollback
  <2>2. Visible' = Visible
    BY <2>1 DEF Visible
  <2>3. Undivided(tr)'
    <3>1. tr \in exposed' \/ Whole(tr, Range(log)')
      BY <2>1 DEF Undivided
    <3>2. tr \in exposed' \/ Whole(tr, Range(conn.log)')
      <4>1. CASE Mine(tr)
        BY <2>1, <4>1 DEF Mine
      <4>2. CASE ~Mine(tr)
        <5>1. tr \cap Row(0) = {} /\ (tr \in exposed \/ Whole(tr, Current))
          BY <1>3, <4>2 DEF Undivided
        <5>. QED BY <2>1, <5>1 DEF Whole, Current
      <4>. QED BY <4>1, <4>2
    <3>. QED BY <1>7, <3>1, <3>2
  <2>. QED BY <1>3, <2>2, <2>3 DEF NoGap
<1>10. CASE TransactionCommit
  <2>1. /\ wpc = "body" /\ job.body = <<>> /\ exposed' = exposed
        /\ \/ conn' = NoServerTran /\ log' = log \o conn.log
           \/ conn' = conn /\ log' = log
    BY <1>10 DEF TransactionCommit, fateVars
  <2>2. Row(0) = {}
    BY <1>1, <2>1 DEF WritesIn
  <2>3. Current = Range(conn.log)
    BY <2>2 DEF Current
  <2>4. /\ tr \in exposed \/ Whole(tr, Range(log))
        /\ tr \in exposed \/ Whole(tr, Range(conn.log))
    BY <2>1, <2>3 DEF Undivided
  <2>5. Visible' = Visible
    BY <1>5, <1>6, <2>1 DEF Visible
  <2>6. Undivided(tr)'
    <3>1. CASE conn' = conn /\ log' = log
      BY <1>7, <2>1, <2>4, <3>1
    <3>2. CASE conn' = NoServerTran /\ log' = log \o conn.log
      <4>1. tr \in exposed' \/ Whole(tr, Range(log)')
        BY <1>5, <2>1, <2>4, <3>2 DEF Whole
      <4>2. Whole(tr, Range(conn.log)')
        BY <1>6, <3>2 DEF Whole
      <4>. QED BY <1>7, <4>1, <4>2
    <3>. QED BY <2>1, <3>1, <3>2
  <2>. QED BY <1>3, <2>5, <2>6 DEF NoGap
<1>. QED BY <1>8, <1>9, <1>10

\* The delay thread breaks no transaction.
LEMMA WorkerUnbroken ==
    ASSUME TypeOK, Pipeline, Worker, NEW tr, OneThread(tr), Unbroken(tr)
    PROVE  Unbroken(tr)'
<1>. USE DEF Unbroken
<1>1. \A x \in tr : x[2] \in Nat
  <2>. SUFFICES ASSUME NEW x \in tr PROVE x[2] \in Nat
    OBVIOUS
  <2>1. PICK t \in Threads, n \in Nat : x = <<t, n>>
    BY WritePair DEF OneThread
  <2>. QED BY <2>1
<1>2. CASE WorkerLoop \/ QueryRead \/ QueryAnswer
  <2>1. UNCHANGED <<conn, log, exposed>> /\ ~Busy'
    BY <1>2 DEF WorkerLoop, QueryRead, QueryAnswer, FinishJob, Busy, dbVars, fateVars
  <2>2. Row(0)' = Row(0) /\ UNCHANGED <<inHand, sqlQueue>> /\ ~Busy /\ wpc' # "abort"
    BY <1>2, QuietSteps
  <2>3. Elsewhere(tr)
    BY <1>2, <2>1, <2>2 DEF Elsewhere, WorkerLoop, QueryRead, QueryAnswer, FinishJob
  <2>4. wpc # "abort" /\ Intact(tr, Row(0)')
    BY <2>2 DEF Busy, Undivided
  <2>. QED BY <2>1, <2>2, <2>3, <2>4, BehindStill, FrontElsewhere
<1>3. CASE TransactionStart
  BY <1>3, QuietSteps, BehindStill, StartUnbroken
<1>4. CASE WorkerDequeue
  <2>1. UNCHANGED <<inHand, log, conn, exposed>> /\ wpc = "dequeue"
    BY <1>4 DEF WorkerDequeue, clientVars, dbVars, fateVars
  <2>2. CASE sqlQueue # <<>> /\ job' = Head(sqlQueue) /\ sqlQueue' = Tail(sqlQueue)
             /\ wpc' = "call"
    <3>1. Behind(tr)' /\ Intact(tr, Row(0)')
      BY <2>1, <2>2, BehindDequeued
    <3>2. Row(0) = {}
      <4>1. job = NoTask
        BY <2>1 DEF TypeOK, WorkerTypes
      <4>. QED BY <4>1, NoTaskEmpty DEF Row, TaskAt
    <3>3. Current = Range(conn.log) /\ Current' = Range(conn.log) \cup Row(0)'
      BY <2>1, <3>2 DEF Current
    <3>4. ~Busy /\ ~Busy' /\ wpc # "abort" /\ wpc' # "body" /\ Visible' = Visible
      BY <2>1, <2>2 DEF Busy, Visible
    <3>5. Whole(tr, Current) => Whole(tr, Current')
      BY <3>1, <3>3 DEF Whole, Intact
    <3>6. Whole(tr, Current') => Whole(tr, Current)'
      BY DEF Whole
    <3>7. tr \in exposed' \/ Whole(tr, Range(log))'
      BY <2>1, <3>4 DEF Undivided, Whole
    <3>8. tr \in exposed' \/ Whole(tr, Current)'
      BY <2>1, <3>4, <3>5, <3>6 DEF Undivided
    <3>9. Undivided(tr)'
      BY <3>1, <3>4, <3>7, <3>8 DEF Undivided, Intact
    <3>10. NoGap(tr)'
      BY <3>4 DEF NoGap
    <3>. QED BY <3>1, <3>9, <3>10
  <2>3. CASE UNCHANGED <<job, sqlQueue>> /\ wpc' = "loop"
    <3>1. Row(0)' = Row(0)
      BY <2>3 DEF Row, TaskAt
    <3>2. Elsewhere(tr) /\ ~Busy' /\ ~Busy /\ wpc # "abort"
      BY <2>1, <2>3, <3>1 DEF Elsewhere, Busy
    <3>3. Intact(tr, Row(0)')
      BY <3>1, <3>2 DEF Undivided
    <3>. QED BY <2>1, <2>3, <3>2, <3>3, BehindStill, FrontElsewhere
  <2>. QED BY <1>4, <2>2, <2>3 DEF WorkerDequeue
<1>5. CASE StatementExecute
  <2>1. UNCHANGED <<inHand, sqlQueue>>
    BY <1>5 DEF StatementExecute, clientVars
  <2>. QED BY <1>1, <1>5, <2>1, BehindStill, SingleUnbroken
<1>6. CASE TransactionStatement
  <2>1. UNCHANGED <<inHand, sqlQueue>>
    BY <1>6 DEF TransactionStatement, clientVars
  <2>. QED BY <1>6, <2>1, BehindStill, StatementUnbroken
<1>7. CASE TransactionRollback \/ TransactionCommit
  <2>1. UNCHANGED <<inHand, sqlQueue>>
    BY <1>7 DEF TransactionRollback, TransactionCommit, clientVars
  <2>. QED BY <1>7, <2>1, BehindStill, EndUnbroken
<1>. QED BY <1>2, <1>3, <1>4, <1>5, <1>6, <1>7 DEF Worker

\* No transaction is broken.
LEMMA AtomicAlways == Spec => []Atomic
<1>1. Init => Atomic
  BY DEF Init, Atomic
<1>2. TypeOK /\ TypeOK' /\ Pipeline /\ Atomic /\ [Next]_vars => Atomic'
  <2>. SUFFICES ASSUME TypeOK, TypeOK', Pipeline, Atomic, [Next]_vars,
                       NEW tr \in committed'
                PROVE  Numbered(tr)' /\ OneThread(tr)' /\ Unbroken(tr)'
    BY DEF Atomic
  <2>1. ASSUME OneThread(tr) PROVE OneThread(tr)'
    BY <2>1 DEF OneThread, Writes
  <2>2. ASSUME tr \in committed
        PROVE  Numbered(tr) /\ OneThread(tr) /\ Unbroken(tr) /\ Numbered(tr)' /\ OneThread(tr)'
    <3>1. \A t \in Threads : Sent(t) \in Nat /\ Sent(t)' \in Nat /\ Sent(t) <= Sent(t)'
      BY SentNat, SentNatNext, SentGrows DEF SentTypes
    <3>2. Numbered(tr) /\ OneThread(tr) /\ Unbroken(tr)
      BY <2>2 DEF Atomic
    <3>3. Numbered(tr)'
      BY <3>1, <3>2 DEF Numbered
    <3>. QED BY <2>1, <3>2, <3>3
  <2>3. CASE \E t \in Threads : CommitTransaction(t) /\ tr = OpenWrites(t)
    <3>1. PICK t \in Threads : CommitTransaction(t) /\ tr = OpenWrites(t)
      BY <2>3
    <3>. DEFINE task == SqlTransaction(t, tran[t].body)
    <3>2. /\ halt = "up" /\ inHand' = [inHand EXCEPT ![t] = <<task>>]
          /\ UNCHANGED <<sqlQueue, job, log, conn, wpc, halt, issued, exposed>>
          /\ tran' = [tran EXCEPT ![t] = NoTran]
      BY <3>1 DEF CommitTransaction, FreeAndUnlocked, Free, DelayLocked, workerVars, dbVars,
         fateVars
    <3>3. WritesIn(task) = tr
      BY <3>1 DEF SqlTransaction, SqlAsyncTask, WritesIn, OpenWrites
    <3>. HIDE DEF task
    <3>4. Unbroken(tr) /\ OneThread(tr)
      BY <3>1, <3>2, OpenUnbroken
    <3>5. Unbroken(tr)'
      BY <3>2, <3>3, <3>4, BehindHandOver, FrontStill DEF Intact, Unbroken
    <3>6. \A u \in Threads, n \in Nat : <<u, n>> \in tr => u = t /\ Sent(t) < n /\ n <= issued[t]
      BY <3>1, <3>2, OpenNumbers DEF Pipeline, Line
    <3>7. Sent(t) \in Nat /\ issued[t] \in Nat /\ Sent(t)' = issued[t]
      <4>1. tran'[t].body = <<>> /\ Len(<<>>) = 0
        BY <3>2 DEF TypeOK, ClientTypes, NoTran
      <4>2. Sent(t) \in Nat /\ issued[t] \in Nat
        BY SentNat DEF SentTypes, TypeOK, CountTypes
      <4>. QED BY <3>2, <4>1, <4>2 DEF Sent
    <3>8. Numbered(tr)'
      BY <3>6, <3>7 DEF Numbered
    <3>. QED BY <2>1, <3>4, <3>5, <3>8
  <2>4. CASE tr \in committed
    <3>1. ASSUME NEW t \in Threads, Client(t) PROVE Unbroken(tr)'
      BY <2>2, <2>4, <3>1, ClientUnbroken
    <3>2. CASE Worker
      BY <2>2, <2>4, <3>2, WorkerUnbroken
    <3>3. CASE Joined
      <4>1. UNCHANGED <<inHand, job, wpc, log, conn, exposed>> /\ sqlQueue' = <<>>
        BY <3>3 DEF Joined, clientVars, workerVars, dbVars, fateVars
      <4>. QED BY <2>2, <2>4, <4>1, BehindDropped, FrontStill DEF Unbroken
    <3>4. CASE StopRunning \/ Deactivate \/ Terminated \/ UNCHANGED vars
      <4>1. UNCHANGED <<inHand, sqlQueue, job, wpc, log, conn, exposed>>
        BY <3>4 DEF StopRunning, Deactivate, Terminated, vars, clientVars, workerVars, dbVars,
                    fateVars
      <4>. QED BY <2>2, <2>4, <4>1, BehindStill, FrontStill DEF Unbroken
    <3>. QED BY <2>2, <2>4, <3>1, <3>2, <3>3, <3>4 DEF Next, HaltDelayThread
  <2>5. tr \in committed \/ \E t \in Threads : CommitTransaction(t) /\ tr = OpenWrites(t)
    <3>1. \/ committed' = committed
          \/ \E t \in Threads : CommitTransaction(t) /\ committed' = committed \cup {OpenWrites(t)}
      <4>1. ASSUME NEW t \in Threads, Client(t)
            PROVE  committed' = committed
                   \/ (CommitTransaction(t) /\ committed' = committed \cup {OpenWrites(t)})
        BY <4>1 DEF Client, BeginTransaction, RollbackTransaction, CommitTransaction, Execute,
           AsyncQuery, Delay, DirectExecute, Update, ExecuteSync, countVars
      <4>2. ASSUME Worker \/ HaltDelayThread \/ Terminated \/ UNCHANGED vars
            PROVE  committed' = committed
        BY <4>2 DEF Worker, WorkerLoop, WorkerDequeue, StatementExecute, TransactionStart,
           TransactionStatement, TransactionRollback, TransactionCommit, QueryRead,
           QueryAnswer, HaltDelayThread, StopRunning, Deactivate, Joined, Terminated, vars,
           countVars
      <4>. QED BY <4>1, <4>2 DEF Next
    <3>. QED BY <3>1
  <2>. QED BY <2>3, <2>4, <2>5
<1>. QED BY <1>1, <1>2, TypeCorrect, PipelineAlways, PTL DEF Spec

\* A committed transaction is durable as a whole or not at all, unless the server
\* refused its own START TRANSACTION or ROLLBACK, and then a beginning of it is:
\* SqlTransaction::Execute() looks at no result but that of a statement.
THEOREM TransactionsWhole == Spec => []TransactionAtomic
<1>1. TypeOK /\ Pipeline /\ Atomic => TransactionAtomic
  <2>. SUFFICES ASSUME TypeOK, Pipeline, Atomic, NEW tr \in committed
                PROVE  /\ tr \in exposed \/ tr \subseteq Range(log) \/ tr \cap Range(log) = {}
                       /\ \A v, w \in tr : v[2] < w[2] /\ w \in Range(log) => v \in Range(log)
    BY DEF TransactionAtomic
  <2>1. OneThread(tr) /\ Undivided(tr) /\ NoGap(tr)
    BY DEF Atomic, Unbroken
  <2>2. ASSUME NEW v \in tr, NEW w \in tr, v[2] < w[2], w \in Range(log), v \notin Range(log)
        PROVE  FALSE
    <3>1. v \in Range(conn.log)
      BY <2>1, <2>2 DEF NoGap, Visible
    <3>2. PICK t \in Threads, m \in Nat : v = <<t, m>>
      BY <2>1, WritePair DEF OneThread
    <3>3. PICK u \in Threads, n \in Nat : w = <<u, n>>
      BY <2>1, WritePair DEF OneThread
    <3>4. u = t
      BY <2>1, <3>2, <3>3 DEF OneThread
    <3>5. n < m
      BY <2>2, <3>1, <3>2, <3>3, <3>4 DEF Pipeline, Durable, Below
    <3>6. m < n
      BY <2>2, <3>2, <3>3
    <3>. QED BY <3>5, <3>6
  <2>. QED BY <2>1, <2>2 DEF Undivided, Whole
<1>. QED BY <1>1, TypeCorrect, PipelineAlways, AtomicAlways, PTL

-----------------------------------------------------------------------------
(* What becomes of a direct write.                                         *)

\* What the client operations hand over is what they committed.
LEMMA ClientOwned ==
    ASSUME TypeOK, Owned, NEW t \in Threads, Client(t)
    PROVE  Owned'
<1>1. inHand \in [Threads -> Seq(Task)] /\ sqlQueue \in Seq(Task)
  BY DEF TypeOK, ClientTypes, QueueTypes
<1>2. UNCHANGED <<job, wpc>> /\ committed \subseteq committed'
  BY DEF Client, BeginTransaction, RollbackTransaction, CommitTransaction, Execute,
     AsyncQuery, Delay, DirectExecute, Update, ExecuteSync, workerVars, countVars
<1>6. \A task : Handed(committed, task) => Handed(committed', task)
  BY <1>2 DEF Handed
<1>7. wpc' = "call" => Handed(committed', job')
  BY <1>2, <1>6 DEF Owned
<1>8. CASE Delay(t)
  <2>1. /\ inHand[t] # <<>> /\ inHand' = [inHand EXCEPT ![t] = <<>>]
        /\ sqlQueue' = Append(sqlQueue, inHand[t][1])
    BY <1>8 DEF Delay
  <2>2. Handed(committed', inHand[t][1]) /\ inHand[t][1] \in Task
    BY <1>1, <1>6, <2>1 DEF Owned, InHand
  <2>3. \A i \in DOMAIN sqlQueue' : Handed(committed', sqlQueue'[i])
    <3>1. \A i \in DOMAIN sqlQueue' : \/ sqlQueue'[i] = inHand[t][1]
                                      \/ i \in DOMAIN sqlQueue /\ sqlQueue'[i] = sqlQueue[i]
      BY <1>1, <2>1, <2>2
    <3>. QED BY <1>6, <2>2, <3>1 DEF Owned
  <2>4. \A u \in Threads : InHand(u)' = NoTask \/ InHand(u)' = InHand(u)
    BY <1>1, <2>1 DEF InHand
  <2>5. NoTask.kind = "none"
    BY DEF NoTask, SqlAsyncTask
  <2>6. \A u \in Threads : Handed(committed', InHand(u)')
    BY <1>6, <2>4, <2>5 DEF Owned, Handed
  <2>. QED BY <1>7, <2>3, <2>6 DEF Owned
<1>9. CASE ~Delay(t)
  <2>1. sqlQueue' = sqlQueue
    BY <1>9 DEF Client, BeginTransaction, RollbackTransaction, CommitTransaction, Execute,
       AsyncQuery, DirectExecute, Update, ExecuteSync
  <2>2. \/ inHand' = inHand
        \/ /\ inHand' = [inHand EXCEPT ![t] = <<SqlTransaction(t, tran[t].body)>>]
           /\ OpenWrites(t) \in committed'
        \/ inHand' = [inHand EXCEPT ![t] = <<SqlStatement(t, issued[t] + 1)>>]
        \/ \E k, n : inHand' = [inHand EXCEPT ![t] = <<SqlQuery(t, k, n)>>]
    BY <1>9 DEF Client, BeginTransaction, RollbackTransaction, CommitTransaction,
       Execute, AsyncQuery, DirectExecute, Update, ExecuteSync, clientVars, DelayLocked
  <2>3. WritesIn(SqlTransaction(t, tran[t].body)) = OpenWrites(t)
    BY DEF SqlTransaction, SqlAsyncTask, WritesIn, OpenWrites
  <2>4. /\ \A n : Handed(committed', SqlStatement(t, n))
        /\ \A k, n : Handed(committed', SqlQuery(t, k, n))
    BY DEF SqlStatement, SqlQuery, SqlAsyncTask, Handed
  <2>5. \/ inHand' = inHand
        \/ \E task : Handed(committed', task) /\ inHand' = [inHand EXCEPT ![t] = <<task>>]
    BY <2>2, <2>3, <2>4 DEF Handed
  <2>6. ASSUME NEW u \in Threads PROVE Handed(committed', InHand(u)')
    <3>1. CASE inHand' = inHand
      BY <1>6, <3>1 DEF Owned, InHand
    <3>2. ASSUME NEW task, Handed(committed', task), inHand' = [inHand EXCEPT ![t] = <<task>>]
          PROVE  Handed(committed', InHand(u)')
      <4>1. InHand(u)' = IF u = t THEN task ELSE InHand(u)
        BY <1>1, <3>2 DEF InHand
      <4>. QED BY <1>6, <3>2, <4>1 DEF Owned
    <3>. QED BY <2>5, <3>1, <3>2
  <2>. QED BY <1>6, <1>7, <2>1, <2>6 DEF Owned
<1>. QED BY <1>8, <1>9

\* The delay thread executes what was handed to it.
LEMMA WorkerOwned ==
    ASSUME TypeOK, Owned, Worker
    PROVE  Owned'
<1>1. (\A u \in Threads : InHand(u)' = InHand(u)) /\ committed' = committed
  BY DEF Worker, WorkerLoop, WorkerDequeue, StatementExecute, TransactionStart,
     TransactionStatement, TransactionRollback, TransactionCommit, QueryRead, QueryAnswer,
     clientVars, countVars, InHand
<1>2. sqlQueue \in Seq(Task)
  BY DEF TypeOK, QueueTypes
<1>3. ASSUME \A i \in DOMAIN sqlQueue' : Handed(committed, sqlQueue'[i]),
             wpc' = "call" => Handed(committed, job')
      PROVE  Owned'
  BY <1>1, <1>3 DEF Owned
<1>4. CASE WorkerDequeue
  <2>1. CASE sqlQueue # <<>> /\ job' = Head(sqlQueue) /\ sqlQueue' = Tail(sqlQueue)
    <3>1. /\ job' = sqlQueue[1] /\ 1 \in DOMAIN sqlQueue
          /\ \A i \in DOMAIN sqlQueue' : i + 1 \in DOMAIN sqlQueue /\ sqlQueue'[i] = sqlQueue[i + 1]
      BY <1>2, <2>1
    <3>. QED BY <1>3, <3>1 DEF Owned
  <2>2. CASE sqlQueue' = sqlQueue /\ wpc' = "loop"
    BY <1>3, <2>2 DEF Owned
  <2>. QED BY <1>4, <2>1, <2>2 DEF WorkerDequeue
<1>5. CASE QueryRead
  <2>1. sqlQueue' = sqlQueue /\ job' = [job EXCEPT !.reads = @ - 1] /\ job \in Task
        /\ job.kind = "query"
    BY <1>5 DEF QueryRead, TypeOK, WorkerTypes
  <2>2. job'.kind = "query"
    BY <2>1 DEF Task
  <2>. QED BY <1>3, <2>1, <2>2 DEF Owned, Handed
<1>6. CASE ~WorkerDequeue /\ ~QueryRead
  <2>1. sqlQueue' = sqlQueue /\ wpc' # "call"
    BY <1>6 DEF Worker, WorkerLoop, StatementExecute, TransactionStart, TransactionStatement,
       TransactionRollback, TransactionCommit, QueryAnswer, FinishJob
  <2>. QED BY <1>3, <2>1 DEF Owned
<1>. QED BY <1>4, <1>5, <1>6

\* Every transaction on the line is one that was committed.
LEMMA OwnedAlways == Spec => []Owned
<1>1. Init => Owned
  <2>1. Init => sqlQueue = <<>> /\ wpc = "loop" /\ \A t \in Threads : InHand(t) = NoTask
    BY DEF Init, InHand
  <2>2. NoTask.kind = "none"
    BY DEF NoTask, SqlAsyncTask
  <2>. QED BY <2>1, <2>2 DEF Owned, Handed
<1>2. TypeOK /\ Owned /\ [Next]_vars => Owned'
  <2>. SUFFICES ASSUME TypeOK, Owned, [Next]_vars PROVE Owned'
    OBVIOUS
  <2>1. CASE HaltDelayThread \/ Terminated \/ UNCHANGED vars
    <3>1. /\ UNCHANGED <<inHand, job, wpc, committed>>
          /\ sqlQueue' = sqlQueue \/ sqlQueue' = <<>>
      BY <2>1 DEF HaltDelayThread, StopRunning, Deactivate, Joined, Terminated, vars,
         clientVars, workerVars, countVars
    <3>2. \A u \in Threads : InHand(u)' = InHand(u)
      BY <3>1 DEF InHand
    <3>. QED BY <3>1, <3>2 DEF Owned
  <2>. QED BY <2>1, ClientOwned, WorkerOwned DEF Next
<1>. QED BY <1>1, <1>2, TypeCorrect, PTL DEF Spec

\* What a step must not do to the direct writes and to what they fell into.
LEMMA FallenKept ==
    ASSUME Fallen, committed \subseteq committed', dead \subseteq dead',
           direct \subseteq direct', fell' = fell, directs' = directs,
           \/ conn.direct \subseteq direct'
           \/ Current \cup dead \subseteq dead'
           \/ conn.direct \subseteq conn'.direct /\ Current \cup dead \subseteq Current' \cup dead',
           conn'.inTran => /\ conn'.tran \in committed' /\ conn'.tran # {}
                           /\ conn'.tran \subseteq Current' \cup dead'
    PROVE  Fallen'
<1>1. conn'.inTran => conn'.tran \in committed' /\ conn'.tran # {} /\ Held(conn.tran)'
  BY DEF Held
<1>2. ASSUME NEW p \in fell
      PROVE  /\ p[2] \in committed' /\ p[2] # {}
             /\ \/ p[1] \in direct'
                \/ p[1] \in conn'.direct /\ Held(p[2])'
                \/ p[2] \subseteq dead'
  <2>1. /\ p[2] \in committed /\ p[2] # {}
        /\ \/ p[1] \in direct
           \/ p[1] \in conn.direct /\ p[2] \subseteq Current \cup dead
           \/ p[2] \subseteq dead
    BY DEF Fallen, Held
  <2>2. p[2] \subseteq Current' \cup dead' => Held(p[2])'
    BY DEF Held
  <2>. QED BY <2>1, <2>2
<1>3. \A t \in Threads : \A n \in 1 .. directs'[t] :
          <<t, n>> \in direct' \/ \E tr \in committed' : <<<<t, n>>, tr>> \in fell'
  BY DEF Fallen
<1>. QED BY <1>1, <1>2, <1>3 DEF Fallen

\* A direct write that falls into a transaction is on the connection with it.
LEMMA DirectFalls ==
    ASSUME TypeOK, Fallen, NEW t \in Threads, DirectExecute(t)
    PROVE  Fallen'
<1>. DEFINE w == <<t, directs[t] + 1>>
<1>1. /\ conn \in [inTran : BOOLEAN, log : Seq(Writes), direct : SUBSET Writes,
                   tran : SUBSET Writes]
      /\ directs \in [Threads -> Nat]
  BY DEF TypeOK, DbTypes, CountTypes
<1>2. /\ directs' = [directs EXCEPT ![t] = @ + 1] /\ UNCHANGED <<dead, committed, job, log>>
      /\ \/ /\ conn.inTran /\ conn' = [conn EXCEPT !.direct = @ \cup {w}]
            /\ fell' = fell \cup {<<w, conn.tran>>} /\ direct' = direct
         \/ ~conn.inTran /\ direct' = direct \cup {w} /\ conn' = conn /\ fell' = fell
  BY DEF DirectExecute, workerVars
<1>3. \A u \in Threads : \A n \in 1 .. directs'[u] :
          n \in 1 .. directs[u] \/ <<u, n>> = w
  BY <1>1, <1>2
<1>4. \A u \in Threads : \A n \in 1 .. directs[u] :
          <<u, n>> \in direct \/ \E tr \in committed : <<<<u, n>>, tr>> \in fell
  BY DEF Fallen
<1>. HIDE DEF w
<1>5. /\ conn'.inTran = conn.inTran /\ conn'.log = conn.log /\ conn'.tran = conn.tran
      /\ conn'.direct = IF conn.inTran THEN conn.direct \cup {w} ELSE conn.direct
  BY <1>1, <1>2
<1>6. Current' = Current
  BY <1>2, <1>5 DEF Current, Row, TaskAt
<1>7. \A tr : Held(tr) <=> tr \subseteq Current' \cup dead'
  BY <1>2, <1>6 DEF Held
<1>8. conn'.inTran => conn'.tran \in committed' /\ conn'.tran # {} /\ Held(conn.tran)'
  BY <1>2, <1>5, <1>7 DEF Fallen, Held
<1>9. \A u \in Threads : \A n \in 1 .. directs'[u] :
          <<u, n>> \in direct' \/ \E tr \in committed' : <<<<u, n>>, tr>> \in fell'
  <2>. SUFFICES ASSUME NEW u \in Threads, NEW n \in 1 .. directs'[u]
                PROVE  <<u, n>> \in direct' \/ \E tr \in committed' : <<<<u, n>>, tr>> \in fell'
    OBVIOUS
  <2>1. CASE n \in 1 .. directs[u]
    BY <1>2, <1>4, <2>1
  <2>2. CASE <<u, n>> = w
    BY <1>2, <2>2 DEF Fallen
  <2>. QED BY <1>3, <2>1, <2>2
<1>10. ASSUME NEW p \in fell'
       PROVE  /\ p[2] \in committed' /\ p[2] # {}
              /\ \/ p[1] \in direct'
                 \/ p[1] \in conn'.direct /\ Held(p[2])'
                 \/ p[2] \subseteq dead'
  <2>1. p[2] \subseteq Current' \cup dead' => Held(p[2])'
    BY DEF Held
  <2>2. CASE p \in fell
    <3>1. /\ p[2] \in committed /\ p[2] # {}
          /\ \/ p[1] \in direct
             \/ p[1] \in conn.direct /\ Held(p[2])
             \/ p[2] \subseteq dead
      BY <2>2 DEF Fallen
    <3>. QED BY <1>2, <1>5, <1>7, <2>1, <3>1
  <2>3. CASE p = <<w, conn.tran>> /\ conn.inTran
    <3>1. conn.tran \in committed /\ conn.tran # {} /\ Held(conn.tran)
      BY <2>3 DEF Fallen
    <3>. QED BY <1>2, <1>5, <1>7, <2>1, <2>3, <3>1
  <2>. QED BY <1>2, <2>2, <2>3
<1>. QED BY <1>8, <1>9, <1>10 DEF Fallen

\* The other client operations leave them alone.
LEMMA ClientFallen ==
    ASSUME TypeOK, Fallen, NEW t \in Threads, Client(t)
    PROVE  Fallen'
<1>1. CASE DirectExecute(t)
  BY <1>1, DirectFalls
<1>2. CASE ~DirectExecute(t)
  <2>1. /\ UNCHANGED <<directs, direct, fell, job>> /\ dead \subseteq dead'
        /\ committed \subseteq committed'
        /\ \/ conn' = conn
           \/ \E w \in Writes : conn' = [conn EXCEPT !.log = Append(@, w)]
    <3>1. CASE ExecuteSync(t)
      <4>1. <<t, issued[t] + 1>> \in Writes
        BY DEF TypeOK, CountTypes, Writes
      <4>. QED BY <3>1, <4>1 DEF ExecuteSync, Perform, Obeyed, Refused, countVars, fateVars,
                  workerVars
    <3>2. CASE ~ExecuteSync(t)
      BY <1>2, <3>2 DEF Client, BeginTransaction, RollbackTransaction, CommitTransaction,
         Execute, AsyncQuery, Delay, Update, dbVars, countVars, fateVars, workerVars
    <3>. QED BY <3>1, <3>2
  <2>2. /\ conn'.inTran = conn.inTran /\ conn'.tran = conn.tran /\ conn'.direct = conn.direct
        /\ Range(conn.log) \subseteq Range(conn'.log)
    <3>1. CASE conn' = conn
      BY <3>1
    <3>2. ASSUME NEW w \in Writes, conn' = [conn EXCEPT !.log = Append(@, w)]
          PROVE  /\ conn'.inTran = conn.inTran /\ conn'.tran = conn.tran
                 /\ conn'.direct = conn.direct /\ Range(conn.log) \subseteq Range(conn'.log)
      <4>1. conn \in [inTran : BOOLEAN, log : Seq(Writes), direct : SUBSET Writes,
                      tran : SUBSET Writes]
        BY DEF TypeOK, DbTypes
      <4>2. conn'.log = Append(conn.log, w)
        BY <3>2, <4>1
      <4>3. Range(conn'.log) = Range(conn.log) \cup {w}
        BY <4>1, <4>2, AppendRange
      <4>. QED BY <3>2, <4>1, <4>3
    <3>. QED BY <2>1, <3>1, <3>2
  <2>3. Current \subseteq Current'
    BY <2>1, <2>2 DEF Current, Row, TaskAt
  <2>4. conn'.inTran => /\ conn'.tran \in committed' /\ conn'.tran # {}
                        /\ conn'.tran \subseteq Current' \cup dead'
    BY <2>1, <2>2, <2>3 DEF Fallen, Held
  <2>. QED BY <2>1, <2>2, <2>3, <2>4, FallenKept
<1>. QED BY <1>1, <1>2

\* The delay thread loses a direct write only with all of the transaction around it.
LEMMA WorkerFallen ==
    ASSUME TypeOK, Pipeline, Owned, Fallen, Worker
    PROVE  Fallen'
<1>1. /\ UNCHANGED <<directs, committed, fell>> /\ dead \subseteq dead'
  BY DEF Worker, WorkerLoop, WorkerDequeue, StatementExecute, TransactionStart,
     TransactionStatement, TransactionRollback, TransactionCommit, QueryRead, QueryAnswer,
     countVars, fateVars, dbVars, Perform, Obeyed, Refused
<1>2. /\ conn \in [inTran : BOOLEAN, log : Seq(Writes), direct : SUBSET Writes,
                   tran : SUBSET Writes]
      /\ conn.inTran \/ conn = NoServerTran
  BY DEF TypeOK, DbTypes
<1>3. ASSUME ~conn.inTran PROVE conn.direct = {}
  BY <1>2, <1>3 DEF NoServerTran
<1>4. Row(0) = WritesIn(job)
  BY InProgress
<1>5. ASSUME direct' = direct, conn'.inTran = conn.inTran, conn'.tran = conn.tran,
             conn'.direct = conn.direct,
             conn.inTran => Current \cup dead \subseteq Current' \cup dead'
      PROVE  Fallen'
  <2>1. CASE conn.inTran
    <3>1. conn'.tran \in committed' /\ conn'.tran # {} /\ conn'.tran \subseteq Current' \cup dead'
      BY <1>1, <1>5, <2>1 DEF Fallen, Held
    <3>. QED BY <1>1, <1>5, <2>1, <3>1, FallenKept
  <2>2. CASE ~conn.inTran
    BY <1>1, <1>3, <1>5, <2>2, FallenKept
  <2>. QED BY <2>1, <2>2
<1>6. CASE WorkerLoop \/ QueryRead \/ QueryAnswer
  <2>1. UNCHANGED <<conn, direct, dead>> /\ Row(0)' = Row(0)
    BY <1>6, QuietSteps DEF WorkerLoop, QueryRead, QueryAnswer, dbVars
  <2>2. Current' = Current
    BY <2>1 DEF Current
  <2>. QED BY <1>5, <2>1, <2>2
<1>7. CASE WorkerDequeue
  <2>1. UNCHANGED <<conn, direct, dead>> /\ wpc = "dequeue"
    BY <1>7 DEF WorkerDequeue, dbVars
  <2>2. Row(0) = {}
    <3>1. job = NoTask
      BY <2>1 DEF TypeOK, WorkerTypes
    <3>. QED BY <3>1, NoTaskEmpty DEF Row, TaskAt
  <2>3. Current \subseteq Current'
    BY <2>1, <2>2 DEF Current
  <2>. QED BY <1>5, <2>1, <2>3
<1>8. CASE StatementExecute \/ TransactionStatement
  <2>. DEFINE w == <<job.by, Head(job.body)>>
  <2>1. direct' = direct /\ Perform(w) /\ w \in Writes /\ Row(0) \subseteq Row(0)' \cup {w}
    BY <1>8, StatementLine, SingleLine DEF StatementExecute, TransactionStatement
  <2>. HIDE DEF w
  <2>2. CASE Refused(w)
    <3>1. conn' = conn /\ dead' = dead \cup {w}
      BY <2>2 DEF Refused
    <3>2. Current \cup dead \subseteq Current' \cup dead'
      BY <2>1, <3>1 DEF Current
    <3>. QED BY <1>5, <2>1, <3>1, <3>2
  <2>3. CASE Obeyed(w) /\ conn.inTran
    <3>1. conn' = [conn EXCEPT !.log = Append(@, w)] /\ dead' = dead
      BY <2>3 DEF Obeyed
    <3>2. /\ conn'.log = Append(conn.log, w) /\ conn'.direct = conn.direct
          /\ conn'.inTran = conn.inTran /\ conn'.tran = conn.tran
      BY <1>2, <3>1
    <3>3. Range(conn'.log) = Range(conn.log) \cup {w}
      BY <1>2, <2>1, <3>2, AppendRange
    <3>4. Current \cup dead \subseteq Current' \cup dead'
      BY <2>1, <3>1, <3>3 DEF Current
    <3>. QED BY <1>5, <2>1, <3>2, <3>4
  <2>4. CASE Obeyed(w) /\ ~conn.inTran
    <3>1. conn' = conn
      BY <2>4 DEF Obeyed
    <3>. QED BY <1>5, <2>1, <2>4, <3>1
  <2>. QED BY <2>1, <2>2, <2>3, <2>4 DEF Perform
<1>9. CASE TransactionStart
  <2>1. Row(0)' = Row(0) /\ dead' = dead
    BY <1>9, QuietSteps
  <2>2. CASE UNCHANGED <<conn, direct>>
    <3>1. Current' = Current
      BY <2>1, <2>2 DEF Current
    <3>. QED BY <1>5, <2>1, <2>2, <3>1
  <2>3. CASE /\ job.body # <<>> /\ conn'.inTran /\ conn'.tran = WritesIn(job)
             /\ \/ /\ conn'.direct = {} /\ direct' = direct \cup conn.direct
                \/ /\ conn'.log = conn.log /\ conn'.direct = conn.direct /\ direct' = direct
    <3>1. WritesIn(job) # {} /\ WritesIn(job) \in committed
      <4>1. wpc = "call" /\ job.kind = "trans" /\ job \in Task
        BY <1>9, StartCases
      <4>2. 1 \in DOMAIN job.body
        BY <2>3, <4>1 DEF Task
      <4>. QED BY <4>1, <4>2 DEF WritesIn, Owned, Handed
    <3>2. conn'.tran \in committed' /\ conn'.tran # {} /\ conn'.tran \subseteq Current' \cup dead'
      BY <1>1, <1>4, <2>1, <2>3, <3>1 DEF Current
    <3>3. CASE direct' = direct \cup conn.direct
      BY <1>1, <3>2, <3>3, FallenKept
    <3>4. CASE conn'.log = conn.log /\ conn'.direct = conn.direct /\ direct' = direct
      <4>1. Current' = Current
        BY <2>1, <3>4 DEF Current
      <4>. QED BY <1>1, <2>1, <3>2, <3>4, <4>1, FallenKept
    <3>. QED BY <2>3, <3>3, <3>4
  <2>. QED BY <1>9, <2>2, <2>3, StartCases
<1>10. CASE TransactionRollback
  <2>1. direct' = direct
    BY <1>10 DEF TransactionRollback
  <2>2. CASE conn' = NoServerTran /\ dead' = dead \cup Range(conn.log) \cup WritesIn(job)
    <3>1. Current \cup dead \subseteq dead' /\ ~conn'.inTran
      BY <1>4, <2>2 DEF Current, NoServerTran
    <3>. QED BY <1>1, <2>1, <3>1, FallenKept
  <2>3. CASE conn' = conn /\ dead' = dead \cup WritesIn(job)
    <3>1. Current \cup dead \subseteq Current' \cup dead'
      BY <1>4, <2>3 DEF Current
    <3>. QED BY <1>5, <2>1, <2>3, <3>1
  <2>. QED BY <1>10, <2>2, <2>3 DEF TransactionRollback
<1>11. CASE TransactionCommit
  <2>1. dead' = dead /\ job.body = <<>>
    BY <1>11 DEF TransactionCommit
  <2>2. CASE conn' = NoServerTran /\ direct' = direct \cup conn.direct
    <3>1. ~conn'.inTran
      BY <2>2 DEF NoServerTran
    <3>. QED BY <1>1, <2>2, <3>1, FallenKept
  <2>3. CASE conn' = conn /\ direct' = direct
    <3>1. Row(0) = {}
      BY <1>4, <2>1 DEF WritesIn
    <3>2. Current \subseteq Current'
      BY <2>3, <3>1 DEF Current
    <3>. QED BY <1>5, <2>1, <2>3, <3>2
  <2>. QED BY <1>11, <2>2, <2>3 DEF TransactionCommit
<1>. QED BY <1>6, <1>7, <1>8, <1>9, <1>10, <1>11 DEF Worker

\* It is always known where a direct write is, and what it fell into.
LEMMA FallenAlways == Spec => []Fallen
<1>1. Init => Fallen
  BY DEF Init, Fallen, NoServerTran
<1>2. TypeOK /\ Pipeline /\ Owned /\ Fallen /\ [Next]_vars => Fallen'
  <2>. SUFFICES ASSUME TypeOK, Pipeline, Owned, Fallen, [Next]_vars PROVE Fallen'
    OBVIOUS
  <2>1. CASE HaltDelayThread \/ Terminated \/ UNCHANGED vars
    <3>1. UNCHANGED <<directs, direct, conn, dead, committed, fell, job>>
      BY <2>1 DEF HaltDelayThread, StopRunning, Deactivate, Joined, Terminated, vars, dbVars,
         countVars, fateVars, workerVars
    <3>2. Current' = Current
      BY <3>1 DEF Current, Row, TaskAt
    <3>3. conn'.inTran => /\ conn'.tran \in committed' /\ conn'.tran # {}
                          /\ conn'.tran \subseteq Current' \cup dead'
      BY <3>1, <3>2 DEF Fallen, Held
    <3>. QED BY <3>1, <3>2, <3>3, FallenKept
  <2>. QED BY <2>1, ClientFallen, WorkerFallen DEF Next
<1>. QED BY <1>1, <1>2, TypeCorrect, PipelineAlways, OwnedAlways, PTL DEF Spec

\* A DirectExecute() that succeeded stays, or is lost with all of the transaction of the
\* delay thread into which it fell.
THEOREM DirectWritesKept == Spec => []DirectWriteFate
<1>1. Fallen => DirectWriteFate
  <2>. SUFFICES ASSUME Fallen, NEW t \in Threads, NEW n \in 1 .. directs[t]
                PROVE  \/ <<t, n>> \in direct \cup conn.direct
                       \/ \E tr \in committed : /\ <<<<t, n>>, tr>> \in fell
                                                /\ tr # {} /\ tr \subseteq dead
    BY DEF DirectWriteFate
  <2>1. CASE <<t, n>> \in direct
    BY <2>1
  <2>2. ASSUME NEW tr \in committed, <<<<t, n>>, tr>> \in fell
        PROVE  <<t, n>> \in direct \cup conn.direct \/ (tr # {} /\ tr \subseteq dead)
    <3>1. PICK p \in fell : p = <<<<t, n>>, tr>>
      BY <2>2
    <3>2. p[1] = <<t, n>> /\ p[2] = tr
      BY <3>1
    <3>. QED BY <3>2 DEF Fallen
  <2>. QED BY <2>1, <2>2 DEF Fallen
<1>. QED BY <1>1, FallenAlways, PTL

-----------------------------------------------------------------------------
(* What becomes of a query.                                                *)

\* A query asks, and nothing else does.
LEMMA WhoAsks ==
    /\ Asks(NoTask) = {}
    /\ \A t, n : Asks(SqlStatement(t, n)) = {} /\ Asks(SqlTransaction(t, n)) = {}
    /\ \A t, k, n : Asks(SqlQuery(t, k, n)) = {<<t, k>>}
  BY DEF Asks, NoTask, SqlStatement, SqlTransaction, SqlQuery, SqlAsyncTask

\* The numbers of a reader.
LEMMA AnswerTypes ==
    ASSUME TypeOK, NEW t \in Readers
    PROVE  /\ t \in Threads /\ called[t] \in Nat /\ asked[t] \in Nat /\ results[t] \in Seq(Nat)
           /\ Len(results[t]) \in Nat /\ Answered(t) \in Nat
<1>1. t \in Threads /\ called[t] \in Nat /\ asked[t] \in Nat /\ results[t] \in Seq(Nat)
  BY SqlConstants DEF TypeOK, CountTypes, QueueTypes
<1>2. Len(results[t]) \in Nat
  BY <1>1
<1>. QED BY <1>1, <1>2 DEF Answered

\* Steps that neither ask nor answer.
LEMMA AnswersStill ==
    ASSUME Answers, UNCHANGED <<sqlQueue, asked>>,
           \A t \in Readers : Answered(t)' = Answered(t),
           \A t \in Readers : \A i \in DOMAIN results'[t] : results'[t][i] = called'[t] + i,
           AskRow(0)' = AskRow(0), \A t \in Threads : AskHand(t)' = AskHand(t),
           halt' # "down" => halt # "down"
    PROVE  Answers'
<1>1. Rows' = Rows
  BY DEF Rows
<1>2. \A i \in Rows : AskRow(i)' = AskRow(i)
  BY DEF AskRow, TaskAt
<1>3. \A i \in Rows' : InTurn(AskRow(i))'
  <2>. TAKE i \in Rows'
  <2>1. InTurn(AskRow(i)) /\ AskRow(i)' = AskRow(i)
    BY <1>1, <1>2 DEF Answers
  <2>. QED BY <2>1 DEF InTurn
<1>4. \A u \in Threads : InTurn(AskHand(u))'
  <2>. TAKE u \in Threads
  <2>1. InTurn(AskHand(u)) /\ AskHand(u)' = AskHand(u)
    BY DEF Answers
  <2>. QED BY <2>1 DEF InTurn
<1>5. \A i, j \in Rows' : i < j => Below(AskRow(i), AskRow(j))'
  BY <1>1, <1>2 DEF Answers, Below
<1>6. \A i \in Rows', u \in Threads : Below(AskRow(i), AskHand(u))'
  BY <1>1, <1>2 DEF Answers, Below
<1>7. ASSUME halt' # "down", NEW u \in Readers, NEW n \in Answered(u)' + 1 .. asked'[u]
      PROVE  <<u, n>> \in AskHand(u)' \/ \E i \in Rows' : <<u, n>> \in AskRow(i)'
  <2>1. <<u, n>> \in AskHand(u) \/ \E i \in Rows : <<u, n>> \in AskRow(i)
    BY <1>7 DEF Answers
  <2>. QED BY <1>1, <1>2, <2>1, SqlConstants
<1>8. \A u \in Readers : Answered(u)' <= asked'[u]
  BY DEF Answers
<1>. QED BY <1>3, <1>4, <1>5, <1>6, <1>7, <1>8 DEF Answers

\* A reader asks: the query stands behind its earlier ones.
LEMMA AnswersAsk ==
    ASSUME TypeOK, TypeOK', Answers, NEW t \in Readers, inHand[t] = <<>>, NEW task,
           Asks(task) = {<<t, asked[t] + 1>>}, inHand' = [inHand EXCEPT ![t] = <<task>>],
           asked' = [asked EXCEPT ![t] = @ + 1],
           UNCHANGED <<sqlQueue, job, results, called, halt>>
    PROVE  Answers'
<1>1. /\ Rows' = Rows /\ \A i \in Rows : AskRow(i)' = AskRow(i)
      /\ \A u \in Readers : Answered(u)' = Answered(u)
  BY DEF Rows, TaskAt, AskRow, Answered
<1>2. \A u \in Readers : u \in Threads /\ Answered(u) \in Nat /\ asked[u] \in Nat
  BY AnswerTypes
<1>3. asked'[t] = asked[t] + 1 /\ \A u \in Threads : u # t => asked'[u] = asked[u]
  BY <1>2 DEF TypeOK, CountTypes
<1>4. AskHand(t)' = {<<t, asked[t] + 1>>} /\ \A u \in Threads : u # t => AskHand(u)' = AskHand(u)
  <2>1. InHand(t)' = task /\ \A u \in Threads : u # t => InHand(u)' = InHand(u)
    BY <1>2 DEF TypeOK, ClientTypes, InHand
  <2>2. AskHand(t)' = Asks(InHand(t)')
    BY DEF AskHand, Asks
  <2>. QED BY <2>1, <2>2 DEF AskHand
<1>5. AskHand(t) = {}
  BY WhoAsks DEF AskHand, InHand
<1>6. ASSUME NEW A, InTurn(A) PROVE InTurn(A)' /\ Below(A, {<<t, asked[t] + 1>>})
  BY <1>1, <1>2, <1>3, <1>6 DEF InTurn, Below
<1>7. \A u \in Readers : Answered(u)' <= asked'[u]
  BY <1>1, <1>2, <1>3 DEF Answers
<1>8. \A u \in Readers : \A i \in DOMAIN results'[u] : results'[u][i] = called'[u] + i
  BY DEF Answers
<1>9. \A i \in Rows' : InTurn(AskRow(i))'
  <2>. TAKE i \in Rows'
  <2>1. i \in Rows /\ InTurn(AskRow(i)) /\ AskRow(i)' = AskRow(i)
    BY <1>1 DEF Answers
  <2>. QED BY <1>1, <1>2, <1>3, <2>1 DEF InTurn
<1>10. \A u \in Threads : InTurn(AskHand(u))'
  <2>. TAKE u \in Threads
  <2>1. InTurn(AskHand(u))
    BY DEF Answers
  <2>2. CASE u = t
    <3>1. Answered(t)' < asked[t] + 1 /\ asked[t] + 1 <= asked'[t]
      BY <1>1, <1>2, <1>3 DEF Answers
    <3>. QED BY <1>4, <2>2, <3>1 DEF InTurn
  <2>3. CASE u # t
    BY <1>1, <1>2, <1>3, <1>4, <2>1, <2>3 DEF InTurn
  <2>. QED BY <2>2, <2>3
<1>11. \A i, j \in Rows' : i < j => Below(AskRow(i), AskRow(j))'
  BY <1>1 DEF Answers, Below
<1>12. \A i \in Rows', u \in Threads : Below(AskRow(i), AskHand(u))'
  <2>. TAKE i \in Rows', u \in Threads
  <2>1. i \in Rows /\ InTurn(AskRow(i)) /\ AskRow(i)' = AskRow(i)
    BY <1>1 DEF Answers
  <2>2. Below(AskRow(i), AskHand(u)')
    BY <1>4, <1>6, <2>1 DEF Answers
  <2>. QED BY <2>1, <2>2 DEF Below
<1>13. ASSUME halt' # "down", NEW u \in Readers, NEW n \in Answered(u)' + 1 .. asked'[u]
       PROVE  <<u, n>> \in AskHand(u)' \/ \E i \in Rows' : <<u, n>> \in AskRow(i)'
  <2>1. CASE u = t /\ n = asked[t] + 1
    BY <1>4, <2>1
  <2>2. CASE ~(u = t /\ n = asked[t] + 1)
    <3>1. n \in Answered(u) + 1 .. asked[u]
      BY <1>1, <1>2, <1>3, <2>2
    <3>2. <<u, n>> \in AskHand(u) \/ \E i \in Rows : <<u, n>> \in AskRow(i)
      BY <1>13, <3>1 DEF Answers
    <3>. QED BY <1>1, <1>2, <1>4, <1>5, <3>2
  <2>. QED BY <2>1, <2>2
<1>. QED BY <1>7, <1>8, <1>9, <1>10, <1>11, <1>12, <1>13 DEF Answers

\* The queue takes the task of a thread.
LEMMA AnswersEnqueued ==
    ASSUME TypeOK, Answers, NEW t \in Threads, inHand[t] # <<>>,
           \A u \in Threads : inHand[u] # <<>> => InHand(u).by = u,
           inHand' = [inHand EXCEPT ![t] = <<>>],
           sqlQueue' = Append(sqlQueue, inHand[t][1]),
           UNCHANGED <<job, results, called, asked, halt>>
    PROVE  Answers'
<1>1. sqlQueue \in Seq(Task) /\ inHand[t][1] \in Task /\ inHand[t][1] = InHand(t)
  BY DEF TypeOK, QueueTypes, ClientTypes, InHand
<1>. PICK N \in Nat : N = Len(sqlQueue) + 1
  BY <1>1
<1>2. Len(sqlQueue) \in Nat /\ Len(sqlQueue') = N
      /\ sqlQueue'[N] = InHand(t) /\ \A i \in 1 .. Len(sqlQueue) : sqlQueue'[i] = sqlQueue[i]
  BY <1>1
<1>3. N # 0 /\ Rows' = Rows \cup {N} /\ \A i \in Rows : i < N /\ i \in Int
  BY <1>2 DEF Rows
<1>4. \A i \in Rows : TaskAt(i)' = TaskAt(i)
  BY <1>2 DEF Rows, TaskAt
<1>5. /\ \A i \in Rows : AskRow(i)' = AskRow(i)
      /\ AskRow(N)' = AskHand(t)
      /\ \A u \in Readers : Answered(u)' = Answered(u)
  <2>1. TaskAt(N)' = InHand(t)
    BY <1>2, <1>3 DEF TaskAt
  <2>2. AskRow(N)' = Asks(TaskAt(N)')
    BY DEF AskRow, Asks
  <2>. QED BY <1>4, <2>1, <2>2 DEF AskHand, AskRow, Answered
<1>6. AskHand(t)' = {} /\ \A u \in Threads : u # t => AskHand(u)' = AskHand(u)
  <2>1. InHand(t)' = NoTask /\ \A u \in Threads : u # t => InHand(u)' = InHand(u)
    BY DEF TypeOK, ClientTypes, InHand
  <2>2. AskHand(t)' = Asks(InHand(t)')
    BY DEF AskHand, Asks
  <2>. QED BY <2>1, <2>2, WhoAsks DEF AskHand
<1>7. \A u, v \in Threads, n \in Nat : <<u, n>> \in AskHand(v) => u = v
  BY WhoAsks DEF AskHand, InHand, Asks
<1>13. \A i \in Rows' : InTurn(AskRow(i))'
  <2>. TAKE i \in Rows'
  <2>1. CASE i \in Rows
    <3>1. InTurn(AskRow(i)) /\ AskRow(i)' = AskRow(i)
      BY <1>5, <2>1 DEF Answers
    <3>. QED BY <1>5, <3>1 DEF InTurn
  <2>2. CASE i = N
    <3>1. InTurn(AskHand(t)) /\ AskRow(i)' = AskHand(t)
      BY <1>5, <2>2 DEF Answers
    <3>. QED BY <1>5, <3>1 DEF InTurn
  <2>. QED BY <1>3, <2>1, <2>2
<1>14. \A u \in Threads : InTurn(AskHand(u))'
  <2>. TAKE u \in Threads
  <2>1. CASE u = t
    BY <1>6, <2>1 DEF InTurn
  <2>2. CASE u # t
    <3>1. InTurn(AskHand(u)) /\ AskHand(u)' = AskHand(u)
      BY <1>6, <2>2 DEF Answers
    <3>. QED BY <1>5, <3>1 DEF InTurn
  <2>. QED BY <2>1, <2>2
<1>9. ASSUME NEW i \in Rows', NEW j \in Rows', i < j PROVE Below(AskRow(i), AskRow(j))'
  <2>1. i \in Rows
    BY <1>3, <1>9
  <2>2. CASE j \in Rows
    BY <1>5, <1>9, <2>1, <2>2 DEF Answers, Below
  <2>3. CASE j = N
    BY <1>5, <2>1, <2>3 DEF Answers, Below
  <2>. QED BY <1>3, <2>2, <2>3
<1>10. ASSUME NEW i \in Rows', NEW u \in Threads PROVE Below(AskRow(i), AskHand(u))'
  <2>1. CASE u = t
    BY <1>6, <2>1 DEF Below
  <2>2. CASE u # t /\ i \in Rows
    BY <1>5, <1>6, <2>2 DEF Answers, Below
  <2>3. CASE u # t /\ i = N
    <3>1. Below(AskHand(t), AskHand(u))
      BY <1>7, <2>3 DEF Below
    <3>2. AskRow(i)' = AskHand(t) /\ AskHand(u)' = AskHand(u)
      BY <1>5, <1>6, <2>3
    <3>. QED BY <3>1, <3>2 DEF Below
  <2>. QED BY <1>3, <2>1, <2>2, <2>3
<1>11. ASSUME halt' # "down", NEW u \in Readers, NEW n \in Answered(u)' + 1 .. asked'[u]
       PROVE  <<u, n>> \in AskHand(u)' \/ \E i \in Rows' : <<u, n>> \in AskRow(i)'
  <2>1. <<u, n>> \in AskHand(u) \/ \E i \in Rows : <<u, n>> \in AskRow(i)
    BY <1>5, <1>11 DEF Answers
  <2>2. u \in Threads /\ N \in Rows' /\ \A i \in Rows : i \in Rows'
    BY <1>3, SqlConstants
  <2>3. CASE <<u, n>> \in AskHand(u)
    <3>1. \/ u = t /\ <<u, n>> \in AskRow(N)'
          \/ u # t /\ <<u, n>> \in AskHand(u)'
      BY <1>5, <1>6, <2>2, <2>3
    <3>. QED BY <2>2, <3>1
  <2>4. CASE \E i \in Rows : <<u, n>> \in AskRow(i)
    BY <1>5, <2>2, <2>4
  <2>. QED BY <2>1, <2>3, <2>4
<1>12. /\ \A u \in Readers : Answered(u)' <= asked'[u]
       /\ \A u \in Readers : \A i \in DOMAIN results'[u] : results'[u][i] = called'[u] + i
  BY <1>5 DEF Answers
<1>. QED BY <1>13, <1>14, <1>9, <1>10, <1>11, <1>12 DEF Answers

\* The delay thread takes the first row.
LEMMA AnswersDequeued ==
    ASSUME TypeOK, Answers, job = NoTask, sqlQueue # <<>>,
           job' = Head(sqlQueue), sqlQueue' = Tail(sqlQueue),
           UNCHANGED <<inHand, results, called, asked, halt>>
    PROVE  Answers'
<1>1. sqlQueue \in Seq(Task)
  BY DEF TypeOK, QueueTypes
<1>2. /\ Len(sqlQueue) \in Nat /\ Len(sqlQueue') = Len(sqlQueue) - 1 /\ Len(sqlQueue) >= 1
      /\ job' = sqlQueue[1] /\ \A i \in 1 .. Len(sqlQueue) - 1 : sqlQueue'[i] = sqlQueue[i + 1]
  BY <1>1
<1>3. \A i \in Rows' : i \in Int /\ i + 1 \in Rows /\ i + 1 # 0 /\ TaskAt(i)' = TaskAt(i + 1)
  BY <1>2 DEF Rows, TaskAt
<1>4. /\ \A i \in Rows' : AskRow(i)' = AskRow(i + 1)
      /\ \A u \in Threads : AskHand(u)' = AskHand(u)
      /\ \A u \in Readers : Answered(u)' = Answered(u)
  BY <1>3 DEF AskRow, AskHand, InHand, Answered
<1>5. AskRow(0) = {} /\ \A i \in Rows : i # 0 => i - 1 \in Rows' /\ (i - 1) + 1 = i
  BY <1>2, WhoAsks DEF Rows, AskRow, TaskAt
<1>6. \A i \in Rows' : InTurn(AskRow(i))'
  BY <1>3, <1>4 DEF Answers, InTurn
<1>11. \A u \in Threads : InTurn(AskHand(u))'
  BY <1>4 DEF Answers, InTurn
<1>7. \A i \in Rows', u \in Threads : Below(AskRow(i), AskHand(u))'
  BY <1>3, <1>4 DEF Answers, Below
<1>8. ASSUME NEW i \in Rows', NEW j \in Rows', i < j PROVE Below(AskRow(i), AskRow(j))'
  <2>1. i + 1 \in Rows /\ j + 1 \in Rows /\ i + 1 < j + 1
    BY <1>3, <1>8
  <2>. QED BY <1>4, <2>1 DEF Answers, Below
<1>9. ASSUME halt' # "down", NEW u \in Readers, NEW n \in Answered(u)' + 1 .. asked'[u]
      PROVE  <<u, n>> \in AskHand(u)' \/ \E i \in Rows' : <<u, n>> \in AskRow(i)'
  <2>1. <<u, n>> \in AskHand(u) \/ \E i \in Rows : <<u, n>> \in AskRow(i)
    BY <1>4, <1>9 DEF Answers
  <2>2. CASE <<u, n>> \in AskHand(u)
    BY <1>4, <2>2, SqlConstants
  <2>3. CASE \E i \in Rows : <<u, n>> \in AskRow(i)
    <3>1. PICK i \in Rows : <<u, n>> \in AskRow(i)
      BY <2>3
    <3>2. i - 1 \in Rows' /\ (i - 1) + 1 = i
      BY <1>5, <3>1
    <3>3. AskRow(i - 1)' = AskRow(i)
      BY <1>4, <3>2
    <3>. QED BY <3>1, <3>2, <3>3
  <2>. QED BY <2>1, <2>2, <2>3
<1>10. /\ \A u \in Readers : Answered(u)' <= asked'[u]
       /\ \A u \in Readers : \A i \in DOMAIN results'[u] : results'[u][i] = called'[u] + i
  BY <1>4 DEF Answers
<1>. QED BY <1>6, <1>7, <1>8, <1>9, <1>10, <1>11 DEF Answers

\* The answer handed over is the next one its reader waits for.
LEMMA AnswersNext ==
    ASSUME TypeOK, Answers, QueryAnswer, halt # "down"
    PROVE  Answers'
<1>1. /\ job \in Task /\ job.kind = "query" /\ FinishJob
      /\ results' = [results EXCEPT ![job.by] = Append(@, job.ticket)]
      /\ UNCHANGED <<inHand, sqlQueue, asked, called, halt>>
  BY DEF QueryAnswer, TypeOK, WorkerTypes, clientVars, countVars, fateVars
<1>2. job.by \in Threads /\ job.ticket \in Nat
  BY <1>1 DEF Task
<1>. PICK r \in Threads, k \in Nat : r = job.by /\ k = job.ticket
  BY <1>2
<1>3. 0 \in Rows /\ AskRow(0) = {<<r, k>>} /\ Rows' = Rows /\ \A i \in Rows : 0 <= i
  BY <1>1, PlaceTypes DEF Rows, AskRow, TaskAt, Asks
<1>4. r \in Readers /\ Answered(r) < k /\ k <= asked[r]
  BY <1>3 DEF Answers, InTurn
<1>5. /\ \A u \in Readers : /\ u \in Threads /\ called[u] \in Nat /\ asked[u] \in Nat
                            /\ results[u] \in Seq(Nat)
                            /\ Len(results[u]) \in Nat /\ Answered(u) \in Nat
      /\ results \in [Readers -> Seq(Nat)]
  BY AnswerTypes DEF TypeOK, QueueTypes
<1>6. k = Answered(r) + 1
  <2>. SUFFICES ASSUME k # Answered(r) + 1 PROVE FALSE
    OBVIOUS
  <2>1. Answered(r) + 1 \in Answered(r) + 1 .. asked[r] /\ Answered(r) + 1 \in Nat
        /\ ~(k < Answered(r) + 1) /\ Answered(r) + 1 # k
    BY <1>4, <1>5
  <2>2. \/ <<r, Answered(r) + 1>> \in AskHand(r)
        \/ \E i \in Rows : <<r, Answered(r) + 1>> \in AskRow(i)
    BY <1>4, <2>1 DEF Answers
  <2>3. <<r, Answered(r) + 1>> \notin AskHand(r)
    BY <1>3, <2>1 DEF Answers, Below
  <2>4. ASSUME NEW i \in Rows, <<r, Answered(r) + 1>> \in AskRow(i) PROVE FALSE
    <3>1. i # 0
      BY <1>3, <2>1, <2>4
    <3>2. 0 < i
      BY <1>3, <3>1, PlaceTypes DEF Rows
    <3>3. Below(AskRow(0), AskRow(i))
      BY <1>3, <3>2 DEF Answers
    <3>. QED BY <1>3, <2>1, <2>4, <3>3 DEF Below
  <2>. QED BY <2>2, <2>3, <2>4
<1>7. /\ AskRow(0)' = {} /\ \A i \in Rows : i # 0 => AskRow(i)' = AskRow(i)
      /\ \A u \in Threads : AskHand(u)' = AskHand(u)
  <2>1. TaskAt(0)' = NoTask
    BY <1>1 DEF FinishJob, TaskAt
  <2>2. AskRow(0)' = Asks(TaskAt(0)')
    BY DEF AskRow, Asks
  <2>. QED BY <1>1, <2>1, <2>2, WhoAsks DEF AskRow, TaskAt, AskHand, InHand
<1>8. /\ results'[r] = Append(results[r], k) /\ \A u \in Readers : u # r => results'[u] = results[u]
  BY <1>1, <1>4, <1>5
<1>9. Answered(r)' = k /\ \A u \in Readers : u # r => Answered(u)' = Answered(u)
  <2>1. Len(results'[r]) = Len(results[r]) + 1
    BY <1>4, <1>5, <1>8
  <2>. QED BY <1>1, <1>4, <1>5, <1>6, <1>8, <2>1 DEF Answered
<1>10. ASSUME NEW u \in Readers, NEW i \in DOMAIN results'[u]
       PROVE  results'[u][i] = called'[u] + i
  <2>1. CASE u # r
    BY <1>1, <1>8, <2>1 DEF Answers
  <2>2. CASE u = r
    <3>1. \/ i \in DOMAIN results[r] /\ results'[r][i] = results[r][i]
          \/ i = Len(results[r]) + 1 /\ results'[r][i] = k
      BY <1>4, <1>5, <1>8, <2>2
    <3>2. k = called[r] + (Len(results[r]) + 1)
      BY <1>4, <1>5, <1>6 DEF Answered
    <3>. QED BY <1>1, <1>4, <2>2, <3>1, <3>2 DEF Answers
  <2>. QED BY <2>1, <2>2
<1>11. ASSUME NEW A, InTurn(A), Below({<<r, k>>}, A) PROVE InTurn(A)'
  BY <1>1, <1>4, <1>9, <1>11 DEF InTurn, Below
<1>12. ASSUME NEW i \in Rows' PROVE InTurn(AskRow(i))'
  <2>1. CASE i = 0
    BY <1>7, <2>1 DEF InTurn
  <2>2. CASE i # 0
    <3>1. i \in Rows /\ 0 < i
      BY <1>3, <2>2, PlaceTypes DEF Rows
    <3>2. InTurn(AskRow(i)) /\ Below({<<r, k>>}, AskRow(i)) /\ AskRow(i)' = AskRow(i)
      BY <1>3, <1>7, <2>2, <3>1 DEF Answers
    <3>. QED BY <1>1, <1>4, <1>9, <3>2 DEF InTurn, Below
  <2>. QED BY <2>1, <2>2
<1>13. ASSUME NEW u \in Threads PROVE InTurn(AskHand(u))'
  <2>1. InTurn(AskHand(u)) /\ Below({<<r, k>>}, AskHand(u)) /\ AskHand(u)' = AskHand(u)
    BY <1>3, <1>7 DEF Answers
  <2>. QED BY <1>1, <1>4, <1>9, <2>1 DEF InTurn, Below
<1>14. /\ \A i, j \in Rows' : i < j => Below(AskRow(i), AskRow(j))'
       /\ \A i \in Rows', u \in Threads : Below(AskRow(i), AskHand(u))'
  BY <1>3, <1>7 DEF Answers, Below
<1>15. ASSUME NEW u \in Readers, NEW n \in Answered(u)' + 1 .. asked'[u]
       PROVE  <<u, n>> \in AskHand(u)' \/ \E i \in Rows' : <<u, n>> \in AskRow(i)'
  <2>1. n \in Answered(u) + 1 .. asked[u] /\ <<u, n>> # <<r, k>>
    BY <1>1, <1>4, <1>5, <1>6, <1>9
  <2>2. <<u, n>> \in AskHand(u) \/ \E i \in Rows : <<u, n>> \in AskRow(i)
    BY <2>1 DEF Answers
  <2>. QED BY <1>3, <1>5, <1>7, <2>1, <2>2
<1>16. \A u \in Readers : Answered(u)' <= asked'[u]
  BY <1>1, <1>4, <1>9 DEF Answers
<1>. QED BY <1>10, <1>12, <1>13, <1>14, <1>15, <1>16 DEF Answers

\* Every step keeps the queries in line.
LEMMA NextAnswers == ASSUME TypeOK, TypeOK', Pipeline, Answers, [Next]_vars PROVE Answers'
<1>1. /\ inHand \in [Threads -> Seq(Task)] /\ 0 \in Rows /\ Readers \subseteq Threads
      /\ AskRow(0) = Asks(job)
  BY SqlConstants, PlaceTypes DEF TypeOK, ClientTypes, Rows, AskRow, TaskAt
<1>2. ASSUME UNCHANGED <<results, called>>
      PROVE  /\ \A t \in Readers : Answered(t)' = Answered(t)
             /\ \A t \in Readers : \A i \in DOMAIN results'[t] : results'[t][i] = called'[t] + i
  BY <1>2 DEF Answered, Answers
<1>3. ASSUME NEW t \in Threads, Client(t) PROVE Answers'
  <2>1. job' = job
    BY <1>3 DEF Client, BeginTransaction, RollbackTransaction, CommitTransaction, Execute,
       AsyncQuery, Delay, DirectExecute, Update, ExecuteSync, workerVars
  <2>2. AskRow(0)' = AskRow(0)
    BY <2>1 DEF AskRow, TaskAt
  <2>3. CASE CommitTransaction(t) \/ Execute(t)
    <3>1. /\ inHand[t] = <<>> /\ UNCHANGED <<sqlQueue, asked, results, called, halt>>
          /\ \/ inHand' = inHand
             \/ inHand' = [inHand EXCEPT ![t] = <<SqlTransaction(t, tran[t].body)>>]
             \/ inHand' = [inHand EXCEPT ![t] = <<SqlStatement(t, issued[t] + 1)>>]
      BY <2>3 DEF CommitTransaction, Execute, FreeAndUnlocked, Free, DelayLocked
    <3>2. \/ inHand' = inHand
          \/ \E task : Asks(task) = {} /\ inHand' = [inHand EXCEPT ![t] = <<task>>]
      BY <3>1, WhoAsks
    <3>3. ASSUME NEW u \in Threads PROVE AskHand(u)' = AskHand(u)
      <4>1. CASE inHand' = inHand
        BY <4>1 DEF AskHand, InHand
      <4>2. ASSUME NEW task, Asks(task) = {}, inHand' = [inHand EXCEPT ![t] = <<task>>]
            PROVE  AskHand(u)' = AskHand(u)
        <5>1. CASE u = t
          <6>1. AskHand(t) = {}
            BY <3>1, WhoAsks DEF AskHand, InHand
          <6>2. InHand(t)' = task
            BY <1>1, <4>2 DEF InHand
          <6>3. AskHand(t)' = Asks(InHand(t)')
            BY DEF AskHand, Asks
          <6>. QED BY <4>2, <5>1, <6>1, <6>2, <6>3
        <5>2. CASE u # t
          <6>1. InHand(u)' = InHand(u)
            BY <1>1, <4>2, <5>2 DEF InHand
          <6>. QED BY <6>1 DEF AskHand
        <5>. QED BY <5>1, <5>2
      <4>. QED BY <3>2, <4>1, <4>2
    <3>. QED BY <1>2, <2>2, <3>1, <3>3, AnswersStill
  <2>4. CASE BeginTransaction(t) \/ RollbackTransaction(t) \/ DirectExecute(t) \/ ExecuteSync(t)
    <3>1. UNCHANGED <<inHand, sqlQueue, asked, results, called, halt>>
      BY <2>4 DEF BeginTransaction, RollbackTransaction, DirectExecute, ExecuteSync,
         clientVars, countVars, fateVars
    <3>2. \A u \in Threads : AskHand(u)' = AskHand(u)
      BY <3>1 DEF AskHand, InHand
    <3>. QED BY <1>2, <2>2, <3>1, <3>2, AnswersStill
  <2>5. CASE AsyncQuery(t)
    <3>. DEFINE task == SqlQuery(t, asked[t] + 1, issued[t] - Len(tran[t].body))
    <3>1. /\ inHand[t] = <<>> /\ t \in Readers /\ asked' = [asked EXCEPT ![t] = @ + 1]
          /\ inHand' = [inHand EXCEPT ![t] = <<task>>]
          /\ UNCHANGED <<sqlQueue, results, called, halt>>
      BY <2>5 DEF AsyncQuery, Free
    <3>2. Asks(task) = {<<t, asked[t] + 1>>}
      BY WhoAsks
    <3>. HIDE DEF task
    <3>. QED BY <2>1, <3>1, <3>2, AnswersAsk
  <2>6. CASE Delay(t)
    <3>1. /\ inHand[t] # <<>> /\ inHand' = [inHand EXCEPT ![t] = <<>>]
          /\ sqlQueue' = Append(sqlQueue, inHand[t][1])
          /\ UNCHANGED <<results, called, asked, halt>>
      BY <2>6 DEF Delay, countVars, fateVars
    <3>2. \A u \in Threads : inHand[u] # <<>> => InHand(u).by = u
      BY DEF Pipeline, Places
    <3>. QED BY <2>1, <3>1, <3>2, AnswersEnqueued
  <2>7. CASE Update(t)
    <3>1. /\ t \in Readers /\ results[t] # <<>> /\ called' = [called EXCEPT ![t] = Head(results[t])]
          /\ results' = [results EXCEPT ![t] = Tail(@)]
          /\ UNCHANGED <<inHand, sqlQueue, asked, halt>>
      BY <2>7 DEF Update, clientVars
    <3>2. /\ results \in [Readers -> Seq(Nat)] /\ called \in [Threads -> Nat]
          /\ results[t] \in Seq(Nat) /\ called[t] \in Nat
      BY <3>1, AnswerTypes DEF TypeOK, QueueTypes, CountTypes
    <3>. DEFINE r == results[t]
    <3>3. /\ Len(r) \in Nat /\ Len(r) >= 1 /\ Head(r) = r[1] /\ 1 \in DOMAIN r
          /\ Len(Tail(r)) = Len(r) - 1
          /\ \A i \in DOMAIN Tail(r) : i \in Nat /\ i + 1 \in DOMAIN r /\ Tail(r)[i] = r[i + 1]
      BY <3>1, <3>2
    <3>4. \A i \in DOMAIN r : r[i] = called[t] + i
      BY <3>1 DEF Answers
    <3>. HIDE DEF r
    <3>5. called'[t] = called[t] + 1 /\ results'[t] = Tail(r)
          /\ \A u \in Readers : u # t => results'[u] = results[u] /\ called'[u] = called[u]
      BY <1>1, <3>1, <3>2, <3>3, <3>4 DEF r
    <3>6. \A u \in Readers : Answered(u)' = Answered(u)
      <4>1. Answered(t)' = (called[t] + 1) + (Len(r) - 1) /\ Answered(t) = called[t] + Len(r)
        BY <3>3, <3>5 DEF Answered, r
      <4>2. Answered(t)' = Answered(t)
        BY <3>2, <3>3, <4>1
      <4>. QED BY <3>5, <4>2 DEF Answered
    <3>7. ASSUME NEW u \in Readers, NEW i \in DOMAIN results'[u]
          PROVE  results'[u][i] = called'[u] + i
      <4>1. CASE u = t
        <5>1. i \in Nat /\ results'[t][i] = called[t] + (i + 1)
          BY <3>3, <3>4, <3>5, <4>1
        <5>2. called'[t] + i = called[t] + (i + 1)
          BY <3>2, <3>5, <5>1
        <5>. QED BY <4>1, <5>1, <5>2
      <4>2. CASE u # t
        BY <3>5, <4>2 DEF Answers
      <4>. QED BY <4>1, <4>2
    <3>8. \A u \in Threads : AskHand(u)' = AskHand(u)
      BY <3>1 DEF AskHand, InHand
    <3>. QED BY <2>2, <3>1, <3>6, <3>7, <3>8, AnswersStill
  <2>. QED BY <1>3, <2>3, <2>4, <2>5, <2>6, <2>7 DEF Client
<1>4. CASE Worker
  <2>1. /\ UNCHANGED <<inHand, asked, called, halt>>
        /\ \A u \in Threads : AskHand(u)' = AskHand(u)
    BY <1>4 DEF Worker, WorkerLoop, WorkerDequeue, StatementExecute, TransactionStart,
       TransactionStatement, TransactionRollback, TransactionCommit, QueryRead, QueryAnswer,
       clientVars, countVars, fateVars, AskHand, InHand
  <2>2. wpc # "exit" => halt # "down"
    BY DEF Pipeline, Places
  <2>3. CASE QueryAnswer
    BY <2>2, <2>3, AnswersNext DEF QueryAnswer
  <2>4. CASE WorkerDequeue /\ sqlQueue' # sqlQueue
    <3>1. /\ sqlQueue # <<>> /\ job' = Head(sqlQueue) /\ sqlQueue' = Tail(sqlQueue)
          /\ results' = results
      BY <2>4 DEF WorkerDequeue
    <3>2. job = NoTask
      BY <2>4 DEF WorkerDequeue, TypeOK, WorkerTypes
    <3>. QED BY <2>1, <3>1, <3>2, AnswersDequeued
  <2>5. CASE ~QueryAnswer /\ ~(WorkerDequeue /\ sqlQueue' # sqlQueue)
    <3>1. UNCHANGED <<sqlQueue, results>>
      BY <1>4, <2>5 DEF Worker, WorkerLoop, WorkerDequeue, StatementExecute, TransactionStart,
         TransactionStatement, TransactionRollback, TransactionCommit, QueryRead
    <3>2. \/ job' = job
          \/ job' = NoTask /\ job.kind # "query"
          \/ job \in Task /\ job.kind = "trans" /\ job' = [job EXCEPT !.body = Tail(@)]
          \/ job \in Task /\ job.kind = "query" /\ job' = [job EXCEPT !.reads = @ - 1]
          \/ WorkerDequeue /\ sqlQueue' # sqlQueue
      <4>1. CASE WorkerDequeue
        <5>1. job' = job \/ (sqlQueue' = Tail(sqlQueue) /\ sqlQueue # <<>>)
          BY <4>1 DEF WorkerDequeue
        <5>2. sqlQueue # <<>> => Tail(sqlQueue) # sqlQueue
          <6>1. sqlQueue \in Seq(Task)
            BY DEF TypeOK, QueueTypes
          <6>2. sqlQueue # <<>> => Len(Tail(sqlQueue)) = Len(sqlQueue) - 1 /\ Len(sqlQueue) \in Nat
            BY <6>1
          <6>. QED BY <6>2
        <5>. QED BY <4>1, <5>1, <5>2
      <4>2. CASE ~WorkerDequeue
        BY <1>4, <2>5, <4>2 DEF Worker, WorkerLoop, StatementExecute, TransactionStart,
           TransactionStatement, TransactionRollback, TransactionCommit, QueryRead, FinishJob,
           TypeOK, WorkerTypes
      <4>. QED BY <4>1, <4>2
    <3>3. Asks(job') = Asks(job)
      <4>1. ASSUME job \in Task, job.kind = "trans", job' = [job EXCEPT !.body = Tail(@)]
            PROVE  Asks(job') = Asks(job)
        <5>1. job'.kind = "trans"
          BY <4>1 DEF Task
        <5>. QED BY <4>1, <5>1 DEF Asks
      <4>2. ASSUME job \in Task, job.kind = "query", job' = [job EXCEPT !.reads = @ - 1]
            PROVE  Asks(job') = Asks(job)
        <5>1. job'.kind = job.kind /\ job'.by = job.by /\ job'.ticket = job.ticket
          BY <4>2 DEF Task
        <5>. QED BY <5>1 DEF Asks
      <4>3. ASSUME job' = NoTask, job.kind # "query" PROVE Asks(job') = Asks(job)
        BY <4>3, WhoAsks DEF Asks
      <4>. QED BY <2>5, <3>2, <4>1, <4>2, <4>3
    <3>4. AskRow(0)' = AskRow(0)
      <4>1. TaskAt(0)' = job'
        BY DEF TaskAt
      <4>2. AskRow(0)' = Asks(TaskAt(0)')
        BY DEF AskRow, Asks
      <4>. QED BY <1>1, <3>3, <4>1, <4>2
    <3>. QED BY <1>2, <2>1, <3>1, <3>4, AnswersStill
  <2>. QED BY <2>3, <2>4, <2>5
<1>5. CASE StopRunning \/ Deactivate \/ Terminated \/ UNCHANGED vars
  <2>1. /\ UNCHANGED <<inHand, sqlQueue, job, asked, called, results>>
        /\ halt' # "down" => halt # "down"
    BY <1>5 DEF StopRunning, Deactivate, Terminated, vars, clientVars, workerVars, countVars, fateVars
  <2>2. AskRow(0)' = AskRow(0) /\ \A u \in Threads : AskHand(u)' = AskHand(u)
    BY <2>1 DEF AskRow, TaskAt, AskHand, InHand
  <2>. QED BY <1>2, <2>1, <2>2, AnswersStill
<1>6. CASE Joined
  <2>1. /\ UNCHANGED <<inHand, job, asked, called, results>> /\ halt' = "down" /\ sqlQueue' = <<>>
    BY <1>6 DEF Joined, clientVars, workerVars, countVars, fateVars
  <2>2. Rows' = {0}
    <3>1. Len(sqlQueue') = 0
      BY <2>1
    <3>. QED BY <3>1 DEF Rows
  <2>3. AskRow(0)' = AskRow(0) /\ \A u \in Threads : AskHand(u)' = AskHand(u)
    BY <2>1 DEF AskRow, TaskAt, AskHand, InHand
  <2>4. /\ \A t \in Readers : Answered(t)' = Answered(t)
        /\ \A t \in Readers : \A i \in DOMAIN results'[t] : results'[t][i] = called'[t] + i
    BY <1>2, <2>1
  <2>5. InTurn(AskRow(0))' /\ \A t \in Threads : InTurn(AskHand(t))'
    BY <1>1, <2>1, <2>3, <2>4 DEF Answers, InTurn
  <2>6. \A t \in Threads : Below(AskRow(0), AskHand(t))'
    BY <1>1, <2>3 DEF Answers, Below
  <2>7. \A t \in Readers : Answered(t)' <= asked'[t]
    BY <2>1, <2>4 DEF Answers
  <2>. QED BY <2>1, <2>2, <2>4, <2>5, <2>6, <2>7 DEF Answers
<1>. QED BY <1>3, <1>4, <1>5, <1>6 DEF Next, HaltDelayThread

\* Queries stay in line.
LEMMA AnswersAlways == Spec => []Answers
<1>1. Init => Answers
  <2>. SUFFICES ASSUME Init PROVE Answers
    OBVIOUS
  <2>1. Rows = {0} /\ TaskAt(0) = NoTask /\ \A t \in Threads : InHand(t) = NoTask
    <3>1. Len(sqlQueue) = 0
      BY DEF Init
    <3>. QED BY <3>1 DEF Init, Rows, TaskAt, InHand
  <2>2. AskRow(0) = {} /\ \A t \in Threads : AskHand(t) = {}
    BY <2>1, WhoAsks DEF AskRow, AskHand
  <2>3. \A t \in Readers : Answered(t) = 0 /\ asked[t] = 0 /\ results[t] = <<>>
    <3>1. \A t \in Readers : called[t] = 0 /\ asked[t] = 0 /\ results[t] = <<>>
      BY SqlConstants DEF Init
    <3>2. Len(<<>>) = 0
      OBVIOUS
    <3>. QED BY <3>1, <3>2 DEF Answered
  <2>. QED BY <2>1, <2>2, <2>3 DEF Answers, InTurn, Below
<1>2. TypeOK /\ TypeOK' /\ Pipeline /\ Answers /\ [Next]_vars => Answers'
  BY NextAnswers
<1>. QED BY <1>1, <1>2, PipelineAlways, PTL DEF Spec

\* Callbacks run in the order the queries were asked, each exactly once, none skipped:
\* the way through the queue, the delay thread and the result queue keeps the order.
THEOREM AnswersCome == Spec => AnswersInOrder
<1>1. TypeOK /\ Answers /\ [Next]_vars =>
          [\A t \in Readers : called'[t] # called[t] => called'[t] = called[t] + 1]_vars
  <2>. SUFFICES ASSUME TypeOK, Answers, [Next]_vars, NEW t \in Readers, called'[t] # called[t]
                PROVE  called'[t] = called[t] + 1
    OBVIOUS
  <2>1. called \in [Threads -> Nat] /\ t \in Threads
    BY SqlConstants DEF TypeOK, CountTypes
  <2>2. PICK u \in Threads : Update(u)
    BY DEF Next, Client, BeginTransaction, RollbackTransaction, CommitTransaction, Execute,
       AsyncQuery, Delay, DirectExecute, ExecuteSync, Worker, WorkerLoop, WorkerDequeue,
       StatementExecute, TransactionStart, TransactionStatement, TransactionRollback,
       TransactionCommit, QueryRead, QueryAnswer, HaltDelayThread, StopRunning, Deactivate,
       Joined, Terminated, vars, countVars, fateVars
  <2>3. u = t /\ results[t] # <<>> /\ called'[t] = Head(results[t])
    BY <2>1, <2>2 DEF Update
  <2>4. 1 \in DOMAIN results[t] /\ Head(results[t]) = results[t][1]
    BY <2>3, AnswerTypes
  <2>. QED BY <2>3, <2>4 DEF Answers
<1>. QED BY <1>1, PipelineAlways, AnswersAlways, PTL DEF Spec, AnswersInOrder
=============================================================================
