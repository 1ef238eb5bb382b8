----------------------------- MODULE MapUpdater -----------------------------
(***************************************************************************)
(* The threads that update maps.  Once per tick the world thread           *)
(* (MapManager::Update) hands every map to MapUpdater, whose executor runs *)
(* the requests on its threads, and waits until all are finished; then it  *)
(* calls DelayedUpdate() on every map and goes on with the rest of the     *)
(* tick, which uses maps without any lock.  A map may be created by the    *)
(* world thread between two updates, and by an updating map whose spawn    *)
(* pool has a member on another map: then it comes into i_maps, a hash     *)
(* table, while the world thread may be walking through it.                *)
(*                                                                         *)
(* What a map's Update() does otherwise is left out, and so are the maps   *)
(* of instances, which their base map updates on the same thread.          *)
(***************************************************************************)
EXTENDS Integers, Sequences, FiniteSets

CONSTANTS Worker,    \* threads of the executor (MapUpdate.Threads of them)
          NoMap,
          Map,       \* ids of base maps
          Links,     \* pairs of maps that share a spawn pool
          Capacity   \* requests the activation queue takes

ASSUME MapConstants ==
    /\ NoMap \notin Map /\ Links \subseteq Map \X Map
    /\ Capacity \in Nat \ {0}
    /\ IsFiniteSet(Worker) /\ Worker # {}

VARIABLES
    made,       \* Map objects ever created for an id; i_maps holds the last one
    born,       \* ids that came into i_maps since this update began
    activated,  \* DelayExecutor::activated_
    active,     \* the state of its activation queue
    queue,      \* requests in the queue
    pending,    \* MapUpdater::pedning_requests
    at,         \* where each thread of the executor is in svc()
    rq,         \* the map of the request it has taken
    want,       \* the id of a map it did not find and is about to create
    pc,         \* where the world thread is
    todo,       \* maps its loop has still to visit
    moved,      \* a map came into i_maps under the loop (history)
    updates,    \* calls of Map::Update() since the loop began
    refused     \* maps whose schedule_update() returned -1

maps     == <<made, born>>
executor == <<activated, active>>
requests == <<queue, pending>>
workers  == <<at, rq, want>>
loop     == <<todo, refused, moved>>
vars     == <<maps, executor, requests, workers, pc, loop, updates>>

Exist == {m \in Map : made[m] > 0}

Init ==
    /\ made = [m \in Map |-> 0] /\ born = {}
    /\ activated = FALSE /\ active = TRUE
    /\ queue = <<>> /\ pending = 0
    /\ at = [w \in Worker |-> "none"] /\ rq = [w \in Worker |-> NoMap]
    /\ want = [w \in Worker |-> NoMap]
    /\ pc = "init" /\ todo = {} /\ refused = {} /\ moved = FALSE
    /\ updates = [m \in Map |-> 0]
-----------------------------------------------------------------------------
(* The world thread.                                                       *)

\* MapManager::Initialize(): the threads are started unless MapUpdate.Threads is 0.
Initialize ==
    /\ pc = "init" /\ pc' = "world"
    /\ activated' \in BOOLEAN
    /\ at' = [w \in Worker |-> IF activated' THEN "start" ELSE "none"]
    /\ UNCHANGED <<maps, active, requests, rq, want, loop, updates>>

\* MapManager::CreateMap(), called by the sessions and the managers of the world.
CreateMap(m) ==
    /\ pc = "world" /\ m \notin Exist
    /\ made' = [made EXCEPT ![m] = 1] /\ born' = born \cup {m}
    /\ UNCHANGED <<executor, requests, workers, pc, loop, updates>>

\* MapManager::Update() begins its loop over i_maps.
StartUpdate ==
    /\ pc = "world" /\ pc' = "schedule"
    /\ todo' = Exist /\ refused' = {} /\ moved' = FALSE /\ born' = {}
    /\ updates' = [m \in Map |-> 0]
    /\ UNCHANGED <<made, executor, requests, workers>>

\* MapUpdater::schedule_update(), under m_mutex.  The queue is asked not to wait: a
\* full one refuses the request, which is then not pending any more; the caller
\* ignores that.
\* Mutated: the request that was refused stays pending, or is taken off without
\* having been counted.
PendingAfterRefused(taken) == pending + 1
PendingNotCounted(taken) == IF taken THEN pending + 1 ELSE pending - 1
PendingAfter(taken) == IF taken THEN pending + 1 ELSE pending

schedule_update(m) ==
    LET taken == active /\ Len(queue) < Capacity
    IN  /\ queue' = IF taken THEN Append(queue, m) ELSE queue
        /\ refused' = IF taken THEN refused ELSE refused \cup {m}
        /\ pending' = PendingAfter(taken)

\* The ids of S are put into i_maps.  Under the loop that may rehash it: the iterator goes
\* on in the new order, whatever it has visited, so that maps are skipped or visited again,
\* the newcomers among them.  (It may also have lost its bucket, and the server with it.)
Insert(S) ==
    /\ born' = born \cup S
    /\ IF pc = "schedule" /\ S \ Exist # {}
       THEN moved' = TRUE /\ todo' \in SUBSET (Exist \cup S)
       ELSE UNCHANGED <<moved, todo>>

\* One round of the loop: without threads the map is updated here and now, and
\* creates the missing maps of its pools.
ScheduleOrUpdate(m) ==
    /\ pc = "schedule" /\ m \in todo
    /\ IF activated
       THEN /\ todo' = todo \ {m} /\ schedule_update(m)
            /\ UNCHANGED <<maps, updates, moved>>
       ELSE /\ updates' = [updates EXCEPT ![m] = @ + 1]
            /\ \E came \in SUBSET {n \in Map \ Exist : <<m, n>> \in Links} :
                  /\ made' = [n \in Map |-> IF n \in came THEN 1 ELSE made[n]]
                  /\ IF came = {} THEN todo' = todo \ {m} /\ UNCHANGED <<born, moved>>
                                  ELSE Insert(came)
            /\ UNCHANGED <<requests, refused>>
    /\ UNCHANGED <<executor, workers, pc>>

EndSchedule ==
    /\ pc = "schedule" /\ todo = {}
    /\ pc' = IF activated THEN "wait" ELSE "delayed"
    /\ UNCHANGED <<maps, executor, requests, workers, loop, updates>>

\* The next step of the world thread once nothing is pending.
Waited == IF pc = "wait" THEN "delayed" ELSE "join"

\* MapUpdater::wait(): with m_mutex held, look at the count and sleep on the
\* condition until the next broadcast.
Wait ==
    /\ pc \in {"wait", "deactivate"}
    /\ pc' = IF pending = 0 THEN Waited ELSE IF pc = "wait" THEN "asleep" ELSE "asleep at end"
    /\ UNCHANGED <<maps, executor, requests, workers, loop, updates>>

\* The condition may also wake its waiter for no reason.
SpuriousWake ==
    /\ pc = "asleep" /\ pc' = "wait"
    /\ UNCHANGED <<maps, executor, requests, workers, loop, updates>>

\* DelayedUpdate() of every map, and the rest of the tick.
DelayedUpdate ==
    /\ pc = "delayed" /\ pc' = "world"
    /\ UNCHANGED <<maps, executor, requests, workers, loop, updates>>

\* MapManager::UnloadAll(), when the world has stopped: the maps are deleted before
\* the threads are told to end.
UnloadAll ==
    /\ pc = "world" /\ pc' = IF activated THEN "deactivate" ELSE "halted"
    /\ made' = [m \in Map |-> 0] /\ born' = {}
    /\ UNCHANGED <<executor, requests, workers, loop, updates>>

\* DelayExecutor::deactivate(): the queue is closed and the threads are joined.
\* Mutated: the queue is not closed.
QueueStaysOpen == UNCHANGED active
CloseQueue == active' = FALSE
Deactivate ==
    /\ pc = "join" /\ activated
    /\ activated' = FALSE /\ CloseQueue
    /\ UNCHANGED <<maps, requests, workers, pc, loop, updates>>
Joined ==
    /\ pc = "join" /\ ~activated /\ \A w \in Worker : at[w] = "end"
    /\ pc' = "halted"
    /\ UNCHANGED <<maps, executor, requests, workers, loop, updates>>
-----------------------------------------------------------------------------
(* The threads: DelayExecutor::svc().                                      *)

PreHook(w) ==
    /\ at[w] = "start" /\ at' = [at EXCEPT ![w] = "idle"]
    /\ UNCHANGED <<maps, executor, requests, rq, want, pc, loop, updates>>

\* Mutated: the request stays in the queue.
DequeueKeeps(w) ==
    /\ at[w] = "idle" /\ active /\ queue # <<>>
    /\ rq' = [rq EXCEPT ![w] = Head(queue)] /\ queue' = queue
    /\ at' = [at EXCEPT ![w] = "update"]
    /\ updates' = [updates EXCEPT ![Head(queue)] = @ + 1]
    /\ UNCHANGED <<maps, executor, pending, want, pc, loop>>
Dequeue(w) ==
    /\ at[w] = "idle" /\ active /\ queue # <<>>
    /\ rq' = [rq EXCEPT ![w] = Head(queue)] /\ queue' = Tail(queue)
    /\ at' = [at EXCEPT ![w] = "update"]
    /\ updates' = [updates EXCEPT ![Head(queue)] = @ + 1]
    /\ UNCHANGED <<maps, executor, pending, want, pc, loop>>

\* A closed queue returns NULL, whatever it holds.
PostHook(w) ==
    /\ at[w] = "idle" /\ ~active /\ at' = [at EXCEPT ![w] = "end"]
    /\ UNCHANGED <<maps, executor, requests, rq, want, pc, loop, updates>>

\* MapManager::_createBaseMap(), called by an updating map: i_maps is searched
\* without the lock, ...
Found(m) == m \in Exist
FindMap(w, m) ==
    /\ at[w] = "update" /\ <<rq[w], m>> \in Links /\ ~Found(m)
    /\ want' = [want EXCEPT ![w] = m] /\ at' = [at EXCEPT ![w] = "create"]
    /\ UNCHANGED <<maps, executor, requests, rq, pc, loop, updates>>

\* ... and the new map is put there with it, over one that another thread may have
\* created meanwhile.
CreateBaseMap(w) ==
    /\ at[w] = "create"
    /\ made' = [made EXCEPT ![want[w]] = @ + 1] /\ Insert({want[w]})
    /\ want' = [want EXCEPT ![w] = NoMap] /\ at' = [at EXCEPT ![w] = "update"]
    /\ UNCHANGED <<executor, requests, rq, pc, refused, updates>>

\* MapUpdater::update_finished(), under m_mutex.
\* Mutated: the woken thread does not look at the count again.
WokenForGood == IF pc = "asleep" THEN "delayed" ELSE pc
Woken == IF pc = "asleep" THEN "wait" ELSE IF pc = "asleep at end" THEN "deactivate" ELSE pc
update_finished(w) ==
    /\ at[w] = "update"
    /\ at' = [at EXCEPT ![w] = "idle"] /\ rq' = [rq EXCEPT ![w] = NoMap]
    /\ pending' = IF pending = 0 THEN 0 ELSE pending - 1
    /\ pc' = IF pending = 0 THEN pc ELSE Woken
    /\ UNCHANGED <<maps, executor, queue, want, loop, updates>>

Terminated == pc = "halted" /\ UNCHANGED vars

World ==
    \/ Initialize \/ StartUpdate \/ EndSchedule \/ Wait \/ DelayedUpdate
    \/ UnloadAll \/ Deactivate \/ Joined
    \/ \E m \in Map : CreateMap(m) \/ ScheduleOrUpdate(m)

svc(w) ==
    \/ PreHook(w) \/ Dequeue(w) \/ PostHook(w) \/ CreateBaseMap(w) \/ update_finished(w)
    \/ \E m \in Map : FindMap(w, m)

Next == World \/ SpuriousWake \/ (\E w \in Worker : svc(w)) \/ Terminated

Spec == Init /\ [][Next]_vars

\* All threads are scheduled; whether the server ever stops is open.
FairSpec == Spec /\ WF_vars(World) /\ \A w \in Worker : WF_vars(svc(w))
-----------------------------------------------------------------------------
(* Properties.                                                             *)

Phases == {"init", "world", "schedule", "wait", "asleep", "delayed",
           "deactivate", "asleep at end", "join", "halted"}

\* Type invariant.
TypeOK ==
    /\ made \in [Map -> Nat] /\ born \subseteq Map
    /\ activated \in BOOLEAN /\ active \in BOOLEAN
    /\ queue \in Seq(Map) /\ pending \in Nat
    /\ at \in [Worker -> {"none", "start", "idle", "update", "create", "end"}]
    /\ rq \in [Worker -> Map \cup {NoMap}] /\ want \in [Worker -> Map \cup {NoMap}]
    /\ pc \in Phases /\ todo \subseteq Map /\ refused \subseteq Map /\ moved \in BOOLEAN
    /\ updates \in [Map -> Nat]

Busy == {w \in Worker : at[w] \in {"update", "create"}}

\* The count that wait() trusts is exact: what is queued and what is being updated.
PendingExact == pending = Len(queue) + Cardinality(Busy)

\* Whenever the world thread is outside the update, no map is being updated nor will
\* be by an old request: DelayedUpdate(), sessions, managers, and the deletion of the
\* maps at shutdown have all of them for themselves.
WorldAlone ==
    pc \notin {"schedule", "wait", "asleep"} => queue = <<>> /\ Busy = {}

\* When a loop is over under which no map came into i_maps, every map was updated exactly
\* once, except those the queue refused and those that came while the world thread waited.
\* (Where a newcomer disturbed the loop a map may be skipped, or be updated twice and on two
\* threads at once: Insert.)
EachMapOnce ==
    pc = "delayed" /\ ~moved => \A m \in Exist :
        LET n == updates[m] + (IF m \in refused THEN 1 ELSE 0)
        IN  n = 1 \/ (n = 0 /\ m \in born)

\* The search for a map outside the lock costs at most one object per thread: with
\* one thread, the default, no map is ever replaced and lost.
OneMapPerThread == \A m \in Map : made[m] <= Cardinality(Worker)

\* The world thread waits for nobody for ever: wait() returns when the maps are done,
\* and at shutdown every thread leaves svc() and is joined.
WaitsEnd ==
    /\ (pc = "schedule") ~> (pc = "world")
    /\ (pc = "deactivate") ~> (pc = "halted")
=============================================================================
