-------------------------- MODULE MapUpdaterProofs --------------------------
(***************************************************************************)
(* For any number of threads, maps, pools and any capacity of the queue:   *)
(* the count that MapUpdater::wait() trusts is exact, so the world thread  *)
(* has the maps for itself outside the update; and the unlocked search of  *)
(* _createBaseMap() costs at most one object of a map per thread.          *)
(***************************************************************************)
EXTENDS MapUpdater, DataLemmas, FiniteSetTheorems, TLAPS

\* A thread has a request exactly while it updates a map, and a map to create
\* exactly when it is about to create it.
WorkersConsistent ==
    /\ \A w \in Worker : at[w] \in {"update", "create"} => rq[w] \in Map
    /\ \A w \in Worker : at[w] = "create" => want[w] \in Map
    /\ \A w \in Worker : at[w] # "create" => want[w] = NoMap

\* Without threads, or when they have been told to end, there is nothing to do.
IdleWhenInactive == ~activated => queue = <<>> /\ Busy = {}

Inv == TypeOK /\ WorkersConsistent /\ PendingExact /\ WorldAlone /\ IdleWhenInactive

\* The busy threads are finitely many, so their number is a natural number.
LEMMA BusyFinite == IsFiniteSet(Busy) /\ Cardinality(Busy) \in Nat
<1>1. IsFiniteSet(Worker)  BY MapConstants
<1>2. Busy \subseteq Worker  BY DEF Busy
<1>3. IsFiniteSet(Busy)  BY <1>1, <1>2, FS_Subset
<1> QED  BY <1>3, FS_CardinalityType

\* What MapUpdater::wait() concludes from its count.
LEMMA NothingPending ==
    ASSUME TypeOK, PendingExact, pending = 0
    PROVE  queue = <<>> /\ Busy = {}
<1>1. Cardinality(Busy) \in Nat /\ IsFiniteSet(Busy)  BY BusyFinite
<1>2. Len(queue) \in Nat /\ queue \in Seq(Map)  BY DEF TypeOK
<1>3. Len(queue) = 0 /\ Cardinality(Busy) = 0  BY <1>1, <1>2 DEF PendingExact
<1>4. Busy = {}  BY <1>1, <1>3, FS_EmptySet
<1> QED  BY <1>2, <1>3, <1>4

\* A thread that takes a request makes one more.
LEMMA OneMoreBusy ==
    ASSUME NEW w \in Worker, w \notin Busy, Busy' = Busy \cup {w}
    PROVE  Cardinality(Busy)' = Cardinality(Busy) + 1
<1>1. Cardinality(Busy \cup {w}) = Cardinality(Busy) + 1  BY BusyFinite, FS_AddElement
<1> QED  BY <1>1

\* A thread that is done with its map leaves one less.
LEMMA OneLessBusy ==
    ASSUME NEW w \in Worker, w \in Busy, Busy' = Busy \ {w}
    PROVE  Cardinality(Busy)' = Cardinality(Busy) - 1
<1>1. Cardinality(Busy \ {w}) = Cardinality(Busy) - 1  BY BusyFinite, FS_RemoveElement
<1> QED  BY <1>1

\* The parts that only talk about threads and requests survive a step that leaves
\* those alone, and that reaches a phase of the world thread by itself only when
\* nothing is going on.
LEMMA WorldStep ==
    ASSUME Inv, TypeOK', UNCHANGED <<requests, workers>>,
           activated' = activated,
           WorldAlone'
    PROVE  Inv'
<1>1. Busy' = Busy  BY DEF Busy, workers
<1>2. queue' = queue /\ pending' = pending  BY DEF requests
<1>3. WorkersConsistent'  BY DEF Inv, WorkersConsistent, workers
<1>4. PendingExact'  BY <1>1, <1>2 DEF Inv, PendingExact
<1>5. IdleWhenInactive'  BY <1>1, <1>2 DEF Inv, IdleWhenInactive
<1> QED  BY <1>3, <1>4, <1>5 DEF Inv

\* Nothing is scheduled when the server starts.
LEMMA InitInv == Init => Inv
<1> SUFFICES ASSUME Init PROVE Inv  OBVIOUS
<1>1. Busy = {}  BY DEF Init, Busy
<1>2. Cardinality(Busy) = 0  BY <1>1, FS_EmptySet
<1>3. queue = <<>> /\ Len(queue) = 0 /\ pending = 0  BY DEF Init
<1>4. TypeOK
  <2>1. queue \in Seq(Map) /\ pending \in Nat  BY <1>3
  <2>2. pc \in Phases  BY DEF Init, Phases
  <2>3. /\ made \in [Map -> Nat] /\ updates \in [Map -> Nat]
        /\ at \in [Worker -> {"none", "start", "idle", "update", "create", "end"}]
        /\ rq \in [Worker -> Map \cup {NoMap}] /\ want \in [Worker -> Map \cup {NoMap}]
    BY DEF Init
  <2>4. born \subseteq Map /\ todo \subseteq Map /\ refused \subseteq Map
    BY DEF Init
  <2>5. activated \in BOOLEAN /\ active \in BOOLEAN /\ moved \in BOOLEAN  BY DEF Init
  <2> QED  BY <2>1, <2>2, <2>3, <2>4, <2>5 DEF TypeOK
<1>5. WorkersConsistent  BY DEF Init, WorkersConsistent
<1>6. PendingExact  BY <1>2, <1>3 DEF PendingExact
<1>7. WorldAlone /\ IdleWhenInactive  BY <1>1, <1>3 DEF WorldAlone, IdleWhenInactive
<1> QED  BY <1>4, <1>5, <1>6, <1>7 DEF Inv

\* MapManager::Initialize() starts threads that have nothing to do.
LEMMA InitializeInv == ASSUME Inv, Initialize PROVE Inv'
<1>1. queue' = queue /\ pending' = pending /\ rq' = rq /\ want' = want
  BY DEF Initialize, requests
<1>2. \A w \in Worker : at'[w] \in {"start", "none"}  BY DEF Initialize
<1>3. queue = <<>> /\ Busy = {}  BY DEF Inv, WorldAlone, Initialize
<1>4. Busy' = {}  BY <1>2 DEF Busy
<1>5. TypeOK'  BY DEF Inv, TypeOK, Phases, Initialize, maps, requests, loop
<1>6. WorkersConsistent'
  <2>1. \A w \in Worker : at[w] \notin {"update", "create"}  BY <1>3 DEF Busy
  <2>2. \A w \in Worker : want[w] = NoMap  BY <2>1 DEF Inv, WorkersConsistent
  <2> QED  BY <1>1, <1>2, <2>2 DEF WorkersConsistent
<1>7. PendingExact'  BY <1>1, <1>3, <1>4 DEF Inv, PendingExact
<1>8. WorldAlone' /\ IdleWhenInactive'  BY <1>1, <1>3, <1>4 DEF WorldAlone, IdleWhenInactive
<1> QED  BY <1>5, <1>6, <1>7, <1>8 DEF Inv

\* The steps of the world thread that only move it, or the maps.
LEMMA QuietInv ==
    ASSUME Inv,
           \/ \E m \in Map : CreateMap(m)
           \/ StartUpdate \/ EndSchedule \/ Wait \/ SpuriousWake \/ DelayedUpdate
           \/ UnloadAll \/ Joined
    PROVE  Inv'
<1>1. UNCHANGED <<requests, workers>> /\ activated' = activated
  BY DEF CreateMap, StartUpdate, EndSchedule, Wait, SpuriousWake, DelayedUpdate, UnloadAll,
         Joined, executor
<1>2. Busy' = Busy /\ queue' = queue  BY <1>1 DEF Busy, workers, requests
<1>3. ASSUME NEW m \in Map, CreateMap(m) PROVE Inv'
  <2>1. TypeOK'
    BY <1>3 DEF Inv, TypeOK, CreateMap, executor, requests, workers, loop
  <2>2. WorldAlone'  BY <1>2, <1>3 DEF Inv, WorldAlone, CreateMap
  <2> QED  BY <1>1, <2>1, <2>2, WorldStep
<1>4. CASE StartUpdate
  <2>1. TypeOK'
    BY <1>4 DEF Inv, TypeOK, Phases, StartUpdate, Exist, executor, requests, workers
  <2>2. WorldAlone'  BY <1>4 DEF WorldAlone, StartUpdate
  <2> QED  BY <1>1, <2>1, <2>2, WorldStep
<1>5. CASE EndSchedule
  <2>1. TypeOK'
    BY <1>5 DEF Inv, TypeOK, Phases, EndSchedule, maps, executor, requests, workers, loop
  <2>2. WorldAlone'
    BY <1>2, <1>5 DEF Inv, WorldAlone, IdleWhenInactive, EndSchedule
  <2> QED  BY <1>1, <2>1, <2>2, WorldStep
<1>6. CASE Wait
  <2>1. TypeOK'
    BY <1>6 DEF Inv, TypeOK, Phases, Wait, Waited, maps, executor, requests, workers, loop
  <2>2. pending = 0 => queue = <<>> /\ Busy = {}  BY NothingPending DEF Inv
  <2>3. WorldAlone'
    BY <1>2, <1>6, <2>2 DEF Inv, WorldAlone, Wait, Waited
  <2> QED  BY <1>1, <2>1, <2>3, WorldStep
<1>7. CASE SpuriousWake
  <2>1. TypeOK'
    BY <1>7 DEF Inv, TypeOK, Phases, SpuriousWake, maps, executor, requests, workers, loop
  <2>2. WorldAlone'  BY <1>7 DEF WorldAlone, SpuriousWake
  <2> QED  BY <1>1, <2>1, <2>2, WorldStep
<1>8. CASE DelayedUpdate
  <2>1. TypeOK'
    BY <1>8 DEF Inv, TypeOK, Phases, DelayedUpdate, maps, executor, requests, workers, loop
  <2>2. WorldAlone'  BY <1>2, <1>8 DEF Inv, WorldAlone, DelayedUpdate
  <2> QED  BY <1>1, <2>1, <2>2, WorldStep
<1>9. CASE UnloadAll
  <2>1. TypeOK'
    BY <1>9 DEF Inv, TypeOK, Phases, UnloadAll, executor, requests, workers, loop
  <2>2. WorldAlone'  BY <1>2, <1>9 DEF Inv, WorldAlone, UnloadAll
  <2> QED  BY <1>1, <2>1, <2>2, WorldStep
<1>10. CASE Joined
  <2>1. TypeOK'
    BY <1>10 DEF Inv, TypeOK, Phases, Joined, maps, executor, requests, workers, loop
  <2>2. WorldAlone'  BY <1>2, <1>10 DEF Inv, WorldAlone, Joined
  <2> QED  BY <1>1, <2>1, <2>2, WorldStep
<1> QED  BY <1>3, <1>4, <1>5, <1>6, <1>7, <1>8, <1>9, <1>10

\* DelayExecutor::deactivate() comes when nothing is going on any more.
LEMMA DeactivateInv == ASSUME Inv, Deactivate PROVE Inv'
<1>1. queue' = queue /\ pending' = pending /\ at' = at /\ rq' = rq /\ want' = want /\ pc' = pc
  BY DEF Deactivate, requests, workers
<1>2. queue = <<>> /\ Busy = {}  BY DEF Inv, WorldAlone, Deactivate
<1>3. Busy' = {}  BY <1>1, <1>2 DEF Busy
<1>4. TypeOK'
  BY DEF Inv, TypeOK, Deactivate, CloseQueue, maps, requests, workers, loop
<1>5. WorkersConsistent'  BY <1>1 DEF Inv, WorkersConsistent
<1>6. PendingExact'  BY <1>1, <1>2, <1>3 DEF Inv, PendingExact
<1>7. WorldAlone' /\ IdleWhenInactive'  BY <1>1, <1>2, <1>3 DEF WorldAlone, IdleWhenInactive
<1> QED  BY <1>4, <1>5, <1>6, <1>7 DEF Inv

\* What comes into i_maps are ids of maps, wherever the loop goes on.
LEMMA InsertTypes ==
    ASSUME TypeOK, NEW S \in SUBSET Map, Insert(S)
    PROVE  /\ born' = born \cup S /\ born' \subseteq Map
           /\ todo' \subseteq Map /\ moved' \in BOOLEAN
<1>1. Exist \subseteq Map  BY DEF Exist
<1> QED  BY <1>1 DEF Insert, TypeOK

\* schedule_update() counts a request exactly when the queue takes it.
LEMMA ScheduleInv == ASSUME Inv, NEW m \in Map, ScheduleOrUpdate(m) PROVE Inv'
<1>1. UNCHANGED <<executor, workers, pc>>  BY DEF ScheduleOrUpdate
<1>2. pc' = "schedule" /\ activated' = activated  BY <1>1 DEF ScheduleOrUpdate, executor
<1>3. Busy' = Busy  BY <1>1 DEF Busy, workers
<1>4. WorkersConsistent'  BY <1>1 DEF Inv, WorkersConsistent, workers
<1>5. WorldAlone'  BY <1>2 DEF WorldAlone
<1>6. CASE activated
  <2>1. todo' = todo \ {m} /\ schedule_update(m) /\ UNCHANGED <<maps, updates, moved>>
    BY <1>6 DEF ScheduleOrUpdate
  <2>2. queue \in Seq(Map) /\ pending \in Nat  BY DEF Inv, TypeOK
  <2>3. CASE active /\ Len(queue) < Capacity
    <3>1. queue' = Append(queue, m) /\ pending' = pending + 1 /\ refused' = refused
      BY <2>1, <2>3 DEF schedule_update, PendingAfter
    <3>2. queue' \in Seq(Map) /\ Len(queue') = Len(queue) + 1  BY <2>2, <3>1
    <3>3. TypeOK'
      BY <1>1, <2>1, <2>2, <3>1, <3>2 DEF Inv, TypeOK, maps, executor, workers
    <3>4. PendingExact'
      BY <1>3, <2>2, <3>1, <3>2, BusyFinite DEF Inv, PendingExact
    <3> QED  BY <1>2, <1>4, <1>5, <1>6, <3>3, <3>4 DEF Inv, IdleWhenInactive
  <2>4. CASE ~(active /\ Len(queue) < Capacity)
    <3>1. queue' = queue /\ pending' = pending /\ refused' = refused \cup {m}
      BY <2>1, <2>4 DEF schedule_update, PendingAfter
    <3>2. TypeOK'
      BY <1>1, <2>1, <3>1 DEF Inv, TypeOK, maps, executor, workers
    <3>3. PendingExact'  BY <1>3, <3>1 DEF Inv, PendingExact
    <3> QED  BY <1>2, <1>4, <1>5, <1>6, <3>2, <3>3 DEF Inv, IdleWhenInactive
  <2> QED  BY <2>3, <2>4
<1>7. CASE ~activated
  <2>1. UNCHANGED <<requests, refused>> /\ updates' = [updates EXCEPT ![m] = @ + 1]
    BY <1>7 DEF ScheduleOrUpdate
  <2>2. PICK came \in SUBSET {n \in Map \ Exist : <<m, n>> \in Links} :
          /\ made' = [n \in Map |-> IF n \in came THEN 1 ELSE made[n]]
          /\ IF came = {} THEN todo' = todo \ {m} /\ UNCHANGED <<born, moved>> ELSE Insert(came)
    BY <1>7 DEF ScheduleOrUpdate
  <2>3. made' \in [Map -> Nat] /\ born' \subseteq Map /\ todo' \subseteq Map /\ moved' \in BOOLEAN
    <3>1. made' \in [Map -> Nat]  BY <2>2 DEF Inv, TypeOK
    <3>2. CASE came = {}  BY <2>2, <3>1, <3>2 DEF Inv, TypeOK
    <3>3. CASE came # {}
      <4>1. Insert(came) /\ came \in SUBSET Map  BY <2>2, <3>3
      <4> QED  BY <3>1, <4>1, InsertTypes DEF Inv
    <3> QED  BY <3>2, <3>3
  <2>4. updates' \in [Map -> Nat]  BY <2>1 DEF Inv, TypeOK
  <2>5. TypeOK'
    BY <1>1, <2>1, <2>3, <2>4 DEF Inv, TypeOK, executor, requests, workers
  <2> QED  BY <1>1, <1>2, <1>5, <2>1, <2>5, WorldStep
<1> QED  BY <1>6, <1>7

\* svc() takes a request: one less in the queue, one more thread busy.
LEMMA DequeueInv == ASSUME Inv, NEW w \in Worker, Dequeue(w) PROVE Inv'
<1>1. queue \in Seq(Map) /\ queue # <<>>  BY DEF Inv, TypeOK, Dequeue
<1>2. Head(queue) \in Map  BY <1>1
<1>3. Tail(queue) \in Seq(Map) /\ Len(Tail(queue)) = Len(queue) - 1 /\ Len(queue) \in Nat
  BY <1>1
<1>4. /\ queue' = Tail(queue) /\ pending' = pending /\ pc' = pc /\ want' = want
      /\ rq' = [rq EXCEPT ![w] = Head(queue)] /\ at' = [at EXCEPT ![w] = "update"]
      /\ activated' = activated /\ at[w] = "idle"
  BY DEF Dequeue, executor
<1>5. at \in [Worker -> {"none", "start", "idle", "update", "create", "end"}]
      /\ rq \in [Worker -> Map \cup {NoMap}]
  BY DEF Inv, TypeOK
<1>6. w \notin Busy /\ Busy' = Busy \cup {w}  BY <1>4, <1>5 DEF Busy
<1>7. Cardinality(Busy)' = Cardinality(Busy) + 1  BY <1>6, OneMoreBusy
<1>8. TypeOK'
  <2>1. updates' \in [Map -> Nat]  BY <1>2 DEF Inv, TypeOK, Dequeue
  <2>2. at' \in [Worker -> {"none", "start", "idle", "update", "create", "end"}]
        /\ rq' \in [Worker -> Map \cup {NoMap}]
    BY <1>2, <1>4, <1>5
  <2> QED
    BY <1>3, <1>4, <2>1, <2>2 DEF Inv, TypeOK, Dequeue, maps, executor, loop
<1>9. WorkersConsistent'
  BY <1>2, <1>4, <1>5 DEF Inv, WorkersConsistent
<1>10. PendingExact'
  BY <1>3, <1>4, <1>7, BusyFinite DEF Inv, PendingExact
<1>11. WorldAlone' /\ IdleWhenInactive'
  BY <1>1, <1>4 DEF Inv, WorldAlone, IdleWhenInactive
<1> QED  BY <1>8, <1>9, <1>10, <1>11 DEF Inv

\* update_finished(): one less pending, one thread less busy.
LEMMA FinishedInv == ASSUME Inv, NEW w \in Worker, update_finished(w) PROVE Inv'
<1>1. at \in [Worker -> {"none", "start", "idle", "update", "create", "end"}]
      /\ rq \in [Worker -> Map \cup {NoMap}] /\ pending \in Nat /\ queue \in Seq(Map)
  BY DEF Inv, TypeOK
<1>2. /\ at' = [at EXCEPT ![w] = "idle"] /\ rq' = [rq EXCEPT ![w] = NoMap]
      /\ queue' = queue /\ want' = want /\ activated' = activated /\ at[w] = "update"
  BY DEF update_finished, executor
<1>3. w \in Busy /\ Busy' = Busy \ {w}  BY <1>1, <1>2 DEF Busy
<1>4. Cardinality(Busy)' = Cardinality(Busy) - 1  BY <1>3, OneLessBusy
<1>5. pending # 0
  BY <1>3, NothingPending DEF Inv
<1>6. pending' = pending - 1 /\ pc' = Woken  BY <1>5 DEF update_finished
<1>7. pc \in {"schedule", "wait", "asleep"} /\ activated
  BY <1>3 DEF Inv, WorldAlone, IdleWhenInactive
<1>8. pc' \in {"schedule", "wait", "asleep"}  BY <1>6, <1>7 DEF Woken
<1>9. TypeOK'
  <2>1. at' \in [Worker -> {"none", "start", "idle", "update", "create", "end"}]
        /\ rq' \in [Worker -> Map \cup {NoMap}]
    BY <1>1, <1>2
  <2>2. pending' \in Nat  BY <1>1, <1>5, <1>6
  <2> QED
    BY <1>2, <1>8, <2>1, <2>2 DEF Inv, TypeOK, Phases, update_finished, maps, executor, loop
<1>10. WorkersConsistent'  BY <1>1, <1>2 DEF Inv, WorkersConsistent
<1>11. PendingExact'
  <2>1. Len(queue) \in Nat /\ Cardinality(Busy) \in Nat  BY <1>1, BusyFinite
  <2> QED  BY <1>1, <1>2, <1>4, <1>6, <2>1 DEF Inv, PendingExact
<1>12. WorldAlone' /\ IdleWhenInactive'
  BY <1>2, <1>7, <1>8 DEF WorldAlone, IdleWhenInactive
<1> QED  BY <1>9, <1>10, <1>11, <1>12 DEF Inv

\* The other steps of the threads keep requests and the number of busy threads.
LEMMA HookInv == ASSUME Inv, NEW w \in Worker, PreHook(w) \/ PostHook(w) PROVE Inv'
<1>1. \E p \in {"idle", "end"} : at' = [at EXCEPT ![w] = p]  BY DEF PreHook, PostHook
<1>2. at[w] \in {"start", "idle"}  BY DEF PreHook, PostHook
<1>3. UNCHANGED <<maps, executor, requests, rq, want, pc, loop, updates>>
  BY DEF PreHook, PostHook
<1>4. at \in [Worker -> {"none", "start", "idle", "update", "create", "end"}]
  BY DEF Inv, TypeOK
<1>5. at' \in [Worker -> {"none", "start", "idle", "update", "create", "end"}]
  BY <1>1, <1>4
<1>6. \A v \in Worker : at'[v] = at[v] \/ (v = w /\ at'[v] \in {"idle", "end"})
  BY <1>1, <1>4
<1>7. Busy' = Busy  BY <1>2, <1>6 DEF Busy
<1>8. TypeOK'
  BY <1>3, <1>5 DEF Inv, TypeOK, maps, executor, requests, loop
<1>9. WorkersConsistent'  BY <1>2, <1>3, <1>6 DEF Inv, WorkersConsistent
<1>10. queue' = queue /\ pending' = pending /\ pc' = pc /\ activated' = activated
  BY <1>3 DEF requests, executor
<1>11. PendingExact'  BY <1>7, <1>10 DEF Inv, PendingExact
<1>12. WorldAlone' /\ IdleWhenInactive'
  BY <1>7, <1>10 DEF Inv, WorldAlone, IdleWhenInactive
<1> QED  BY <1>8, <1>9, <1>11, <1>12 DEF Inv

\* Looking for a map keeps the thread busy with its request.
LEMMA FindInv == ASSUME Inv, NEW w \in Worker, NEW m \in Map, FindMap(w, m) PROVE Inv'
<1>1. /\ at' = [at EXCEPT ![w] = "create"] /\ want' = [want EXCEPT ![w] = m]
      /\ at[w] = "update"
  BY DEF FindMap
<1>2. UNCHANGED <<maps, executor, requests, rq, pc, loop, updates>>  BY DEF FindMap
<1>3. at \in [Worker -> {"none", "start", "idle", "update", "create", "end"}]
      /\ want \in [Worker -> Map \cup {NoMap}]
  BY DEF Inv, TypeOK
<1>4. Busy' = Busy  BY <1>1, <1>3 DEF Busy
<1>5. TypeOK'
  <2>1. at' \in [Worker -> {"none", "start", "idle", "update", "create", "end"}]
        /\ want' \in [Worker -> Map \cup {NoMap}]
    BY <1>1, <1>3
  <2> QED  BY <1>2, <2>1 DEF Inv, TypeOK, maps, executor, requests, loop
<1>6. WorkersConsistent'  BY <1>1, <1>2, <1>3 DEF Inv, WorkersConsistent
<1>7. queue' = queue /\ pending' = pending /\ pc' = pc /\ activated' = activated
  BY <1>2 DEF requests, executor
<1>8. PendingExact'  BY <1>4, <1>7 DEF Inv, PendingExact
<1>9. WorldAlone' /\ IdleWhenInactive'
  BY <1>4, <1>7 DEF Inv, WorldAlone, IdleWhenInactive
<1> QED  BY <1>5, <1>6, <1>8, <1>9 DEF Inv

\* Creating a map does, too.
LEMMA CreateInv == ASSUME Inv, NEW w \in Worker, CreateBaseMap(w) PROVE Inv'
<1>1. /\ at' = [at EXCEPT ![w] = "update"] /\ want' = [want EXCEPT ![w] = NoMap]
      /\ at[w] = "create" /\ made' = [made EXCEPT ![want[w]] = @ + 1]
      /\ Insert({want[w]})
  BY DEF CreateBaseMap
<1>2. UNCHANGED <<executor, requests, rq, pc, refused, updates>>  BY DEF CreateBaseMap
<1>3. at \in [Worker -> {"none", "start", "idle", "update", "create", "end"}]
      /\ want \in [Worker -> Map \cup {NoMap}] /\ made \in [Map -> Nat] /\ born \subseteq Map
  BY DEF Inv, TypeOK
<1>4. want[w] \in Map  BY <1>1 DEF Inv, WorkersConsistent
<1>5. Busy' = Busy  BY <1>1, <1>3 DEF Busy
<1>6. TypeOK'
  <2>1. at' \in [Worker -> {"none", "start", "idle", "update", "create", "end"}]
        /\ want' \in [Worker -> Map \cup {NoMap}]
    BY <1>1, <1>3
  <2>2. made' \in [Map -> Nat]  BY <1>1, <1>3, <1>4
  <2>3. born' \subseteq Map /\ todo' \subseteq Map /\ moved' \in BOOLEAN
    BY <1>1, <1>4, InsertTypes DEF Inv
  <2> QED  BY <1>2, <2>1, <2>2, <2>3 DEF Inv, TypeOK, executor, requests
<1>7. WorkersConsistent'  BY <1>1, <1>2, <1>3 DEF Inv, WorkersConsistent
<1>8. queue' = queue /\ pending' = pending /\ pc' = pc /\ activated' = activated
  BY <1>2 DEF requests, executor
<1>9. PendingExact'  BY <1>5, <1>8 DEF Inv, PendingExact
<1>10. WorldAlone' /\ IdleWhenInactive'
  BY <1>5, <1>8 DEF Inv, WorldAlone, IdleWhenInactive
<1> QED  BY <1>6, <1>7, <1>9, <1>10 DEF Inv

\* And so does a step that changes nothing.
LEMMA StutterInv == ASSUME Inv, UNCHANGED vars PROVE Inv'
<1>1. UNCHANGED <<maps, executor, requests, workers, pc, loop, updates>>  BY DEF vars
<1>2. Busy' = Busy  BY <1>1 DEF Busy, workers
<1>3. TypeOK'
  BY <1>1 DEF Inv, TypeOK, maps, executor, requests, workers, loop
<1>4. WorkersConsistent'  BY <1>1 DEF Inv, WorkersConsistent, workers
<1>5. PendingExact' /\ WorldAlone' /\ IdleWhenInactive'
  BY <1>1, <1>2 DEF Inv, PendingExact, WorldAlone, IdleWhenInactive, requests, executor
<1> QED  BY <1>3, <1>4, <1>5 DEF Inv

\* The invariant is inductive.
LEMMA NextInv == ASSUME Inv, [Next]_vars PROVE Inv'
<1>1. ASSUME NEW w \in Worker, svc(w) PROVE Inv'
  <2>1. CASE PreHook(w) \/ PostHook(w)  BY <2>1, HookInv
  <2>2. CASE Dequeue(w)  BY <2>2, DequeueInv
  <2>3. CASE CreateBaseMap(w)  BY <2>3, CreateInv
  <2>4. CASE update_finished(w)  BY <2>4, FinishedInv
  <2>5. ASSUME NEW m \in Map, FindMap(w, m) PROVE Inv'  BY <2>5, FindInv
  <2> QED  BY <1>1, <2>1, <2>2, <2>3, <2>4, <2>5 DEF svc
<1>2. CASE World
  <2>1. CASE Initialize  BY <2>1, InitializeInv
  <2>2. CASE Deactivate  BY <2>2, DeactivateInv
  <2>3. ASSUME NEW m \in Map, ScheduleOrUpdate(m) PROVE Inv'  BY <2>3, ScheduleInv
  <2>4. CASE \/ \E m \in Map : CreateMap(m)
             \/ StartUpdate \/ EndSchedule \/ Wait \/ SpuriousWake \/ DelayedUpdate
             \/ UnloadAll \/ Joined
    BY <2>4, QuietInv
  <2> QED  BY <1>2, <2>1, <2>2, <2>3, <2>4 DEF World
<1>3. CASE SpuriousWake  BY <1>3, QuietInv
<1>4. CASE UNCHANGED vars  BY <1>4, StutterInv
<1> QED  BY <1>1, <1>2, <1>3, <1>4 DEF Next, Terminated

\* The invariant holds at every moment.
LEMMA Invariant == Spec => []Inv
<1> QED  BY InitInv, NextInv, PTL DEF Spec

\* The type invariant holds for every number of threads and maps.
THEOREM TypeCorrect == Spec => []TypeOK
<1>1. Inv => TypeOK  BY DEF Inv
<1> QED  BY Invariant, <1>1, PTL

\* MapUpdater's count of pending requests is exact at every moment.
THEOREM CountExact == Spec => []PendingExact
<1>1. Inv => PendingExact  BY DEF Inv
<1> QED  BY Invariant, <1>1, PTL

\* Outside MapManager::Update()'s loop and wait no thread touches a map, nor will it
\* before the next loop: not during DelayedUpdate(), not while sessions and managers
\* run, not when the maps are deleted.
THEOREM WorldAloneAlways == Spec => []WorldAlone
<1>1. Inv => WorldAlone  BY DEF Inv
<1> QED  BY Invariant, <1>1, PTL
-----------------------------------------------------------------------------
(* How many objects a map can have.                                        *)

\* The threads on their way to create a map.
Makers(m) == {w \in Worker : want[w] = m}

\* A map that exists is not looked for in vain any more: those who did not find it
\* are the only ones that can still replace it.
MakersBounded ==
    \A m \in Map : made[m] > 0 => made[m] + Cardinality(Makers(m)) <= Cardinality(Worker)

\* Threads are counted.
LEMMA MakersFinite ==
    ASSUME NEW m \in Map
    PROVE  /\ IsFiniteSet(Makers(m)) /\ Cardinality(Makers(m)) \in Nat
           /\ Cardinality(Makers(m)) <= Cardinality(Worker)
           /\ Cardinality(Worker) \in Nat /\ Cardinality(Worker) >= 1
<1>1. IsFiniteSet(Worker) /\ Worker # {}  BY MapConstants
<1>2. Makers(m) \subseteq Worker  BY DEF Makers
<1>3. IsFiniteSet(Makers(m)) /\ Cardinality(Makers(m)) <= Cardinality(Worker)
  BY <1>1, <1>2, FS_Subset
<1>4. Cardinality(Makers(m)) \in Nat /\ Cardinality(Worker) \in Nat
  BY <1>1, <1>3, FS_CardinalityType
<1>5. Cardinality(Worker) # 0  BY <1>1, FS_EmptySet
<1> QED  BY <1>3, <1>4, <1>5

\* While no thread is busy none is about to create a map.
LEMMA NoMakers ==
    ASSUME Inv, Busy = {}, NEW m \in Map
    PROVE  Cardinality(Makers(m)) = 0
<1>1. \A w \in Worker : at[w] # "create"  BY DEF Busy
<1>2. NoMap \notin Map  BY MapConstants
<1>3. Makers(m) = {}  BY <1>1, <1>2 DEF Makers, Inv, WorkersConsistent
<1> QED  BY <1>3, FS_EmptySet

\* A map made by the world thread, in a phase when it is alone, is the first one.
LEMMA MadeAlone ==
    ASSUME Inv, MakersBounded, Busy = {}, want' = want,
           NEW came \in SUBSET Map,
           \A m \in Map : made'[m] = IF m \in came THEN 1 ELSE made[m]
    PROVE  MakersBounded'
<1> SUFFICES ASSUME NEW m \in Map, made'[m] > 0
             PROVE  made'[m] + Cardinality(Makers(m))' <= Cardinality(Worker)
  BY DEF MakersBounded
<1>1. Makers(m)' = Makers(m)  BY DEF Makers
<1>2. Cardinality(Makers(m)) = 0 /\ Cardinality(Worker) >= 1 /\ Cardinality(Worker) \in Nat
  BY NoMakers, MakersFinite
<1>3. CASE m \in came
  <2>1. made'[m] = 1  BY <1>3
  <2> QED  BY <1>1, <1>2, <2>1
<1>4. CASE m \notin came
  <2>1. made'[m] = made[m]  BY <1>4
  <2> QED  BY <1>1, <2>1 DEF MakersBounded
<1> QED  BY <1>3, <1>4

\* A step that creates nothing and looks for nothing.
LEMMA MadeUnchanged ==
    ASSUME MakersBounded, UNCHANGED <<made, want>> PROVE MakersBounded'
<1>1. \A m \in Map : Makers(m)' = Makers(m)  BY DEF Makers
<1> QED  BY <1>1 DEF MakersBounded

\* _createBaseMap() looks: only for a map that does not exist.
LEMMA FindBounded ==
    ASSUME Inv, MakersBounded, NEW w \in Worker, NEW m \in Map, FindMap(w, m)
    PROVE  MakersBounded'
<1>1. /\ made' = made /\ want' = [want EXCEPT ![w] = m] /\ at[w] = "update"
      /\ ~(made[m] > 0)
  BY DEF FindMap, Found, Exist, maps
<1>2. want \in [Worker -> Map \cup {NoMap}] /\ want[w] = NoMap /\ NoMap \notin Map
  BY <1>1, MapConstants DEF Inv, TypeOK, WorkersConsistent
<1> SUFFICES ASSUME NEW n \in Map, made'[n] > 0
             PROVE  made'[n] + Cardinality(Makers(n))' <= Cardinality(Worker)
  BY DEF MakersBounded
<1>3. n # m  BY <1>1
<1>4. Makers(n)' = Makers(n)  BY <1>1, <1>2, <1>3 DEF Makers
<1> QED  BY <1>1, <1>4 DEF MakersBounded

\* _createBaseMap() creates: one object more, one thread less on its way.
LEMMA CreateBounded ==
    ASSUME Inv, MakersBounded, NEW w \in Worker, CreateBaseMap(w)
    PROVE  MakersBounded'
<1>1. /\ at[w] = "create" /\ made' = [made EXCEPT ![want[w]] = @ + 1]
      /\ want' = [want EXCEPT ![w] = NoMap]
  BY DEF CreateBaseMap
<1>2. want \in [Worker -> Map \cup {NoMap}] /\ want[w] \in Map /\ NoMap \notin Map
      /\ made \in [Map -> Nat]
  BY <1>1, MapConstants DEF Inv, TypeOK, WorkersConsistent
<1> SUFFICES ASSUME NEW n \in Map, made'[n] > 0
             PROVE  made'[n] + Cardinality(Makers(n))' <= Cardinality(Worker)
  BY DEF MakersBounded
<1>3. CASE n = want[w]
  <2>1. made'[n] = made[n] + 1 /\ made[n] \in Nat  BY <1>1, <1>2, <1>3
  <2>2. w \in Makers(n) /\ Makers(n)' = Makers(n) \ {w}  BY <1>1, <1>2, <1>3 DEF Makers
  <2>3. Cardinality(Makers(n) \ {w}) = Cardinality(Makers(n)) - 1
    BY <2>2, MakersFinite, FS_RemoveElement
  <2>4. Cardinality(Makers(n))' = Cardinality(Makers(n)) - 1  BY <2>2, <2>3
  <2>5. made[n] + Cardinality(Makers(n)) <= Cardinality(Worker)
    BY <2>1, MakersFinite DEF MakersBounded
  <2>6. Cardinality(Makers(n)) \in Nat /\ Cardinality(Worker) \in Nat  BY MakersFinite
  <2> QED  BY <2>1, <2>4, <2>5, <2>6
<1>4. CASE n # want[w]
  <2>1. made'[n] = made[n]  BY <1>1, <1>2, <1>4
  <2>2. Makers(n)' = Makers(n)  BY <1>1, <1>2, <1>4 DEF Makers
  <2> QED  BY <2>1, <2>2 DEF MakersBounded
<1> QED  BY <1>3, <1>4

\* Every step keeps the bound.
LEMMA NextBounded == ASSUME Inv, MakersBounded, [Next]_vars PROVE MakersBounded'
<1>1. ASSUME NEW w \in Worker, svc(w) PROVE MakersBounded'
  <2>1. CASE PreHook(w) \/ PostHook(w) \/ Dequeue(w) \/ update_finished(w)
    BY <2>1, MadeUnchanged DEF PreHook, PostHook, Dequeue, update_finished, maps
  <2>2. CASE CreateBaseMap(w)  BY <2>2, CreateBounded
  <2>3. ASSUME NEW m \in Map, FindMap(w, m) PROVE MakersBounded'  BY <2>3, FindBounded
  <2> QED  BY <1>1, <2>1, <2>2, <2>3 DEF svc
<1>2. ASSUME NEW m \in Map, CreateMap(m) PROVE MakersBounded'
  <2>1. Busy = {}  BY <1>2 DEF CreateMap, Inv, WorldAlone
  <2>2. want' = want /\ made' = [made EXCEPT ![m] = 1]  BY <1>2 DEF CreateMap, workers
  <2>3. made \in [Map -> Nat]  BY DEF Inv, TypeOK
  <2>4. \A n \in Map : made'[n] = IF n \in {m} THEN 1 ELSE made[n]  BY <2>2, <2>3
  <2> QED  BY <2>1, <2>2, <2>4, MadeAlone
<1>3. ASSUME NEW m \in Map, ScheduleOrUpdate(m) PROVE MakersBounded'
  <2>1. want' = want  BY <1>3 DEF ScheduleOrUpdate, workers
  <2>2. CASE activated
    <3>1. made' = made  BY <1>3, <2>2 DEF ScheduleOrUpdate, maps
    <3> QED  BY <2>1, <3>1, MadeUnchanged
  <2>3. CASE ~activated
    <3>1. Busy = {}  BY <2>3 DEF Inv, IdleWhenInactive
    <3>2. PICK came \in SUBSET {n \in Map \ Exist : <<m, n>> \in Links} :
            made' = [n \in Map |-> IF n \in came THEN 1 ELSE made[n]]
      BY <1>3, <2>3 DEF ScheduleOrUpdate
    <3>3. came \in SUBSET Map  OBVIOUS
    <3>4. \A n \in Map : made'[n] = IF n \in came THEN 1 ELSE made[n]  BY <3>2
    <3> QED  BY <2>1, <3>1, <3>3, <3>4, MadeAlone
  <2> QED  BY <2>2, <2>3
<1>4. CASE UnloadAll
  <2>1. \A m \in Map : made'[m] = 0  BY <1>4 DEF UnloadAll
  <2> QED  BY <2>1 DEF MakersBounded
<1>5. CASE \/ Initialize \/ StartUpdate \/ EndSchedule \/ Wait \/ SpuriousWake
           \/ DelayedUpdate \/ Deactivate \/ Joined
  <2>1. made' = made /\ want' = want
    BY <1>5 DEF Initialize, StartUpdate, EndSchedule, Wait, SpuriousWake, DelayedUpdate,
                Deactivate, Joined, maps, workers
  <2> QED  BY <2>1, MadeUnchanged
<1>6. CASE UNCHANGED vars
  <2>1. made' = made /\ want' = want  BY <1>6 DEF vars, maps, workers
  <2> QED  BY <2>1, MadeUnchanged
<1> QED  BY <1>1, <1>2, <1>3, <1>4, <1>5, <1>6 DEF Next, World, Terminated

\* However pools ask for maps, _createBaseMap() never makes more objects of one map
\* than there are threads: with one thread no map is ever lost.
THEOREM LostMapsBounded == Spec => []OneMapPerThread
<1>1. Init => MakersBounded
  <2> SUFFICES ASSUME Init PROVE MakersBounded  OBVIOUS
  <2>1. \A m \in Map : made[m] = 0  BY DEF Init
  <2> QED  BY <2>1 DEF MakersBounded
<1>2. Inv /\ MakersBounded => OneMapPerThread
  <2> SUFFICES ASSUME Inv, MakersBounded, NEW m \in Map
               PROVE  made[m] <= Cardinality(Worker)
    BY DEF OneMapPerThread
  <2>1. made[m] \in Nat /\ Cardinality(Makers(m)) \in Nat /\ Cardinality(Worker) \in Nat
    BY MakersFinite DEF Inv, TypeOK
  <2> QED  BY <2>1 DEF MakersBounded
<1>3. Inv /\ MakersBounded /\ [Next]_vars => MakersBounded'  BY NextBounded
<1> QED  BY Invariant, <1>1, <1>2, <1>3, PTL DEF Spec
-----------------------------------------------------------------------------
(* One round of updates.                                                   *)

Updating == {"schedule", "wait", "asleep", "delayed"}
Queued == ToSet(queue)

\* A map of the loop is in one place: still to visit, in the queue, refused, or taken
\* for its update, where it never comes back from; only a newcomer may be in none.
OnePlace(m) ==
    /\ updates[m] \in {0, 1}
    /\ m \in Queued => m \notin todo \cup refused /\ updates[m] = 0
    /\ m \in refused => m \notin todo /\ updates[m] = 0
    /\ m \in todo => updates[m] = 0
    /\ m \in Queued \cup todo \cup refused \/ updates[m] = 1 => m \in Exist
    /\ m \in Exist => m \in Queued \cup todo \cup refused \cup born \/ updates[m] = 1

\* As long as no map came under the loop.
Rounds ==
    pc \in Updating /\ ~moved =>
        /\ IsInjective(queue)
        /\ pc # "schedule" => todo = {}
        /\ \A m \in Map : OnePlace(m)

\* Steps that move no request and no map, and begin no round.
LEMMA RoundsKept ==
    ASSUME Rounds, UNCHANGED <<maps, queue, loop, updates>>,
           pc' \in Updating => /\ pc \in Updating
                               /\ pc' # "schedule" => pc # "schedule" \/ todo = {}
    PROVE  Rounds'
<1>1. Exist' = Exist /\ Queued' = Queued  BY DEF Exist, Queued, maps
<1>2. \A m \in Map : OnePlace(m) => OnePlace(m)'  BY <1>1 DEF OnePlace, maps, loop
<1> QED  BY <1>2 DEF Rounds, loop

\* The loop begins with an empty queue and every map still to visit.
LEMMA StartRounds == ASSUME Inv, StartUpdate PROVE Rounds'
<1>1. queue = <<>>  BY DEF Inv, WorldAlone, StartUpdate
<1>2. /\ queue' = <<>> /\ todo' = Exist /\ refused' = {} /\ born' = {} /\ made' = made
      /\ updates' = [m \in Map |-> 0] /\ pc' = "schedule"
  BY <1>1 DEF StartUpdate, requests
<1>3. Queued' = {} /\ IsInjective(queue)'  BY <1>2 DEF Queued, ToSet, IsInjective
<1>4. Exist' = Exist  BY <1>2 DEF Exist
<1>5. \A m \in Map : OnePlace(m)'  BY <1>2, <1>3, <1>4 DEF OnePlace
<1> QED  BY <1>2, <1>3, <1>5 DEF Rounds

\* A map that is visited is queued, refused or updated, and visited no more.
LEMMA ScheduleRounds == ASSUME Inv, Rounds, NEW m \in Map, ScheduleOrUpdate(m) PROVE Rounds'
<1> SUFFICES ASSUME ~moved PROVE Rounds'
  BY DEF ScheduleOrUpdate, Insert, Rounds
<1>1. pc = "schedule" /\ pc' = "schedule" /\ m \in todo  BY DEF ScheduleOrUpdate
<1>2. IsInjective(queue) /\ (\A n \in Map : OnePlace(n)) /\ queue \in Seq(Map)
      /\ updates \in [Map -> Nat] /\ made \in [Map -> Nat]
  BY <1>1 DEF Rounds, Updating, Inv, TypeOK
<1>3. CASE activated
  <2>1. /\ todo' = todo \ {m} /\ schedule_update(m) /\ updates' = updates
        /\ born' = born /\ Exist' = Exist
    BY <1>3 DEF ScheduleOrUpdate, maps, Exist
  <2>2. CASE active /\ Len(queue) < Capacity
    <3>1. queue' = Append(queue, m) /\ refused' = refused
      BY <2>1, <2>2 DEF schedule_update
    <3>2. m \notin ToSet(queue)  BY <1>1, <1>2 DEF OnePlace, Queued
    <3>3. IsInjective(queue)' /\ Queued' = Queued \cup {m}
      BY <1>2, <3>1, <3>2, AppendNew DEF Queued
    <3>4. ASSUME NEW n \in Map PROVE OnePlace(n)'
      <4>1. OnePlace(n) /\ OnePlace(m)  BY <1>2
      <4> QED  BY <1>1, <2>1, <3>1, <3>3, <4>1 DEF OnePlace
    <3> QED  BY <1>1, <3>3, <3>4 DEF Rounds
  <2>3. CASE ~(active /\ Len(queue) < Capacity)
    <3>1. queue' = queue /\ refused' = refused \cup {m}
      BY <2>1, <2>3 DEF schedule_update
    <3>2. Queued' = Queued  BY <3>1 DEF Queued
    <3>3. ASSUME NEW n \in Map PROVE OnePlace(n)'
      <4>1. OnePlace(n) /\ OnePlace(m)  BY <1>2
      <4> QED  BY <1>1, <2>1, <3>1, <3>2, <4>1 DEF OnePlace
    <3> QED  BY <1>1, <1>2, <3>1, <3>3 DEF Rounds
  <2> QED  BY <2>2, <2>3
<1>4. CASE ~activated
  <2>1. updates' = [updates EXCEPT ![m] = @ + 1] /\ queue' = queue /\ refused' = refused
    BY <1>4 DEF ScheduleOrUpdate, requests
  <2>2. PICK came \in SUBSET {n \in Map \ Exist : <<m, n>> \in Links} :
          /\ made' = [n \in Map |-> IF n \in came THEN 1 ELSE made[n]]
          /\ IF came = {} THEN todo' = todo \ {m} /\ UNCHANGED <<born, moved>> ELSE Insert(came)
    BY <1>4 DEF ScheduleOrUpdate
  <2>3. CASE came # {}
    <3>1. moved' = TRUE  BY <1>1, <2>2, <2>3 DEF Insert
    <3> QED  BY <3>1 DEF Rounds
  <2>4. CASE came = {}
    <3>1. todo' = todo \ {m} /\ born' = born /\ made' = [n \in Map |-> made[n]]  BY <2>2, <2>4
    <3>2. Exist' = Exist /\ Queued' = Queued  BY <2>1, <3>1 DEF Exist, Queued
    <3>3. \A n \in Map : updates'[n] = IF n = m THEN updates[n] + 1 ELSE updates[n]
      BY <1>2, <2>1
    <3>4. ASSUME NEW n \in Map PROVE OnePlace(n)'
      <4>1. OnePlace(n) /\ OnePlace(m)  BY <1>2
      <4> QED  BY <1>1, <2>1, <3>1, <3>2, <3>3, <4>1 DEF OnePlace
    <3> QED  BY <1>1, <1>2, <2>1, <3>4 DEF Rounds
  <2> QED  BY <2>3, <2>4
<1> QED  BY <1>3, <1>4

\* A thread takes a request: the map leaves the queue for its only update.
LEMMA DequeueRounds == ASSUME Inv, Rounds, NEW w \in Worker, Dequeue(w) PROVE Rounds'
<1> SUFFICES ASSUME ~moved PROVE Rounds'
  BY DEF Dequeue, loop, Rounds
<1>1. queue \in Seq(Map) /\ queue # <<>> /\ updates \in [Map -> Nat]
  BY DEF Inv, TypeOK, Dequeue
<1>2. /\ queue' = Tail(queue) /\ updates' = [updates EXCEPT ![Head(queue)] = @ + 1]
      /\ UNCHANGED <<maps, loop, pc>>
  BY DEF Dequeue
<1>3. pc \in Updating /\ (pc # "delayed")
  BY <1>1 DEF Inv, WorldAlone, Updating
<1>4. IsInjective(queue) /\ (pc # "schedule" => todo = {}) /\ \A m \in Map : OnePlace(m)
  BY <1>3 DEF Rounds
<1>5. /\ IsInjective(queue)' /\ Head(queue) \in Queued /\ Queued' = Queued \ {Head(queue)}
  BY <1>1, <1>2, <1>4, TailSet DEF Queued
<1>6. Head(queue) \in Map  BY <1>1
<1>7. Exist' = Exist /\ born' = born /\ todo' = todo /\ refused' = refused
  BY <1>2 DEF Exist, maps, loop
<1>8. ASSUME NEW m \in Map PROVE OnePlace(m)'
  <2>1. OnePlace(m)  BY <1>4
  <2>2. CASE m = Head(queue)
    <3>1. updates'[m] = 1 /\ m \notin todo \cup refused /\ m \in Exist
      BY <1>1, <1>2, <1>5, <2>1, <2>2 DEF OnePlace
    <3> QED  BY <1>5, <1>7, <2>2, <3>1 DEF OnePlace
  <2>3. CASE m # Head(queue)
    <3>1. updates'[m] = updates[m] /\ (m \in Queued' <=> m \in Queued)
      BY <1>1, <1>2, <1>5, <1>6, <2>3
    <3> QED  BY <1>7, <2>1, <3>1 DEF OnePlace
  <2> QED  BY <2>2, <2>3
<1> QED  BY <1>2, <1>4, <1>5, <1>7, <1>8 DEF Rounds

\* A map created after the loop is a newcomer; one that is replaced stays where its id was.
LEMMA CreateRounds == ASSUME Inv, Rounds, NEW w \in Worker, CreateBaseMap(w) PROVE Rounds'
<1> DEFINE x == want[w]
<1>1. x \in Map /\ made \in [Map -> Nat] /\ updates \in [Map -> Nat]
  BY DEF Inv, WorkersConsistent, TypeOK, CreateBaseMap
<1>2. /\ made' = [made EXCEPT ![x] = @ + 1] /\ Insert({x})
      /\ queue' = queue /\ refused' = refused /\ updates' = updates /\ pc' = pc
  BY DEF CreateBaseMap, requests
<1>3. w \in Busy  BY DEF CreateBaseMap, Busy
<1>4. pc \in Updating  BY <1>3 DEF Inv, WorldAlone, Updating
<1> HIDE DEF x
<1> SUFFICES ASSUME ~moved' PROVE Rounds'
  BY DEF Rounds
<1>5. /\ ~moved /\ todo' = todo /\ born' = born \cup {x}
      /\ pc # "schedule" \/ x \in Exist
  BY <1>2 DEF Insert
<1>6. IsInjective(queue) /\ (pc # "schedule" => todo = {}) /\ \A m \in Map : OnePlace(m)
  BY <1>4, <1>5 DEF Rounds
<1>7. Exist' = Exist \cup {x} /\ Queued' = Queued
  BY <1>1, <1>2 DEF Exist, Queued
<1>8. ASSUME NEW m \in Map PROVE OnePlace(m)'
  <2>1. OnePlace(m)  BY <1>6
  <2>2. CASE m = x /\ x \notin Exist
    <3>1. m \notin Queued \cup todo \cup refused /\ updates[m] = 0
      BY <2>1, <2>2 DEF OnePlace
    <3>2. m \notin Queued' \cup todo' \cup refused' /\ updates'[m] = 0 /\ m \in born' /\ m \in Exist'
      BY <1>2, <1>5, <1>7, <2>2, <3>1
    <3> QED  BY <3>2 DEF OnePlace
  <2>3. CASE m # x \/ x \in Exist
    <3>1. (m \in Exist' <=> m \in Exist) /\ todo' = todo
      BY <1>5, <1>7, <2>3
    <3> QED  BY <1>2, <1>5, <1>7, <2>1, <3>1 DEF OnePlace
  <2> QED  BY <2>2, <2>3
<1> QED  BY <1>2, <1>5, <1>6, <1>8 DEF Rounds

\* Every step keeps the round.
LEMMA NextRounds == ASSUME Inv, Rounds, [Next]_vars PROVE Rounds'
<1>1. ASSUME NEW w \in Worker, svc(w) PROVE Rounds'
  <2>1. CASE PreHook(w) \/ PostHook(w)
    BY <2>1, RoundsKept DEF PreHook, PostHook, requests
  <2>2. CASE Dequeue(w)  BY <2>2, DequeueRounds
  <2>3. CASE CreateBaseMap(w)  BY <2>3, CreateRounds
  <2>4. CASE update_finished(w)
    <3>1. UNCHANGED <<maps, queue, loop, updates>>  BY <2>4 DEF update_finished
    <3>2. pc' = pc \/ pc' = Woken  BY <2>4 DEF update_finished
    <3> QED  BY <3>1, <3>2, RoundsKept DEF Woken, Updating
  <2>5. ASSUME NEW m \in Map, FindMap(w, m) PROVE Rounds'
    BY <2>5, RoundsKept DEF FindMap, requests
  <2> QED  BY <1>1, <2>1, <2>2, <2>3, <2>4, <2>5 DEF svc
<1>2. ASSUME NEW m \in Map, CreateMap(m) PROVE Rounds'
  BY <1>2 DEF CreateMap, Rounds, Updating
<1>3. ASSUME NEW m \in Map, ScheduleOrUpdate(m) PROVE Rounds'  BY <1>3, ScheduleRounds
<1>4. CASE StartUpdate  BY <1>4, StartRounds
<1>5. CASE EndSchedule \/ Wait \/ SpuriousWake
  <2>1. UNCHANGED <<maps, queue, loop, updates>>
    BY <1>5 DEF EndSchedule, Wait, SpuriousWake, requests
  <2>2. CASE EndSchedule  BY <2>1, <2>2, RoundsKept DEF EndSchedule, Updating
  <2>3. CASE Wait  BY <2>1, <2>3, RoundsKept DEF Wait, Waited, Updating
  <2>4. CASE SpuriousWake  BY <2>1, <2>4, RoundsKept DEF SpuriousWake, Updating
  <2> QED  BY <1>5, <2>2, <2>3, <2>4
<1>6. CASE Initialize \/ DelayedUpdate \/ UnloadAll \/ Joined \/ Deactivate
  <2>1. pc' \notin Updating
    BY <1>6 DEF Initialize, DelayedUpdate, UnloadAll, Joined, Deactivate, Updating
  <2> QED  BY <2>1 DEF Rounds
<1>7. CASE UNCHANGED vars
  BY <1>7, RoundsKept DEF vars, requests
<1> QED  BY <1>1, <1>2, <1>3, <1>4, <1>5, <1>6, <1>7 DEF Next, World, Terminated

\* When the loop and its wait are over and no map came into i_maps under the loop, every
\* map that was there when it began was updated exactly once, unless the queue refused it; a
\* newcomer, which came during the wait, at most once.
THEOREM EachMapOnceAlways == Spec => []EachMapOnce
<1>1. Init => Rounds  BY DEF Init, Rounds, Updating
<1>2. Inv /\ Rounds => EachMapOnce
  <2> SUFFICES ASSUME Inv, Rounds, pc = "delayed", ~moved, NEW m \in Exist
               PROVE  LET n == updates[m] + (IF m \in refused THEN 1 ELSE 0)
                      IN  n = 1 \/ (n = 0 /\ m \in born)
    BY DEF EachMapOnce
  <2>1. m \in Map  BY DEF Exist
  <2>2. OnePlace(m) /\ todo = {}  BY <2>1 DEF Rounds, Updating
  <2>3. Queued = {}  BY DEF Inv, WorldAlone, Queued, ToSet
  <2> QED  BY <2>2, <2>3 DEF OnePlace
<1>3. Inv /\ Rounds /\ [Next]_vars => Rounds'  BY NextRounds
<1> QED  BY Invariant, <1>1, <1>2, <1>3, PTL DEF Spec
=============================================================================
