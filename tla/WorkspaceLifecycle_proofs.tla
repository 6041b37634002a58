----------------------- MODULE WorkspaceLifecycle_proofs -----------------------
(***************************************************************************)
(* Proofs about WorkspaceLifecycle, for any set of projects, any number of *)
(* requests at once and any length of the queue: types, the focus, and the *)
(* agreement of the registry with the tasks.                               *)
(***************************************************************************)
EXTENDS WorkspaceLifecycle, FiniteSetTheorems, SequenceTheorems, TLAPS

PCs == {"done", "register", "spawn_indexer", "spawn_watcher", "cancel_indexer",
        "cancel_watcher", "unregister", "activate", "pause", "resume"}

\* A set with at most one element, of S.
AtMostOne(s, S) == s = {} \/ \E x \in S : s = {x}

\* The types, with at most one element where TypeOK counts.
ShapeOK ==
  /\ registry \in [Projects -> {"none", "on", "paused"}]
  /\ AtMostOne(active, Projects)
  /\ indexers \subseteq Projects /\ watchers \subseteq Projects
  /\ processors \subseteq Projects
  /\ lock \in [Mutexes -> SUBSET Holders]
  /\ \A m \in Mutexes : AtMostOne(lock[m], Holders)
  /\ request \in [Handlers -> [pc : PCs, project : Projects]]
  /\ made \in Nat /\ paused \in BOOLEAN
  /\ queue \in Seq(Projects) /\ overlapped \subseteq Projects
  /\ loop \in [pc : {"recv", "lock", "process"}, project : Projects]

LEMMA AtMostOneType ==
  ASSUME NEW S, NEW s, AtMostOne(s, S)
  PROVE  s \in SUBSET S /\ Cardinality(s) <= 1
<1>1. CASE s = {}
  BY <1>1, FS_EmptySet
<1>2. CASE \E x \in S : s = {x}
  BY <1>2, FS_Singleton
<1> QED BY <1>1, <1>2 DEF AtMostOne

LEMMA AtMostOneLess ==
  ASSUME NEW S, NEW s, AtMostOne(s, S), NEW x
  PROVE  AtMostOne(s \ {x}, S)
BY DEF AtMostOne

LEMMA ShapeType == ShapeOK => TypeOK
<1> SUFFICES ASSUME ShapeOK PROVE TypeOK
  OBVIOUS
<1>1. active \in SUBSET Projects /\ Cardinality(active) <= 1
  BY AtMostOneType DEF ShapeOK
<1>2. \A m \in Mutexes : Cardinality(lock[m]) <= 1
  BY AtMostOneType DEF ShapeOK
<1> QED BY <1>1, <1>2 DEF ShapeOK, TypeOK, PCs

LocksOK ==
  /\ lock \in [Mutexes -> SUBSET Holders]
  /\ \A m \in Mutexes : AtMostOne(lock[m], Holders)

\* A handler takes a mutex, drops all it holds, or leaves them alone.
LEMMA LockShape ==
  ASSUME ShapeOK, NEW h \in Holders, NEW m \in Mutexes,
         Locks(h, m) \/ lock' = Unlocked(h) \/ UNCHANGED lock
  PROVE  LocksOK'
<1> USE DEF ShapeOK, LocksOK
<1>1. CASE Locks(h, m)
  BY <1>1 DEF Locks, AtMostOne
<1>2. CASE lock' = Unlocked(h)
  <2>1. \A n \in Mutexes : AtMostOne(lock[n] \ {h}, Holders)
    BY AtMostOneLess
  <2> QED BY <1>2, <2>1 DEF Unlocked
<1>3. CASE UNCHANGED lock
  BY <1>3
<1> QED BY <1>1, <1>2, <1>3

LEMMA MutexNames ==
  /\ "registry" \in Mutexes /\ "indexer" \in Mutexes /\ "observer" \in Mutexes
  /\ Handlers \subseteq Holders /\ "loop" \in Holders
BY DEF Mutexes, Handlers, Holders

LEMMA ShapeInit == Init => ShapeOK
<1> SUFFICES ASSUME Init PROVE ShapeOK
  OBVIOUS
<1> USE ConstantsAssumption DEF Init, Done, Waiting, PCs
<1>1. AtMostOne(active, Projects) /\ \A m \in Mutexes : AtMostOne(lock[m], Holders)
  BY DEF AtMostOne
<1>2. <<>> \in Seq(Projects)
  OBVIOUS
<1>3. request \in [Handlers -> [pc : PCs, project : Projects]]
  BY DEF Handlers
<1>4. lock \in [Mutexes -> SUBSET Holders]
  OBVIOUS
<1>5. registry \in [Projects -> {"none", "on", "paused"}]
  OBVIOUS
<1> QED BY <1>1, <1>2, <1>3, <1>4, <1>5 DEF ShapeOK

LEMMA ShapeStep == ShapeOK /\ [Next]_vars => ShapeOK'
<1> SUFFICES ASSUME ShapeOK, [Next]_vars PROVE ShapeOK'
  OBVIOUS
<1> USE ConstantsAssumption, MutexNames
    DEF Goto, LocksOK, Done, Waiting, maps, PCs
<1>1. ASSUME NEW h \in Requests,
             NEW pc \in {"register", "cancel_indexer", "activate", "pause", "resume"},
             Begin(h, pc)
      PROVE  ShapeOK'
  BY <1>1 DEF Begin, ShapeOK, Handlers
<1>2. ASSUME NEW h \in Handlers, Serve(h) PROVE ShapeOK'
  <2>1. request[h].project \in Projects
    BY DEF ShapeOK
  <2> DEFINE p == request[h].project
  <2>2. CASE Register(h)
    <3>1. AtMostOne(active', Projects)
      BY <2>1, <2>2 DEF Register, ShapeOK, AtMostOne
    <3>2. LocksOK'
      BY <2>2, LockShape DEF Register
    <3>3. request' \in [Handlers -> [pc : PCs, project : Projects]]
      <4>1. Goto(h, "spawn_indexer") \/ request' = [request EXCEPT ![h] = Done]
        BY <2>2 DEF Register
      <4> QED BY <4>1 DEF ShapeOK
    <3>4. registry' \in [Projects -> {"none", "on", "paused"}]
      BY <2>1, <2>2 DEF Register, ShapeOK
    <3> QED BY <2>2, <3>1, <3>2, <3>3, <3>4 DEF Register, ShapeOK
  <2>3. CASE SpawnIndexer(h)
    <3>1. LocksOK'
      BY <2>3, LockShape DEF SpawnIndexer
    <3> QED BY <2>1, <2>3, <3>1 DEF SpawnIndexer, ShapeOK
  <2>4. CASE SpawnWatcher(h)
    <3>1. LocksOK'
      BY <2>4, LockShape DEF SpawnWatcher
    <3> QED BY <2>1, <2>4, <3>1 DEF SpawnWatcher, ShapeOK
  <2>5. CASE CancelIndexer(h)
    BY <2>5 DEF CancelIndexer, drop_guard, ShapeOK
  <2>6. CASE CancelWatcher(h)
    BY <2>6 DEF CancelWatcher, ShapeOK
  <2>7. CASE Unregister(h)
    <3>1. LocksOK'
      BY <2>7, LockShape DEF Unregister
    <3>2. AtMostOne(active', Projects)
      BY <2>7, AtMostOneLess DEF Unregister, clear_active, ShapeOK
    <3> QED BY <2>1, <2>7, <3>1, <3>2 DEF Unregister, ShapeOK
  <2>8. CASE Activate(h)
    <3>1. AtMostOne(active', Projects)
      BY <2>1, <2>8 DEF Activate, set_active, ShapeOK, AtMostOne
    <3> QED BY <2>8, <3>1 DEF Activate, ShapeOK
  <2>9. CASE Pause(h) \/ Resume(h)
    <3>1. request' \in [Handlers -> [pc : PCs, project : Projects]]
      BY <2>9 DEF Pause, Resume, Control, ShapeOK
    <3>2. registry' \in [Projects -> {"none", "on", "paused"}]
      BY <2>9 DEF Pause, Resume, Control, ShapeOK
    <3>3. paused' \in BOOLEAN
      BY <2>9 DEF Pause, Resume, Control, ShapeOK
    <3> QED BY <2>9, <3>1, <3>2, <3>3 DEF Pause, Resume, Control, ShapeOK
  <2> QED BY <1>2, <2>2, <2>3, <2>4, <2>5, <2>6, <2>7, <2>8, <2>9 DEF Serve
<1>3. ASSUME NEW p \in Projects, FileEvent(p) PROVE ShapeOK'
  BY <1>3 DEF FileEvent, ShapeOK
<1>4. CASE Observe
  <2>1. CASE TakeEvent
    <3>1. Tail(queue) \in Seq(Projects) /\ Head(queue) \in Projects
      BY <2>1 DEF TakeEvent, ShapeOK
    <3> QED BY <2>1, <3>1 DEF TakeEvent, ShapeOK
  <2>2. CASE ProcessEvent
    <3>1. LocksOK'
      BY <2>2, LockShape DEF ProcessEvent
    <3>2. loop' \in [pc : {"recv", "lock", "process"}, project : Projects]
      BY <2>2 DEF ProcessEvent, ShapeOK
    <3> QED BY <2>2, <3>1, <3>2 DEF ProcessEvent, ShapeOK
  <2>3. CASE EventDone
    <3>1. LocksOK'
      BY <2>3, LockShape DEF EventDone
    <3> QED BY <2>3, <3>1 DEF EventDone, ShapeOK
  <2> QED BY <1>4, <2>1, <2>2, <2>3 DEF Observe
<1>5. CASE UNCHANGED vars
  BY <1>5 DEF vars, ShapeOK
<1> QED BY <1>1, <1>2, <1>3, <1>4, <1>5 DEF Next

\* The maps and mutexes of the workspaces keep their types: one holder of each
\* mutex, one workspace at most with the focus.
THEOREM TypeCorrect == Spec => []TypeOK
BY ShapeInit, ShapeStep, ShapeType, PTL DEF Spec

-----------------------------------------------------------------------------
\* WorkspaceRegistry keeps the focus on a registered workspace, whatever
\* requests overlap: unregister takes it away in the step that removes it.
THEOREM ActiveRegisteredHolds == Spec => []ActiveRegistered
<1>1. Init => ActiveRegistered
  BY ConstantsAssumption DEF Init, ActiveRegistered, Registered
<1>2. ShapeOK /\ ActiveRegistered /\ [Next]_vars => ActiveRegistered'
  <2> SUFFICES ASSUME ShapeOK, ActiveRegistered, [Next]_vars PROVE ActiveRegistered'
    OBVIOUS
  <2> USE DEF ActiveRegistered, Registered, maps
  <2>1. ASSUME NEW h \in Handlers, Serve(h) PROVE ActiveRegistered'
    <3>1. request[h].project \in Projects
      BY DEF ShapeOK
    <3>2. CASE Register(h)
      BY <3>1, <3>2 DEF Register, ShapeOK
    <3>3. CASE Unregister(h)
      BY <3>1, <3>3 DEF Unregister, clear_active, ShapeOK
    <3>4. CASE Activate(h)
      BY <3>1, <3>4 DEF Activate, set_active
    <3>5. CASE Pause(h) \/ Resume(h)
      BY <3>1, <3>5 DEF Pause, Resume, Control, ShapeOK
    <3>6. CASE SpawnIndexer(h) \/ SpawnWatcher(h) \/ CancelIndexer(h) \/ CancelWatcher(h)
      BY <3>6 DEF SpawnIndexer, SpawnWatcher, CancelIndexer, CancelWatcher
    <3> QED BY <2>1, <3>2, <3>3, <3>4, <3>5, <3>6 DEF Serve
  <2>2. CASE UNCHANGED maps
    BY <2>2
  <2> QED BY <2>1, <2>2
          DEF Next, vars, Begin, FileEvent, Observe, TakeEvent, ProcessEvent, EventDone
<1> QED BY <1>1, <1>2, ShapeInit, ShapeStep, PTL DEF Spec
-----------------------------------------------------------------------------
(* The registry and the tasks.  Of a project whose requests never          *)
(* overlapped, the place of its one request tells which of the maps may    *)
(* disagree.                                                               *)

Serves(h, p) == request[h].pc # "done" /\ request[h].project = p

Midway == {"spawn_indexer", "spawn_watcher", "cancel_watcher", "unregister"}

Agrees(p) ==
  /\ p \in indexers <=> p \in Registered
  /\ p \in watchers <=> p \in Registered
  /\ p \in processors <=> p \in Registered

PlaceOK(h, p) ==
  /\ request[h].pc = "spawn_indexer" => p \in Registered
  /\ request[h].pc = "spawn_watcher" => p \in Registered /\ p \in indexers
  /\ request[h].pc = "cancel_watcher" => p \notin indexers
  /\ request[h].pc = "unregister" =>
       p \notin indexers /\ p \notin watchers /\ p \notin processors

ProjectOK(p) ==
  /\ \A g, h \in Handlers : Serves(g, p) /\ Serves(h, p) => g = h
  /\ \A h \in Handlers : Serves(h, p) => PlaceOK(h, p)
  /\ (\A h \in Handlers : Serves(h, p) => request[h].pc \notin Midway) => Agrees(p)

TasksInv == \A p \in Projects \ overlapped : ProjectOK(p)

LEMMA TasksInit == Init => TasksInv
<1> SUFFICES ASSUME Init, NEW p \in Projects PROVE ProjectOK(p)
  BY DEF TasksInv
<1> USE DEF Init, Handlers, Done, Registered, Serves, Midway
<1>1. \A h \in Handlers : Serves(h, p) => h = "main" /\ p = Initial
  OBVIOUS
<1>2. \A h \in Handlers : Serves(h, p) => PlaceOK(h, p)
  BY <1>1 DEF PlaceOK
<1>3. CASE p = Initial
  <2>1. Serves("main", p) /\ request["main"].pc \in Midway
    BY <1>3
  <2> QED BY <1>1, <1>2, <2>1 DEF ProjectOK
<1>4. CASE p # Initial
  BY <1>1, <1>2, <1>4 DEF ProjectOK, Agrees
<1> QED BY <1>3, <1>4

\* A step that leaves the requests of project p, its entry and its tasks alone.
LEMMA Elsewhere ==
  ASSUME NEW p \in Projects, ProjectOK(p),
         \A h \in Handlers : Serves(h, p)' = Serves(h, p),
         \A h \in Handlers : Serves(h, p) => request'[h] = request[h],
         p \in Registered' <=> p \in Registered,
         p \in indexers' <=> p \in indexers,
         p \in watchers' <=> p \in watchers,
         p \in processors' <=> p \in processors
  PROVE  ProjectOK(p)'
<1>1. \A h \in Handlers : Serves(h, p) => PlaceOK(h, p)'
  BY DEF ProjectOK, PlaceOK
<1>2. Agrees(p)' = Agrees(p)
  BY DEF Agrees
<1> QED BY <1>1, <1>2 DEF ProjectOK

\* The step of a request h of p that keeps h the only one of p, or ends it.
LEMMA Here ==
  ASSUME ShapeOK, NEW p \in Projects, ProjectOK(p), NEW h \in Handlers, Serves(h, p),
         \A g \in Handlers \ {h} : request'[g] = request[g],
         Serves(h, p)' => PlaceOK(h, p)',
         \/ Serves(h, p)' /\ request'[h].pc \in Midway
         \/ Agrees(p)'
  PROVE  ProjectOK(p)'
<1>1. \A g \in Handlers : g # h => ~Serves(g, p)'
  BY DEF ProjectOK, Serves
<1> QED BY <1>1 DEF ProjectOK

LEMMA BeginTasks ==
  ASSUME ShapeOK, TasksInv, NEW h \in Requests,
         NEW pc \in {"register", "cancel_indexer", "activate", "pause", "resume"},
         Begin(h, pc)
  PROVE  TasksInv'
<1> SUFFICES ASSUME NEW p \in Projects, p \notin overlapped' PROVE ProjectOK(p)'
  BY DEF TasksInv
<1>1. PICK q \in Projects :
        /\ request' = [request EXCEPT ![h] = [pc |-> pc, project |-> q]]
        /\ overlapped' = IF \E g \in Handlers : ~At(g, "done") /\ request[g].project = q
                           THEN overlapped \cup {q} ELSE overlapped
  BY DEF Begin
<1>2. /\ h \in Handlers /\ request[h].pc = "done"
      /\ UNCHANGED <<registry, indexers, watchers, processors>>
  BY DEF Begin, Handlers, Done, maps
<1>3. p \notin overlapped
  BY <1>1
<1>4. ProjectOK(p)
  BY <1>3 DEF TasksInv
<1>5. \A g \in Handlers : g # h => request'[g] = request[g]
  BY <1>1 DEF ShapeOK
<1>6. request'[h] = [pc |-> pc, project |-> q]
  BY <1>1, <1>2 DEF ShapeOK
<1>7. CASE p # q
  <2>1. \A g \in Handlers : Serves(g, p)' = Serves(g, p)
    BY <1>2, <1>5, <1>6, <1>7 DEF Serves
  <2>2. \A g \in Handlers : Serves(g, p) => request'[g] = request[g]
    BY <1>2, <1>5 DEF Serves
  <2> QED BY <1>2, <1>4, <2>1, <2>2, Elsewhere DEF Registered
<1>8. CASE p = q
  <2>1. \A g \in Handlers : ~Serves(g, p)
    BY <1>1, <1>8 DEF Serves, At
  <2>2. Agrees(p)'
    BY <1>2, <1>4, <2>1 DEF ProjectOK, Agrees, Registered
  <2>3. \A g \in Handlers : Serves(g, p)' => g = h
    BY <1>5, <2>1 DEF Serves
  <2>4. PlaceOK(h, p)'
    BY <1>6 DEF PlaceOK
  <2> QED BY <2>2, <2>3, <2>4 DEF ProjectOK
<1> QED BY <1>7, <1>8

\* What every step of a handler h leaves alone.
LEMMA ServeFrame ==
  ASSUME ShapeOK, NEW h \in Handlers, Serve(h)
  PROVE  /\ request[h].pc # "done" /\ overlapped' = overlapped
         /\ \A g \in Handlers : g # h => request'[g] = request[g]
         /\ request'[h].pc = "done" \/ request'[h].project = request[h].project
         /\ \A p \in Projects : p # request[h].project =>
              /\ p \in Registered' <=> p \in Registered
              /\ p \in indexers' <=> p \in indexers
              /\ p \in watchers' <=> p \in watchers
              /\ p \in processors' <=> p \in processors
<1> USE DEF At, Goto, Done, Registered, ShapeOK
<1>1. CASE Register(h)
  BY <1>1 DEF Register
<1>2. CASE SpawnIndexer(h)
  BY <1>2 DEF SpawnIndexer
<1>3. CASE SpawnWatcher(h)
  BY <1>3 DEF SpawnWatcher
<1>4. CASE CancelIndexer(h)
  BY <1>4 DEF CancelIndexer
<1>5. CASE CancelWatcher(h)
  BY <1>5 DEF CancelWatcher
<1>6. CASE Unregister(h)
  BY <1>6 DEF Unregister
<1>7. CASE Activate(h)
  BY <1>7 DEF Activate
<1>8. CASE Pause(h) \/ Resume(h)
  BY <1>8 DEF Pause, Resume, Control
<1> QED BY <1>1, <1>2, <1>3, <1>4, <1>5, <1>6, <1>7, <1>8 DEF Serve

\* What the step does to its own project: the place of the request tells.
LEMMA ServeHere ==
  ASSUME ShapeOK, NEW h \in Handlers, Serve(h),
         NEW p \in Projects, p = request[h].project, ProjectOK(p)
  PROVE  /\ Serves(h, p)' => PlaceOK(h, p)'
         /\ \/ Serves(h, p)' /\ request'[h].pc \in Midway
            \/ Agrees(p)'
<1>1. /\ request[h].pc # "done" => PlaceOK(h, p)
      /\ request[h].pc \notin Midway /\ request[h].pc # "done" => Agrees(p)
  BY DEF ProjectOK, Serves
<1> USE DEF At, Goto, Done, Registered, ShapeOK, Serves, PlaceOK, Agrees, Midway
<1>2. CASE Register(h)
  <2>1. CASE is_new(p)
    BY <1>2, <2>1 DEF Register
  <2>2. CASE ~is_new(p)
    BY <1>1, <1>2, <2>2 DEF Register, is_new
  <2> QED BY <2>1, <2>2
<1>3. CASE SpawnIndexer(h)
  BY <1>1, <1>3 DEF SpawnIndexer
<1>4. CASE SpawnWatcher(h)
  BY <1>1, <1>4 DEF SpawnWatcher
<1>5. CASE CancelIndexer(h)
  BY <1>1, <1>5 DEF CancelIndexer
<1>6. CASE CancelWatcher(h)
  BY <1>1, <1>6 DEF CancelWatcher
<1>7. CASE Unregister(h)
  BY <1>1, <1>7 DEF Unregister
<1>8. CASE Activate(h)
  BY <1>1, <1>8 DEF Activate
<1>9. CASE Pause(h) \/ Resume(h)
  BY <1>1, <1>9 DEF Pause, Resume, Control
<1> QED BY <1>2, <1>3, <1>4, <1>5, <1>6, <1>7, <1>8, <1>9 DEF Serve

LEMMA TasksStep == ShapeOK /\ TasksInv /\ [Next]_vars => TasksInv'
<1> SUFFICES ASSUME ShapeOK, TasksInv, [Next]_vars PROVE TasksInv'
  OBVIOUS
<1>1. ASSUME NEW h \in Handlers, Serve(h), NEW p \in Projects, p \notin overlapped'
      PROVE  ProjectOK(p)'
  <2>1. ProjectOK(p)
    BY <1>1, ServeFrame DEF TasksInv
  <2>2. CASE p = request[h].project
    BY <1>1, <2>1, <2>2, ServeFrame, ServeHere, Here DEF Serves
  <2>3. CASE p # request[h].project
    <3>1. /\ \A g \in Handlers : Serves(g, p)' = Serves(g, p)
          /\ \A g \in Handlers : Serves(g, p) => request'[g] = request[g]
      BY <1>1, <2>3, ServeFrame DEF Serves
    <3> QED BY <1>1, <2>1, <2>3, <3>1, ServeFrame, Elsewhere
  <2> QED BY <2>2, <2>3
<1>2. CASE UNCHANGED <<maps, request, overlapped>>
  BY <1>2 DEF maps, TasksInv, ProjectOK, PlaceOK, Agrees, Serves, Registered
<1>3. ASSUME NEW p \in Projects, FileEvent(p) PROVE TasksInv'
  BY <1>2, <1>3 DEF FileEvent
<1>4. CASE Observe
  BY <1>2, <1>4 DEF Observe, TakeEvent, ProcessEvent, EventDone
<1>5. CASE UNCHANGED vars
  BY <1>2, <1>5 DEF vars
<1> QED BY <1>1, <1>3, <1>4, <1>5, BeginTasks DEF Next, TasksInv

\* Between requests a project whose own requests never overlapped has an
\* indexer, a watcher and a processor just when it is registered, whatever
\* requests of other projects overlapped with them.
THEOREM RunsIffRegisteredHolds == Spec => []RunsIffRegistered
<1>1. TasksInv => RunsIffRegistered
  <2> SUFFICES ASSUME TasksInv, Quiet, NEW p \in Projects \ overlapped PROVE Agrees(p)
    BY DEF RunsIffRegistered, Agrees
  <2> QED BY DEF TasksInv, ProjectOK, Serves, Quiet, At
<1> QED BY <1>1, ShapeInit, ShapeStep, TasksInit, TasksStep, PTL DEF Spec
=============================================================================
