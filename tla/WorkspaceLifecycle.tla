--------------------------- MODULE WorkspaceLifecycle --------------------------
(***************************************************************************)
(* The workspaces of one daemon: the registry (workspace_registry.rs), the *)
(* background indexers (indexer_manager.rs), the file watchers and event   *)
(* processors (observer/observer_manager.rs), the handlers that open,      *)
(* close, focus and pause a workspace (server.rs) and the event loop of    *)
(* main.rs.  Each of the three maps has a tokio Mutex of its own; a        *)
(* handler holds some of them across several awaits, and handlers of       *)
(* several editor windows run at once.                                     *)
(***************************************************************************)
EXTENDS Naturals, Sequences, FiniteSets

CONSTANTS
  Projects,
  Initial,      \* the project the daemon is started for
  Requests,     \* requests in progress at once
  MaxRequests,  \* bound: requests made
  QueueCap      \* bound: tagged events not yet processed (500 in the code)

ASSUME ConstantsAssumption ==
  /\ Initial \in Projects
  /\ MaxRequests \in Nat /\ QueueCap \in Nat \ {0}
  /\ "main" \notin Requests

VARIABLES
  registry,    \* of each project: not there, brain running, or brain paused
  active,      \* the focused workspace: {} or a set of one
  indexers, watchers, processors,   \* the keys of the three maps
  lock,        \* of each Mutex, its holder: {} or a set of one
  request,     \* the requests, and the end of the start of main
  made,        \* requests made
  paused,      \* brain_paused of the global config
  queue,       \* the channel of tagged events
  loop,        \* the event loop
  overlapped   \* history: projects with two requests in progress at once

maps == <<registry, active, indexers, watchers, processors>>
vars == <<maps, lock, request, made, paused, queue, loop,
                 overlapped>>

Handlers == Requests \cup {"main"}
Holders == Handlers \cup {"loop"}
Mutexes == {"registry", "indexer", "observer"}
Done == [pc |-> "done", project |-> Initial]
Waiting == [pc |-> "recv", project |-> Initial]

Registered == {p \in Projects : registry[p] # "none"}

Init ==
  /\ registry = [p \in Projects |-> IF p = Initial THEN "on" ELSE "none"]
  /\ active = {Initial}
  /\ indexers = {} /\ watchers = {} /\ processors = {}
  /\ lock = [m \in Mutexes |-> {}]
  /\ request = [h \in Handlers |->
       IF h = "main" THEN [pc |-> "spawn_indexer", project |-> Initial] ELSE Done]
  /\ made = 0 /\ paused = FALSE /\ queue = <<>> /\ loop = Waiting
  /\ overlapped = {}

Free(m) == lock[m] = {}
At(h, pc) == request[h].pc = pc
Goto(h, pc) == request' = [request EXCEPT ![h].pc = pc]
Locks(h, m) == lock' = [lock EXCEPT ![m] = {h}]
\* The guards of h are dropped.
Unlocked(h) == [m \in Mutexes |-> lock[m] \ {h}]

Begin(h, pc) ==
  /\ h \in Requests /\ request[h] = Done /\ made < MaxRequests
  /\ made' = made + 1
  /\ \E p \in Projects :
       /\ request' = [request EXCEPT ![h] = [pc |-> pc, project |-> p]]
       /\ overlapped' = IF \E g \in Handlers : ~At(g, "done") /\ request[g].project = p
                          THEN overlapped \cup {p} ELSE overlapped
  /\ UNCHANGED <<maps, lock, paused, queue, loop>>

-----------------------------------------------------------------------------
(* register_workspace, which holds the registry until it answers, and the  *)
(* end of main, which spawns for the initial workspace.                    *)

\* Fault-seeded: a workspace is new once it has been inserted.
never_new(p) == FALSE
is_new(p) == p \notin Registered

Register(h) ==
  LET p == request[h].project
  IN  /\ At(h, "register") /\ Free("registry")
      /\ registry' = [registry EXCEPT ![p] = "on"]
      /\ active' = IF active = {} THEN {p} ELSE active
      /\ \/ /\ is_new(p)
            /\ Locks(h, "registry") /\ Goto(h, "spawn_indexer")
         \/ /\ ~is_new(p)
            /\ request' = [request EXCEPT ![h] = Done] /\ UNCHANGED lock
      /\ UNCHANGED <<indexers, watchers, processors, made, paused, queue, loop,
                     overlapped>>

\* spawn_for_workspace of the indexers.
SpawnIndexer(h) ==
  /\ At(h, "spawn_indexer") /\ Free("indexer")
  /\ indexers' = indexers \cup {request[h].project}
  /\ Locks(h, "indexer") /\ Goto(h, "spawn_watcher")
  /\ UNCHANGED <<registry, active, watchers, processors, made, paused, queue, loop,
                 overlapped>>

\* spawn_for_workspace of the watchers; then all guards are dropped.
SpawnWatcher(h) ==
  /\ At(h, "spawn_watcher") /\ Free("observer")
  /\ watchers' = watchers \cup {request[h].project}
  /\ processors' = processors \cup {request[h].project}
  /\ lock' = Unlocked(h) /\ request' = [request EXCEPT ![h] = Done]
  /\ UNCHANGED <<registry, active, indexers, made, paused, queue, loop,
                 overlapped>>

-----------------------------------------------------------------------------
(* unregister_workspace takes one lock after the other.  Fault-seeded:     *)
(* it keeps the lock of the indexers, and takes that of the registry       *)
(* inside it.                                                              *)

keep_guard(h) == [lock EXCEPT !["indexer"] = {h}]
drop_guard(h) == lock

CancelIndexer(h) ==
  /\ At(h, "cancel_indexer") /\ Free("indexer")
  /\ indexers' = indexers \ {request[h].project}
  /\ lock' = drop_guard(h) /\ Goto(h, "cancel_watcher")
  /\ UNCHANGED <<registry, active, watchers, processors, made, paused, queue, loop,
                 overlapped>>

CancelWatcher(h) ==
  /\ At(h, "cancel_watcher") /\ Free("observer")
  /\ watchers' = watchers \ {request[h].project}
  /\ processors' = processors \ {request[h].project}
  /\ Goto(h, "unregister")
  /\ UNCHANGED <<registry, active, indexers, lock, made, paused, queue, loop,
                 overlapped>>

\* Fault-seeded: the active workspace stays.
keep_active(p) == active
clear_active(p) == active \ {p}

Unregister(h) ==
  LET p == request[h].project
  IN  /\ At(h, "unregister") /\ Free("registry")
      /\ registry' = [registry EXCEPT ![p] = "none"]
      /\ active' = clear_active(p)
      /\ lock' = Unlocked(h) /\ request' = [request EXCEPT ![h] = Done]
      /\ UNCHANGED <<indexers, watchers, processors, made, paused, queue, loop,
                     overlapped>>

-----------------------------------------------------------------------------
(* activate_workspace, control_pause and control_resume.                   *)

\* Fault-seeded: the workspace that had the focus keeps it.
both(p) == active \cup {p}
set_active(p) == {p}

Activate(h) ==
  LET p == request[h].project
  IN  /\ At(h, "activate") /\ Free("registry")
      /\ active' = IF p \in Registered THEN set_active(p) ELSE active
      /\ request' = [request EXCEPT ![h] = Done]
      /\ UNCHANGED <<registry, indexers, watchers, processors, lock, made, paused,
                     queue, loop, overlapped>>

\* The entry of a registered project, else the global config.
Control(h, pc, value, pause) ==
  LET p == request[h].project
  IN  /\ At(h, pc) /\ Free("registry")
      /\ \/ /\ p \in Registered
            /\ registry' = [registry EXCEPT ![p] = value] /\ UNCHANGED paused
         \/ /\ p \notin Registered
            /\ paused' = pause /\ UNCHANGED registry
      /\ request' = [request EXCEPT ![h] = Done]
      /\ UNCHANGED <<active, indexers, watchers, processors, lock, made, queue, loop,
                     overlapped>>

Pause(h) == Control(h, "pause", "paused", TRUE)
Resume(h) == Control(h, "resume", "on", FALSE)

-----------------------------------------------------------------------------
(* File events.                                                            *)

FileEvent(p) ==
  /\ p \in watchers /\ Len(queue) < QueueCap
  /\ queue' = Append(queue, p)
  /\ UNCHANGED <<maps, lock, request, made, paused, loop, overlapped>>

\* While the brain is paused, the event is dropped.
TakeEvent ==
  /\ loop.pc = "recv" /\ queue # <<>>
  /\ queue' = Tail(queue)
  /\ loop' = IF paused THEN Waiting ELSE [pc |-> "lock", project |-> Head(queue)]
  /\ UNCHANGED <<maps, lock, request, made, paused, overlapped>>

\* The observers stay locked while the event is processed.  Without a processor
\* it is skipped.
ProcessEvent ==
  /\ loop.pc = "lock" /\ Free("observer")
  /\ \/ /\ loop.project \in processors
        /\ Locks("loop", "observer") /\ loop' = [loop EXCEPT !.pc = "process"]
     \/ /\ loop.project \notin processors
        /\ loop' = Waiting /\ UNCHANGED lock
  /\ UNCHANGED <<maps, request, made, paused, queue, overlapped>>

EventDone ==
  /\ loop.pc = "process"
  /\ lock' = Unlocked("loop") /\ loop' = Waiting
  /\ UNCHANGED <<maps, request, made, paused, queue, overlapped>>

-----------------------------------------------------------------------------
Serve(h) ==
  \/ Register(h) \/ SpawnIndexer(h) \/ SpawnWatcher(h)
  \/ CancelIndexer(h) \/ CancelWatcher(h) \/ Unregister(h)
  \/ Activate(h) \/ Pause(h) \/ Resume(h)

Observe == TakeEvent \/ ProcessEvent \/ EventDone

Next ==
  \/ \E h \in Requests :
       \E pc \in {"register", "cancel_indexer", "activate", "pause", "resume"} :
         Begin(h, pc)
  \/ \E h \in Handlers : Serve(h)
  \/ \E p \in Projects : FileEvent(p)
  \/ Observe

Spec == Init /\ [][Next]_vars

\* A tokio Mutex is FIFO: who waits for it gets it, however often others do.
LiveSpec ==
  Spec /\ (\A h \in Handlers : SF_vars(Serve(h))) /\ SF_vars(Observe)

-----------------------------------------------------------------------------
\* Each Mutex has one holder, and one workspace at most has the focus.
TypeOK ==
  /\ registry \in [Projects -> {"none", "on", "paused"}]
  /\ active \in SUBSET Projects /\ Cardinality(active) <= 1
  /\ indexers \subseteq Projects /\ watchers \subseteq Projects
  /\ processors \subseteq Projects
  /\ lock \in [Mutexes -> SUBSET Holders]
  /\ \A m \in Mutexes : Cardinality(lock[m]) <= 1
  /\ request \in [Handlers -> [pc : {"done", "register", "spawn_indexer",
       "spawn_watcher", "cancel_indexer", "cancel_watcher", "unregister",
       "activate", "pause", "resume"}, project : Projects]]
  /\ made \in Nat /\ paused \in BOOLEAN
  /\ queue \in Seq(Projects) /\ overlapped \subseteq Projects
  /\ loop \in [pc : {"recv", "lock", "process"}, project : Projects]

Quiet == \A h \in Handlers : At(h, "done")

\* Between requests a workspace is registered just when it has an indexer, a
\* watcher and a processor, provided no two of its own requests overlapped: the
\* locks keep register_workspace and unregister_workspace of others apart.
RunsIffRegistered ==
  Quiet => \A p \in Projects \ overlapped :
    \A m \in {indexers, watchers, processors} : p \in m <=> p \in Registered

\* The focused workspace is a registered one, whatever window is closed while
\* another one takes the focus.
ActiveRegistered == active \subseteq Registered

\* Every request is answered: the handlers that hold several locks, main and
\* the event loop never wait for each other in a circle.
RequestsFinish == \A h \in Handlers : ~At(h, "done") ~> At(h, "done")

\* No event of a workspace whose brain control_pause has paused is taken by the
\* event loop for processing.
PauseHolds ==
  [][loop.pc = "recv" /\ loop'.pc = "lock" => registry[loop'.project] # "paused"]_vars
=============================================================================
