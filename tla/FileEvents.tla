------------------------------ MODULE FileEvents ------------------------------
(***************************************************************************)
(* What the daemon knows of the files of one workspace: the event loop of  *)
(* main.rs, the workspace processor (observer/workspace_processor.rs), the *)
(* background indexer (observer/background_indexer.rs) and the entries of  *)
(* the code skeleton index, while the user saves, deletes and renames.     *)
(*                                                                         *)
(* A content is what the analysis finds in it: its symbols and the files   *)
(* it imports.  The loop takes one event at a time, and pauses at every    *)
(* storage call; the indexer runs beside it.                               *)
(***************************************************************************)
EXTENDS CodeGraphs

CONSTANTS
    Files,           \* source files, their paths
    Stem, Extended,  \* two of them: the path of Extended begins with the path of Stem (a.ts, a.tsx)
    Symbols,         \* names of functions
    MaxHot,          \* MEMIX_MAX_HOT_FILES
    HotDependents,   \* dependents that make a file hot
    MaxDeleted,      \* deletions remembered
    MaxChanges       \* bound on the changes the user makes

ASSUME FileEventsConstants ==
    /\ IsFiniteSet(Files) /\ {Stem, Extended} \subseteq Files /\ Stem # Extended /\ "" \notin Files
    /\ IsFiniteSet(Symbols) /\ Symbols # {}
    /\ {MaxHot, HotDependents, MaxDeleted, MaxChanges} \subseteq Nat /\ MaxDeleted > 0

None == [missing |-> TRUE]
Contents(f) == [syms : SUBSET Symbols \ {{}}, imports : SUBSET (Files \ {f})]

VARIABLES
    disk,      \* the content of each file, or None
    events,    \* the channel of events, each <<kind, file>>
    step,      \* the place of the loop: pc, the file, the content it read
    cache,     \* WorkspaceProcessor: cache and feature_snapshots
    deleted,   \* WorkspaceProcessor.recent_deleted_files
    graph,     \* AutonomousPairProgrammer.dependency_graph
    calls,     \* CallGraph
    fsi,       \* stored skeletons of files: their content and edges at that time
    fusi,      \* stored skeletons of symbols: <<file, symbol>>
    snapshot,  \* the entries observerGraph, fileMap and knownIssues
    indexer,   \* the background indexer: pc, files to do, the file and content in hand
    changes,   \* how many changes the user made
    moved,     \* history: files that went by a rename
    lagging,   \* history: files the last save of which came within the debounce
    raced,     \* history: files whose skeleton the indexer wrote after they had changed
    swept,     \* history: files the symbols of which went with another file's
    behind     \* history: something changed since the snapshot was stored

loop == <<step, cache, deleted, graph, calls, fusi, snapshot, lagging, behind>>
user == <<disk, events, changes, moved>>
vars == <<loop, user, fsi, indexer, raced, swept>>

idle == [pc |-> "idle"]

Init ==
    /\ disk \in [Files -> {None, [syms |-> Symbols, imports |-> {}]}]
    /\ events = <<>> /\ changes = 0 /\ moved = {}
    /\ step = idle
    /\ cache = <<>> /\ deleted = <<>> /\ graph = NoEdges /\ calls = NoCalls
    /\ fsi = <<>> /\ fusi = {} /\ snapshot = <<>>
    /\ indexer = [pc |-> "start"]
    /\ lagging = {} /\ raced = {} /\ swept = {} /\ behind = TRUE

-----------------------------------------------------------------------------
(* The user and the watcher.  A rename is reported as a modification of     *)
(* both paths.                                                              *)

Change(files, kinds) ==
    /\ changes < MaxChanges
    /\ changes' = changes + 1
    /\ events' = events \o [i \in DOMAIN files |-> <<kinds, files[i]>>]
    /\ UNCHANGED <<loop, fsi, indexer, raced, swept>>

Save == \E f \in Files : \E c \in Contents(f) \ {disk[f]} :
    disk' = [disk EXCEPT ![f] = c] /\ moved' = moved \ {f} /\ Change(<<f>>, "modify")

Delete == \E f \in Files :
    /\ disk[f] # None /\ disk' = [disk EXCEPT ![f] = None]
    /\ moved' = moved \ {f}
    /\ Change(<<f>>, "remove")

Rename == \E f, g \in Files :
    /\ disk[f] # None /\ disk[g] = None /\ g \notin disk[f].imports
    /\ disk' = [disk EXCEPT ![f] = None, ![g] = disk[f]]
    /\ moved' = (moved \ {g}) \cup {f}
    /\ Change(<<f, g>>, "modify")

-----------------------------------------------------------------------------
(* A deletion.                                                              *)

\* fault-seeded: the other way round; and only a proper prefix.
has_longer_prefix(f, g) == g = Stem /\ f = Extended
has_suffix(f, g) == f = g \/ (f = Stem /\ g = Extended)

\* The prefix fusi::<path> has no end mark.
has_prefix(f, g) == f = g \/ (g = Stem /\ f = Extended)

push_bounded(queue, x) == Append(IF Len(queue) < MaxDeleted THEN queue ELSE Tail(queue), x)

\* fault-seeded: the old value stays.
insert_new(map, key, value) == map @@ (key :> value)

\* HashMap::insert and the upsert of an entry.
insert(map, key, value) == with(map, key, value)

ignored(f) == disk[f] # None

next_event == step = idle /\ events # <<>> /\ events' = Tail(events) /\ UNCHANGED <<disk, changes, moved>>

ProcessDeletion ==
    LET f == Head(events)[2]
    IN  /\ next_event /\ Head(events)[1] = "remove"
        /\ IF ignored(f)
           THEN UNCHANGED loop
           ELSE /\ cache' = without(cache, {f})
                /\ graph' = remove_file(graph, f)
                /\ calls' = remove_calls(calls, f)
                /\ deleted' = push_bounded(deleted, f)
                /\ step' = [pc |-> "delete_fsi", file |-> f]
                /\ lagging' = lagging \ {f}
                /\ behind' = TRUE
                /\ UNCHANGED <<fusi, snapshot>>
        /\ UNCHANGED <<fsi, indexer, raced, swept>>

DeleteSkeleton ==
    /\ step.pc = "delete_fsi"
    /\ fsi' = without(fsi, {step.file})
    /\ raced' = raced \ {step.file}
    /\ step' = [step EXCEPT !.pc = "delete_fusi"]
    /\ UNCHANGED <<cache, deleted, graph, calls, fusi, snapshot, lagging, behind, user, indexer, swept>>

\* The list of the entries and the deletions are one step: only the loop writes them.
DeleteSymbols ==
    /\ step.pc = "delete_fusi"
    /\ LET gone == {e \in fusi : has_prefix(e[1], step.file)}
       IN  /\ fusi' = fusi \ gone
           /\ swept' = (swept \ {step.file}) \cup (IF step.file = Stem THEN {Extended} ELSE {})
    /\ step' = idle
    /\ UNCHANGED <<cache, deleted, graph, calls, fsi, snapshot, lagging, behind, user, indexer, raced>>

-----------------------------------------------------------------------------
(* A modification.                                                          *)

ReadModified ==
    LET f == Head(events)[2]
    IN  /\ next_event /\ Head(events)[1] = "modify"
        /\ IF disk[f] = None
           THEN UNCHANGED loop
           ELSE /\ cache' = insert(cache, f, disk[f])
                /\ step' = [pc |-> "skeleton", file |-> f, content |-> disk[f]]
                /\ UNCHANGED <<deleted, graph, calls, fusi, snapshot, lagging, behind>>
        /\ UNCHANGED <<fsi, indexer, raced, swept>>

\* The edges of a symbol: the function of that name in every imported file, and a call
\* that is not resolved.
edges(c) == [s \in c.syms |-> {<<g, s>> : g \in c.imports} \cup {<<"", s>>}]

built(f, c, g) == [content |-> c, deps |-> at(g.out, f), dependents |-> at(g.in, f)]

is_hot(f) == (f \in DOMAIN cache /\ Cardinality(DOMAIN cache) <= MaxHot)
             \/ Cardinality(at(graph.in, f)) >= HotDependents

\* persist_skeleton, at most once a second: whether it is due depends on when the events
\* come.  The graph is the one before this change.
PersistSkeleton ==
    LET f == step.file
    IN  /\ step.pc = "skeleton"
        /\ \/ /\ calls' = update_calls(calls, f, edges(step.content))
              /\ fsi' = insert(fsi, f, built(f, step.content, graph))
              /\ step' = [step EXCEPT !.pc = IF is_hot(f) THEN "symbols" ELSE "graph"]
              /\ lagging' = lagging \ {f} /\ raced' = raced \ {f}
           \/ /\ step' = [step EXCEPT !.pc = "graph"]
              /\ lagging' = lagging \cup {f}
              /\ UNCHANGED <<calls, fsi, raced>>
        /\ UNCHANGED <<cache, deleted, graph, fusi, snapshot, behind, user, indexer, swept>>

PersistSymbols ==
    /\ step.pc = "symbols"
    /\ fusi' = fusi \cup ({step.file} \X step.content.syms)
    /\ swept' = swept \ {step.file}
    /\ step' = [step EXCEPT !.pc = "graph"]
    /\ UNCHANGED <<cache, deleted, graph, calls, fsi, snapshot, lagging, behind, user, indexer, raced>>

UpdateGraph ==
    /\ step.pc = "graph"
    /\ graph' = set_dependencies(graph, step.file, step.content.imports)
    /\ step' = [step EXCEPT !.pc = "snapshots"]
    /\ UNCHANGED <<cache, deleted, calls, fsi, fusi, snapshot, lagging, behind, user, indexer, raced, swept>>

build_file_map == [f \in DOMAIN cache |->
    [symbols |-> cache[f].syms, imports_count |-> Cardinality(at(graph.out, f)),
     imported_by_count |-> Cardinality(at(graph.in, f))]]

\* persist_observer_snapshots, at most every two seconds.
observed == [graph |-> graph, fileMap |-> build_file_map, issues |-> deleted]

PersistSnapshots ==
    /\ step.pc = "snapshots"
    /\ \/ snapshot' = observed /\ behind' = FALSE
       \/ UNCHANGED snapshot /\ behind' = TRUE
    /\ step' = idle
    /\ UNCHANGED <<cache, deleted, graph, calls, fsi, fusi, lagging, user, indexer, raced, swept>>

-----------------------------------------------------------------------------
(* The background indexer, for an embedding store that is empty.            *)

CollectFiles ==
    /\ indexer.pc = "start"
    /\ indexer' = [pc |-> "walk", todo |-> {f \in Files : disk[f] # None}]
    /\ UNCHANGED <<loop, user, fsi, raced, swept>>

IndexFile == \E f \in indexer.todo :
    /\ indexer.pc = "walk"
    /\ indexer' = IF disk[f] = None THEN [indexer EXCEPT !.todo = @ \ {f}]
                  ELSE [pc |-> "write", todo |-> indexer.todo \ {f}, file |-> f, content |-> disk[f]]
    /\ UNCHANGED <<loop, user, fsi, raced, swept>>

\* The skeleton is built with an empty dependency graph.
WriteIndexed ==
    LET f == indexer.file
    IN  /\ indexer.pc = "write"
        /\ fsi' = insert(fsi, f, built(f, indexer.content, NoEdges))
        /\ raced' = IF disk[f] # indexer.content THEN raced \cup {f} ELSE raced \ {f}
        /\ indexer' = [pc |-> "walk", todo |-> indexer.todo]
        /\ UNCHANGED <<loop, user, swept>>

-----------------------------------------------------------------------------
Loop == ProcessDeletion \/ DeleteSkeleton \/ DeleteSymbols \/ ReadModified
        \/ PersistSkeleton \/ PersistSymbols \/ UpdateGraph \/ PersistSnapshots
Index == CollectFiles \/ (indexer.pc = "walk" /\ IndexFile) \/ WriteIndexed

Next == Save \/ Delete \/ Rename \/ Loop \/ Index

Spec == Init /\ [][Next]_vars

\* Tokio goes on with the loop and with the indexer.
LiveSpec == Spec /\ WF_vars(Loop) /\ WF_vars(Index)

-----------------------------------------------------------------------------
(* The two maps of the dependency graph mirror each other, also between the *)
(* steps of the loop; no file depends on more than it imported when it was  *)
(* read; and the indexes by callee hold exactly what the files call, with   *)
(* no calls of a file that is forgotten, so that the causal context of a    *)
(* file names every known caller.                                           *)
GraphsAgree ==
    /\ \A f, g \in Files :
        /\ g \in at(graph.out, f) <=> f \in at(graph.in, g)
        /\ g \in at(graph.out, f) /\ ~(step # idle /\ step.file = f)
             => f \in DOMAIN cache /\ g \in cache[f].imports
    /\ DOMAIN calls.calls \subseteq DOMAIN cache
    /\ LET made == {m \in (Files \X Symbols) \X ((Files \cup {""}) \X Symbols) :
                        m[2] \in calls_from(calls, m[1][1], m[1][2])}
       IN  /\ \A m \in made : /\ m[1] \in at(calls.symbol, m[2][2])
                              /\ m[2][1] \in Files => m[1] \in at(calls.exact, m[2])
           /\ \A e \in DOMAIN calls.exact : \A c \in calls.exact[e] : <<c, e>> \in made
           /\ \A s \in DOMAIN calls.symbol : \A c \in calls.symbol[s] : \E m \in made : m[1] = c /\ m[2][2] = s
           /\ \A m \in made : \A x \in causal_context(calls, m[2][1]).symbols : x.symbol = m[2][2] => m[1] \in x.called_by
           /\ \A f \in Files : causal_context(calls, f).outgoing = Cardinality({m \in made : m[1][1] = f})

\* Nothing left to do: no event waits, and the indexer is through.
Rest == step = idle /\ events = <<>> /\ indexer.pc = "walk" /\ indexer.todo = {}

(* At rest the stored skeletons are those of the files on disk, as they are *)
(* now: unless the last save fell into the second after another persist, or *)
(* the indexer stored what it had read before the file changed, or the file *)
(* went by a rename, which no event reports as a removal.  The stored      *)
(* snapshot is what the loop knows, unless the last change was a deletion   *)
(* or within two seconds of the snapshot before.                            *)
SkeletonFresh ==
    Rest => /\ \A f \in Files \ (lagging \cup raced) :
                  IF disk[f] = None THEN f \in moved \/ f \notin DOMAIN fsi
                  ELSE f \in DOMAIN fsi /\ fsi[f].content = disk[f]
            /\ ~behind => snapshot = observed

(* At rest every function of a file that was changed is indexed, while the  *)
(* files fit the limit of hot ones: unless its last save was within the     *)
(* debounce, or a file the path of which its own begins with was deleted.   *)
SymbolsIndexed ==
    Rest => \A f \in DOMAIN cache \ (lagging \cup swept) : {f} \X cache[f].syms \subseteq fusi

forgotten(f) ==
    /\ f \notin DOMAIN cache \cup DOMAIN fsi \cup DOMAIN calls.calls
    /\ {e \in fusi : e[1] = f} = {}
    /\ at(graph.out, f) = {}

(* A file that is deleted, and stays so, is forgotten in the end by the     *)
(* caches, the graphs and the stored skeletons, known to the loop or not.   *)
DeletedForgotten == \A f \in Files :
    disk[f] = None /\ f \notin moved ~> disk[f] # None \/ f \in raced \/ forgotten(f)
===============================================================================
