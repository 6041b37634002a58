------------------------------ MODULE SqlitePools ------------------------------
(***************************************************************************)
(* The databases of the SQLite backend (storage/sqlite.rs): each project   *)
(* has one, in its workspace once the root of the workspace is known and   *)
(* in the data directory before, and a pool of connections that is opened  *)
(* by the first operation and kept until the daemon ends.  Looking the     *)
(* pool up, finding the path and keeping the pool are three steps; nothing *)
(* keeps two operations, or the setting of a root, out of between.         *)
(***************************************************************************)
EXTENDS Integers, FiniteSets, Maps

CONSTANTS
  Projects,       \* project ids
  Roots,          \* roots of workspaces
  Operations,     \* storage operations that may be under way together
  MaxOperations,  \* bound: operations started
  MaxRoots,       \* bound: roots set
  MaxDaemons      \* bound: starts of the daemon after the first

VARIABLES
  workspace_roots, \* project -> root, as set in this life of the daemon
  pools,           \* project -> database the kept pool is connected to
  operation,       \* how far each operation has come
  stored,          \* on disk: <<database, project>> for each project with entries in a database
  unpurged,        \* history: projects with entries stored since they were last purged
  early,           \* history: projects an operation opened before their root was set
  known,           \* history: project -> roots it ever had
  begun, set, daemons

poolVars == <<workspace_roots, pools, operation, stored, unpurged, early, known, begun, set, daemons>>

NotStarted == [at |-> "idle"]
DefaultDir(p) == <<"data", p>>
InWorkspace(root) == <<"workspace", root>>

get_db_path(p) == IF p \in DOMAIN workspace_roots THEN InWorkspace(workspace_roots[p]) ELSE DefaultDir(p)

PoolsInit ==
  /\ workspace_roots = <<>> /\ pools = <<>> /\ operation = [o \in Operations |-> NotStarted]
  /\ stored = {} /\ unpurged = {} /\ early = {} /\ known = [p \in Projects |-> {}]
  /\ begun = 0 /\ set = 0 /\ daemons = 0

SetWorkspaceRoot(p, root) ==
  /\ set < MaxRoots /\ set' = set + 1
  /\ workspace_roots' = with(workspace_roots, p, root)
  /\ known' = [known EXCEPT ![p] = @ \cup {root}]
  /\ UNCHANGED <<pools, operation, stored, unpurged, early, begun, daemons>>

\* get_pool, first step: the kept pool, whatever the root is by now.
LookUp(o, p) ==
  /\ operation[o] = NotStarted /\ begun < MaxOperations /\ begun' = begun + 1
  /\ operation' = [operation EXCEPT ![o] =
       IF p \in DOMAIN pools THEN [at |-> "connected", project |-> p, db |-> pools[p]]
                             ELSE [at |-> "missed", project |-> p]]
  /\ UNCHANGED <<workspace_roots, pools, stored, unpurged, early, known, set, daemons>>

FindPath(o) ==
  LET p == operation[o].project IN
  /\ operation[o].at = "missed"
  /\ operation' = [operation EXCEPT ![o] = [at |-> "opening", project |-> p, db |-> get_db_path(p)]]
  /\ early' = IF p \in DOMAIN workspace_roots THEN early ELSE early \cup {p}
  /\ UNCHANGED <<workspace_roots, pools, stored, unpurged, known, begun, set, daemons>>

\* The directory, the connection or the schema may fail, which ends the operation; otherwise
\* the pool takes the place of one another operation has kept meanwhile.
OpenPool(o) ==
  LET op == operation[o] IN
  /\ op.at = "opening"
  /\ \/ /\ operation' = [operation EXCEPT ![o].at = "connected"]
        /\ pools' = with(pools, op.project, op.db)
     \/ operation' = [operation EXCEPT ![o] = NotStarted] /\ UNCHANGED pools
  /\ UNCHANGED <<workspace_roots, stored, unpurged, early, known, begun, set, daemons>>

\* The operation on the connection: it stores an entry of the project, deletes all rows there
\* are, or reads or fails.
upsert_entry(p, db) == stored' = stored \cup {<<db, p>>} /\ unpurged' = unpurged \cup {p}

\* No statement names the project.
purge_project(p, db) == stored' = {row \in stored : row[1] # db} /\ unpurged' = unpurged \ {p}

Execute(o) ==
  LET op == operation[o] IN
  /\ op.at = "connected" /\ operation' = [operation EXCEPT ![o] = NotStarted]
  /\ \/ upsert_entry(op.project, op.db)
     \/ purge_project(op.project, op.db)
     \/ UNCHANGED <<stored, unpurged>>
  /\ UNCHANGED <<workspace_roots, pools, early, known, begun, set, daemons>>

\* Roots and pools are in memory only.
RestartDaemon ==
  /\ daemons < MaxDaemons /\ daemons' = daemons + 1
  /\ workspace_roots' = <<>> /\ pools' = <<>> /\ operation' = [o \in Operations |-> NotStarted]
  /\ UNCHANGED <<stored, unpurged, early, known, begun, set>>

PoolsNext ==
  \/ \E p \in Projects, root \in Roots : SetWorkspaceRoot(p, root)
  \/ \E o \in Operations :
       \/ \E p \in Projects : LookUp(o, p)
       \/ FindPath(o)
       \/ OpenPool(o)
       \/ Execute(o)
  \/ RestartDaemon

-----------------------------------------------------------------------------
\* A project finds what it stored, and nothing that was purged.  As long as every daemon was
\* told the root of the workspace before it opened a database of the project ("CRITICAL: Set
\* workspace_root BEFORE any database access", main.rs:872), always the same root, and no other
\* project was given that root, its entries are in the database of that workspace exactly when
\* some were stored since the last purge, however many operations open it together and across
\* restarts.  Whenever the root came, nobody but the project itself removes its entries.
OneDatabase ==
  \A p \in Projects :
    LET holding == {row[1] : row \in {row \in stored : row[2] = p}}
    IN  (\A q \in Projects \ {p} : known[p] \cap known[q] = {}) =>
          /\ p \in unpurged => holding # {}
          /\ p \notin early /\ Cardinality(known[p]) = 1 =>
               holding = {InWorkspace(root) : root \in IF p \in unpurged THEN known[p] ELSE {}}
=============================================================================
