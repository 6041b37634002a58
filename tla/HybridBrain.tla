----------------------------- MODULE HybridBrain ------------------------------
(***************************************************************************)
(* The brain entries of one project in the four places the daemon keeps    *)
(* them: SQLite (storage/sqlite.rs, what reads are served from), the Redis *)
(* hash and its 20 s entry cache (storage/redis.rs), and the JSON mirror   *)
(* .memix/brain/*.json.  HybridStorage (storage/hybrid.rs) writes SQLite   *)
(* while the caller waits and hands the Redis write to a spawned task      *)
(* nobody waits for; the Redis write in turn spawns the mirror write.  The *)
(* daemon runs in the workspace of the project, so the mirror directory of *)
(* Redis, <data_dir>/brain, and the one of SQLite are the same.            *)
(*                                                                         *)
(* An entry is abstracted to the number of the write that made it; 0 is an *)
(* absent entry.                                                           *)
(***************************************************************************)
EXTENDS Naturals, FiniteSets

CONSTANTS
  Ids,        \* memory entries of the project
  Cap,        \* MAX_ENTRIES_PER_PROJECT (1000 in the code)
  MaxWrites,  \* bound: upserts and deletes
  MaxTasks,   \* bound: spawned tasks running at once
  MaxAdmin,   \* bound: exports, imports and purges
  MaxFaults,  \* bound: failed Redis commands and daemon crashes
  Overlap     \* "any": requests and tasks overlap freely; "entries": a write
              \* waits for the tasks of its entry, any other request for all
              \* tasks

ASSUME ConstantsAssumption ==
  /\ IsFiniteSet(Ids) /\ Cap \in Nat \ {0}
  /\ MaxWrites \in Nat /\ MaxTasks \in Nat /\ MaxAdmin \in Nat /\ MaxFaults \in Nat
  /\ Overlap \in {"any", "entries"}

VARIABLES
  sqlite,   \* brain_entries
  redis,    \* the project's hash
  cache,    \* entry_cache: {} or the set of one cached copy
  reader,   \* a get_entries between its fetch and its cache insert, likewise
  mirror,   \* <id>.json
  tmp,      \* <id>.json.tmp
  tasks,    \* spawned tasks not yet finished
  admin,    \* the export, import or purge request being served
  writes,   \* writes so far
  asked,    \* admin requests so far
  faults,   \* faults so far
  refused   \* history: entries the limit kept from Redis since they were stored

stores == <<sqlite, redis, cache, reader>>
files == <<mirror, tmp>>
vars == <<stores, files, tasks, admin, writes, asked, faults, refused>>

Entries == [Ids -> Nat]
Empty == [i \in Ids |-> 0]
Present(entries) == {i \in Ids : entries[i] # 0}

\* ino tells whether an open handle still means this file; data is 0 while
\* the content is empty or garbage; full: written since it was truncated.
File == [ino : Nat, data : Nat, full : BOOLEAN]
NoFile == [ino |-> 0, data |-> 0, full |-> FALSE]
NoFiles == [i \in Ids |-> NoFile]

PCs == {"patch", "hlen", "hexists", "hset", "uncache", "hdel", "unlink",
        "create", "fill", "rename"}
Task == [n : Nat, id : Ids, pc : PCs,
         count : Nat,        \* HLEN as read
         ino : Nat,          \* the temporary file held open
         inline : BOOLEAN]   \* run by an import, which waits for it

AdminPCs == {"idle", "export_open", "export_fill", "import", "push",
             "purge_sqlite", "purge_dir", "purge_cache", "purge_del", "purge_files"}
Admin == [pc : AdminPCs, todo : SUBSET Ids, snap : Entries,
          open : SUBSET Ids, \* the file an export has open
          some : BOOLEAN]    \* imported > 0
Idle == [pc |-> "idle", todo |-> {}, snap |-> Empty, open |-> {}, some |-> FALSE]

Init ==
  /\ sqlite = Empty /\ redis = Empty /\ cache = {} /\ reader = {}
  /\ mirror = NoFiles /\ tmp = NoFiles
  /\ tasks = {} /\ admin = Idle
  /\ writes = 0 /\ asked = 0 /\ faults = 0 /\ refused = {}

Busy(id) == \E t \in tasks : t.id = id

\* Task t goes on as task u.
Goes(t, u) == tasks' = (tasks \ {t}) \cup {u}
Ends(t) == tasks' = tasks \ {t}

UpsertTask(n, id, inline) ==
  [n |-> n, id |-> id, pc |-> "patch", count |-> 0, ino |-> 0, inline |-> inline]

-----------------------------------------------------------------------------
(* HybridStorage.                                                          *)

MayWrite(id) ==
  /\ writes < MaxWrites /\ Cardinality(tasks) < MaxTasks
  /\ Overlap # "any" => ~Busy(id) /\ admin = Idle /\ reader = {}

Upsert(id) ==
  /\ MayWrite(id)
  /\ writes' = writes + 1
  /\ sqlite' = [sqlite EXCEPT ![id] = writes']
  /\ tasks' = tasks \cup {UpsertTask(writes', id, FALSE)}
  /\ UNCHANGED <<redis, cache, reader, files, admin, asked, faults, refused>>

Delete(id) ==
  /\ MayWrite(id)
  /\ writes' = writes + 1
  /\ sqlite' = [sqlite EXCEPT ![id] = 0]
  /\ tasks' = tasks \cup {[UpsertTask(writes', id, FALSE) EXCEPT !.pc = "uncache"]}
  /\ UNCHANGED <<redis, cache, reader, files, admin, asked, faults, refused>>

-----------------------------------------------------------------------------
(* RedisStorage::upsert_entry.                                             *)

\* Fault-seeded: the cached copy is left as it is.
skip_patch(entries, t) == entries
patch(entries, t) == [entries EXCEPT ![t.id] = t.n]

PatchCache(t) ==
  /\ t.pc = "patch"
  /\ cache' = {patch(entries, t) : entries \in cache}
  /\ Goes(t, [t EXCEPT !.pc = "hlen"])
  /\ UNCHANGED <<sqlite, redis, reader, files, admin, writes, asked, faults, refused>>

ReadCount(t) ==
  /\ t.pc = "hlen"
  /\ Goes(t, [t EXCEPT !.count = Cardinality(Present(redis)), !.pc = "hexists"])
  /\ UNCHANGED <<stores, files, admin, writes, asked, faults, refused>>

\* Fault-seeded: the limit admits one entry too many; the comparison is
\* inverted.
rejected_late(t) == t.count > Cap /\ redis[t.id] = 0
rejected_below(t) == t.count < Cap /\ redis[t.id] = 0
rejected(t) == t.count >= Cap /\ redis[t.id] = 0

\* Over the limit the upsert fails, after the cache was changed; a push ends
\* with its first failed upsert.
CheckExists(t) ==
  /\ t.pc = "hexists"
  /\ \/ /\ rejected(t)
        /\ Ends(t)
        /\ admin' = IF t.inline THEN Idle ELSE admin
        /\ refused' = refused \cup {t.id} \cup (IF t.inline THEN admin.todo ELSE {})
     \/ /\ ~rejected(t)
        /\ Goes(t, [t EXCEPT !.pc = "hset"])
        /\ UNCHANGED <<admin, refused>>
  /\ UNCHANGED <<stores, files, writes, asked, faults>>

\* HSET, then spawn the mirror write.
StoreEntry(t) ==
  /\ t.pc = "hset"
  /\ redis' = [redis EXCEPT ![t.id] = t.n]
  /\ Goes(t, [t EXCEPT !.count = 0, !.inline = FALSE, !.pc = "create"])
  /\ refused' = refused \ {t.id}
  /\ UNCHANGED <<sqlite, cache, reader, files, admin, writes, asked, faults>>

(* mirror_entry_to_json_at and atomic_write: create or truncate the        *)
(* temporary file, whose name all writes of the entry share, fill it,      *)
(* rename it.                                                              *)
rename_unfilled(t) == "rename"   \* fault-seeded: renamed before it is written
after_create(t) == "fill"

CreateTmp(t) ==
  LET ino == IF tmp[t.id].ino = 0 THEN t.n ELSE tmp[t.id].ino
  IN  /\ t.pc = "create"
      /\ tmp' = [tmp EXCEPT ![t.id] = [ino |-> ino, data |-> 0, full |-> FALSE]]
      /\ Goes(t, [t EXCEPT !.ino = ino, !.pc = after_create(t)])
      /\ UNCHANGED <<stores, mirror, admin, writes, asked, faults, refused>>

\* The content after t wrote a file another task may have written meanwhile:
\* its own, or a mixture of both.
Filled(f, t) ==
  {[f EXCEPT !.data = d, !.full = TRUE] : d \in IF f.full THEN {t.n, 0} ELSE {t.n}}

\* The handle still means the temporary file, or the mirror file if another
\* task renamed it, or a file that is gone.
FillTmp(t) ==
  /\ t.pc = "fill"
  /\ \/ /\ tmp[t.id].ino = t.ino
        /\ \E f \in Filled(tmp[t.id], t) : tmp' = [tmp EXCEPT ![t.id] = f]
        /\ UNCHANGED mirror
     \/ /\ tmp[t.id].ino # t.ino /\ mirror[t.id].ino = t.ino
        /\ \E f \in Filled(mirror[t.id], t) : mirror' = [mirror EXCEPT ![t.id] = f]
        /\ UNCHANGED tmp
     \/ /\ tmp[t.id].ino # t.ino /\ mirror[t.id].ino # t.ino
        /\ UNCHANGED files
  /\ Goes(t, [t EXCEPT !.pc = "rename"])
  /\ UNCHANGED <<stores, admin, writes, asked, faults, refused>>

\* Rename fails, and is only logged, when the temporary file is gone.
RenameTmp(t) ==
  /\ t.pc = "rename"
  /\ \/ /\ tmp[t.id].ino # 0
        /\ mirror' = [mirror EXCEPT ![t.id] = tmp[t.id]]
        /\ tmp' = [tmp EXCEPT ![t.id] = NoFile]
     \/ /\ tmp[t.id].ino = 0
        /\ UNCHANGED files
  /\ Ends(t)
  /\ UNCHANGED <<stores, admin, writes, asked, faults, refused>>

-----------------------------------------------------------------------------
(* RedisStorage::delete_entry.                                             *)

DropCache(t) ==
  /\ t.pc = "uncache"
  /\ cache' = {}
  /\ Goes(t, [t EXCEPT !.pc = "hdel"])
  /\ UNCHANGED <<sqlite, redis, reader, files, admin, writes, asked, faults, refused>>

DeleteEntry(t) ==
  /\ t.pc = "hdel"
  /\ redis' = [redis EXCEPT ![t.id] = 0]
  /\ Goes(t, [t EXCEPT !.pc = "unlink"])
  /\ refused' = refused \ {t.id}
  /\ UNCHANGED <<sqlite, cache, reader, files, admin, writes, asked, faults>>

keep_file(f, id) == f                       \* fault-seeded: the file stays
unlink(f, id) == [f EXCEPT ![id] = NoFile]

DeleteMirror(t) ==
  /\ t.pc = "unlink"
  /\ mirror' = unlink(mirror, t.id)
  /\ Ends(t)
  /\ UNCHANGED <<stores, tmp, admin, writes, asked, faults, refused>>

-----------------------------------------------------------------------------
(* RedisStorage::get_entries on a cache miss: fetch, then insert.          *)

FetchEntries ==
  /\ cache = {} /\ reader = {}
  /\ Overlap # "any" => tasks = {} /\ admin = Idle
  /\ reader' = {redis}
  /\ UNCHANGED <<sqlite, redis, cache, files, tasks, admin, writes, asked,
                 faults, refused>>

InsertCache ==
  /\ reader # {}
  /\ cache' = reader /\ reader' = {}
  /\ UNCHANGED <<sqlite, redis, files, tasks, admin, writes, asked, faults, refused>>

\* The 20 s of the cached copy are over.
ExpireCache ==
  /\ cache # {} /\ cache' = {}
  /\ UNCHANGED <<sqlite, redis, reader, files, tasks, admin, writes, asked,
                 faults, refused>>

-----------------------------------------------------------------------------
(* Export, import and purge.                                               *)

MayAsk == /\ asked < MaxAdmin /\ admin = Idle
          /\ asked' = asked + 1
          /\ Overlap # "any" => tasks = {} /\ reader = {}

StartExport ==
  /\ MayAsk
  /\ admin' = [Idle EXCEPT !.pc = "export_open", !.snap = sqlite,
                           !.todo = Present(sqlite)]
  /\ UNCHANGED <<stores, files, tasks, writes, faults, refused>>

\* fs::write of SqliteStorage truncates the mirror file itself, ...
ExportOpen ==
  /\ admin.pc = "export_open"
  /\ \E id \in admin.todo :
       /\ mirror' = [mirror EXCEPT ![id] =
            [ino |-> IF @.ino = 0 THEN admin.snap[id] ELSE @.ino,
             data |-> 0, full |-> FALSE]]
       /\ admin' = [admin EXCEPT !.pc = "export_fill", !.open = {id},
                                 !.todo = @ \ {id}]
  /\ UNCHANGED <<stores, tmp, tasks, writes, asked, faults, refused>>

\* ... then writes it.
ExportFill ==
  /\ admin.pc = "export_fill"
  /\ \E id \in admin.open :
       /\ mirror' = [mirror EXCEPT ![id] =
            IF @.ino = 0 THEN NoFile
                         ELSE [@ EXCEPT !.data = admin.snap[id], !.full = TRUE]]
       /\ admin' = [admin EXCEPT !.pc = "export_open", !.open = {}]
  /\ UNCHANGED <<stores, tmp, tasks, writes, asked, faults, refused>>

ExportDone ==
  /\ admin.pc = "export_open" /\ admin.todo = {}
  /\ admin' = Idle
  /\ UNCHANGED <<stores, files, tasks, writes, asked, faults, refused>>

StartImport ==
  /\ MayAsk
  /\ admin' = [Idle EXCEPT !.pc = "import",
                           !.todo = {i \in Ids : mirror[i].ino # 0}]
  /\ UNCHANGED <<stores, files, tasks, writes, faults, refused>>

\* A file that does not parse is skipped.
ImportFile ==
  /\ admin.pc = "import"
  /\ \E id \in admin.todo :
       /\ sqlite' = IF mirror[id].data = 0 THEN sqlite
                    ELSE [sqlite EXCEPT ![id] = mirror[id].data]
       /\ admin' = [admin EXCEPT !.todo = @ \ {id},
                                 !.some = @ \/ mirror[id].data # 0]
  /\ UNCHANGED <<redis, cache, reader, files, tasks, writes, asked, faults, refused>>

\* push_to_redis, when something was imported.
ImportDone ==
  /\ admin.pc = "import" /\ admin.todo = {}
  /\ admin' = IF admin.some
                THEN [Idle EXCEPT !.pc = "push", !.snap = sqlite,
                                  !.todo = Present(sqlite)]
                ELSE Idle
  /\ UNCHANGED <<stores, files, tasks, writes, asked, faults, refused>>

Inline == {t \in tasks : t.inline}

PushEntry ==
  /\ admin.pc = "push" /\ Inline = {} /\ Cardinality(tasks) < MaxTasks
  /\ \E id \in admin.todo :
       /\ tasks' = tasks \cup {UpsertTask(admin.snap[id], id, TRUE)}
       /\ admin' = [admin EXCEPT !.todo = @ \ {id}]
  /\ UNCHANGED <<stores, files, writes, asked, faults, refused>>

PushDone ==
  /\ admin.pc = "push" /\ Inline = {} /\ admin.todo = {}
  /\ admin' = Idle
  /\ UNCHANGED <<stores, files, tasks, writes, asked, faults, refused>>

StartPurge ==
  /\ MayAsk
  /\ admin' = [Idle EXCEPT !.pc = "purge_sqlite"]
  /\ UNCHANGED <<stores, files, tasks, writes, faults, refused>>

\* purge_project of both backends, step by step.
PurgeStep ==
  /\ \/ /\ admin.pc = "purge_sqlite"
        /\ sqlite' = Empty /\ UNCHANGED <<redis, cache, files, refused>>
        /\ admin' = [admin EXCEPT !.pc = "purge_dir"]
     \/ /\ admin.pc = "purge_dir"
        /\ mirror' = NoFiles /\ tmp' = NoFiles
        /\ UNCHANGED <<sqlite, redis, cache, refused>>
        /\ admin' = [admin EXCEPT !.pc = "purge_cache"]
     \/ /\ admin.pc = "purge_cache"
        /\ cache' = {} /\ UNCHANGED <<sqlite, redis, files, refused>>
        /\ admin' = [admin EXCEPT !.pc = "purge_del"]
     \/ /\ admin.pc = "purge_del"
        /\ redis' = Empty /\ refused' = {} /\ UNCHANGED <<sqlite, cache, files>>
        /\ admin' = [admin EXCEPT !.pc = "purge_files"]
     \/ /\ admin.pc = "purge_files"
        /\ mirror' = NoFiles /\ tmp' = NoFiles
        /\ UNCHANGED <<sqlite, redis, cache, refused>>
        /\ admin' = Idle
  /\ UNCHANGED <<reader, tasks, writes, asked, faults>>

-----------------------------------------------------------------------------
(* Faults.                                                                 *)

\* A Redis command of a spawned task fails; nobody looks at the result.
FailTask ==
  /\ faults < MaxFaults /\ faults' = faults + 1
  /\ \E t \in tasks : /\ t.pc \in {"hlen", "hexists", "hset", "hdel"}
                      /\ Ends(t)
                      /\ admin' = IF t.inline THEN Idle ELSE admin
  /\ UNCHANGED <<stores, files, writes, asked, refused>>

Crash ==
  /\ faults < MaxFaults /\ faults' = faults + 1
  /\ tasks' = {} /\ admin' = Idle /\ cache' = {} /\ reader' = {}
  /\ UNCHANGED <<sqlite, redis, files, writes, asked, refused>>

-----------------------------------------------------------------------------
TaskStep(t) ==
  \/ PatchCache(t) \/ ReadCount(t) \/ CheckExists(t) \/ StoreEntry(t)
  \/ CreateTmp(t) \/ FillTmp(t) \/ RenameTmp(t)
  \/ DropCache(t) \/ DeleteEntry(t) \/ DeleteMirror(t)

AdminStep ==
  \/ ExportOpen \/ ExportFill \/ ExportDone \/ ImportFile \/ ImportDone
  \/ PushEntry \/ PushDone \/ PurgeStep

Next ==
  \/ \E id \in Ids : Upsert(id) \/ Delete(id)
  \/ \E t \in tasks : TaskStep(t)
  \/ FetchEntries \/ InsertCache \/ ExpireCache
  \/ StartExport \/ StartImport \/ StartPurge \/ AdminStep
  \/ FailTask \/ Crash

Spec == Init /\ [][Next]_vars

\* Tokio runs a spawned task, and the handler of a request, to its end.
LiveSpec ==
  Spec /\ WF_vars(\E t \in tasks : TaskStep(t)) /\ WF_vars(AdminStep)

-----------------------------------------------------------------------------
\* An entry whose tasks have ended is the same in SQLite, Redis and the mirror,
\* unless the limit kept it from Redis (no fault, one write of an entry at a
\* time): the spawned tasks of hybrid.rs leave the three stores equal.
StoresAgree ==
  faults = 0 /\ admin = Idle => \A i \in Ids \ refused :
    ~Busy(i) => redis[i] = sqlite[i] /\ mirror[i].data = redis[i]

\* HLEN, the test and HSET of upsert_entry are separate commands: k upserts at
\* once outgrow MAX_ENTRIES_PER_PROJECT by k - 1 entries, and never by more.
OvershootBounded == Cardinality(Present(redis)) <= Cap + MaxTasks - 1

\* Once all tasks have ended, the cached copy shows what Redis holds of every
\* entry the limit let through: upsert_entry and delete_entry keep the cache
\* current for the next read.
CacheAgrees ==
  faults = 0 /\ tasks = {} /\ admin = Idle =>
    \A entries \in cache : \A i \in Ids \ refused : entries[i] = redis[i]

\* Until something is exported, a mirror file an agent reads holds a whole
\* entry, also after a crash: atomic_write renames a finished file into place.
MirrorReadable ==
  asked = 0 => \A i \in Ids : mirror[i].ino # 0 => mirror[i].data # 0

\* The upsert of entry i, or of another entry of the same push, found the hash
\* at its limit and its own entry new.
MeetsLimit(i) ==
  \E t \in tasks : (t.id = i \/ t.inline) /\ t.count >= Cap /\ redis[t.id] = 0

\* What SQLite answers reaches Redis unless it is written again, a command
\* fails, or the limit refuses it, which only a hash found full does.
EventuallyInRedis ==
  \A i \in Ids, n \in 1..MaxWrites :
    sqlite[i] = n /\ i \notin refused ~>
      redis[i] = n \/ sqlite[i] # n \/ MeetsLimit(i) \/ faults > 0
=============================================================================
