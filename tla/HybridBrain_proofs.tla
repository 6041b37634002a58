--------------------------- MODULE HybridBrain_proofs ---------------------------
(***************************************************************************)
(* Proofs about HybridBrain: the limit of the Redis hash is outgrown by no *)
(* more than the tasks that run at once, however requests and tasks        *)
(* overlap; and when a write waits for the tasks of its entry, SQLite,     *)
(* Redis, the cached copy and the mirror agree.                            *)
(***************************************************************************)
EXTENDS HybridBrain, Integers, FiniteSetTheorems, TLAPS

HandlePCs == {"create", "fill", "rename"}

TasksType ==
  /\ tasks \subseteq Task /\ IsFiniteSet(tasks) /\ Cardinality(tasks) <= MaxTasks
TypeOK ==
  /\ sqlite \in Entries /\ redis \in Entries /\ cache \subseteq Entries /\ reader \subseteq Entries
  /\ mirror \in [Ids -> File] /\ tmp \in [Ids -> File]
  /\ TasksType /\ admin \in Admin
  /\ writes \in Nat /\ asked \in Nat /\ faults \in Nat /\ refused \subseteq Ids

LEMMA UpsertTaskType ==
  ASSUME NEW n \in Nat, NEW id \in Ids, NEW inline \in BOOLEAN
  PROVE  UpsertTask(n, id, inline) \in Task /\ [UpsertTask(n, id, inline) EXCEPT !.pc = "uncache"] \in Task
BY DEF UpsertTask, Task, PCs

LEMMA GoesOn ==
  ASSUME TasksType, NEW t \in tasks, NEW u \in Task, Goes(t, u) PROVE TasksType'
<1>1. IsFiniteSet(tasks \ {t}) /\ Cardinality(tasks \ {t}) = Cardinality(tasks) - 1 /\ Cardinality(tasks) \in Nat
  BY FS_RemoveElement, FS_CardinalityType DEF TasksType
<1>2. PICK rest : rest = tasks \ {t}
  OBVIOUS
<1>3. IsFiniteSet(rest) /\ Cardinality(rest) = Cardinality(tasks) - 1 /\ Cardinality(rest) \in Nat
  BY <1>1, <1>2, FS_CardinalityType
<1>4. IsFiniteSet(rest \cup {u}) /\ Cardinality(rest \cup {u}) <= Cardinality(rest) + 1
  <2>1. /\ IsFiniteSet(rest \cup {u})
        /\ Cardinality(rest \cup {u}) = IF u \in rest THEN Cardinality(rest) ELSE Cardinality(rest) + 1
    BY <1>3, FS_AddElement
  <2> QED BY <1>3, <2>1
<1>5. tasks' = rest \cup {u} /\ rest \subseteq Task /\ Cardinality(tasks) <= MaxTasks /\ MaxTasks \in Nat
  BY <1>2, ConstantsAssumption DEF Goes, TasksType
<1>6. Cardinality(rest \cup {u}) \in Nat
  BY <1>4, FS_CardinalityType
<1> QED BY <1>1, <1>3, <1>4, <1>5, <1>6 DEF TasksType

LEMMA OneEnds ==
  ASSUME TasksType, NEW t \in tasks, Ends(t) PROVE TasksType'
<1>1. IsFiniteSet(tasks \ {t}) /\ Cardinality(tasks \ {t}) = Cardinality(tasks) - 1 /\ Cardinality(tasks) \in Nat
  BY FS_RemoveElement, FS_CardinalityType DEF TasksType
<1>2. Cardinality(tasks) <= MaxTasks /\ MaxTasks \in Nat /\ tasks \subseteq Task
  BY ConstantsAssumption DEF TasksType
<1>3. tasks' = tasks \ {t}
  BY DEF Ends
<1> QED BY <1>1, <1>2, <1>3 DEF TasksType

LEMMA OneStarts ==
  ASSUME TasksType, NEW u \in Task, Cardinality(tasks) < MaxTasks, tasks' = tasks \cup {u} PROVE TasksType'
<1>1. IsFiniteSet(tasks \cup {u}) /\ Cardinality(tasks \cup {u}) <= Cardinality(tasks) + 1
  BY FS_AddElement, FS_CardinalityType DEF TasksType
<1>2. Cardinality(tasks) \in Nat /\ Cardinality(tasks \cup {u}) \in Nat /\ MaxTasks \in Nat
  BY <1>1, FS_CardinalityType, ConstantsAssumption DEF TasksType
<1> QED BY <1>1, <1>2 DEF TasksType

LEMMA NoTasks == tasks' = {} => TasksType'
BY FS_EmptySet, ConstantsAssumption DEF TasksType
LEMMA EmptyTypes ==
  /\ Empty \in Entries /\ NoFile \in File /\ NoFiles \in [Ids -> File] /\ Idle \in Admin
BY DEF Empty, Entries, NoFile, NoFiles, File, Idle, Admin, AdminPCs

LEMMA TypeInit == Init => TypeOK
BY EmptyTypes, NoTasks, FS_EmptySet, ConstantsAssumption DEF Init, TypeOK, TasksType

LEMMA TypeTask == ASSUME TypeOK, NEW t \in tasks, TaskStep(t) PROVE TypeOK'
<1>0. TasksType /\ t \in Task
  BY DEF TypeOK, TasksType
<1> USE <1>0, EmptyTypes
<1>1. CASE PatchCache(t)
  <2>1. [t EXCEPT !.pc = "hlen"] \in Task
    BY DEF Task, PCs
  <2>2. \A entries \in cache : patch(entries, t) \in Entries
    BY DEF TypeOK, Entries, patch, Task
  <2>3. cache' \subseteq Entries
    BY <1>1, <2>2 DEF PatchCache
  <2>4. TasksType'
    BY <1>1, <2>1, GoesOn DEF PatchCache
  <2> QED BY <1>1, <2>3, <2>4 DEF PatchCache, TypeOK, files
<1>2. CASE ReadCount(t)
  <2>1. IsFiniteSet(Present(redis))
    BY ConstantsAssumption, FS_Subset DEF Present
  <2>2. Cardinality(Present(redis)) \in Nat
    BY <2>1, FS_CardinalityType
  <2>3. [t EXCEPT !.count = Cardinality(Present(redis)), !.pc = "hexists"] \in Task
    BY <2>2 DEF Task, PCs
  <2> QED BY <1>2, <2>3, GoesOn DEF ReadCount, TypeOK, stores, files
<1>3. CASE CheckExists(t)
  <2>1. [t EXCEPT !.pc = "hset"] \in Task /\ t.id \in Ids
    BY DEF Task, PCs
  <2>2. TasksType'
    BY <1>3, <2>1, GoesOn, OneEnds DEF CheckExists
  <2>3. admin' \in Admin /\ refused' \subseteq Ids
    BY <1>3, <2>1 DEF CheckExists, TypeOK, Admin
  <2> QED BY <1>3, <2>2, <2>3 DEF CheckExists, TypeOK, stores, files
<1>4. CASE StoreEntry(t)
  <2>1. [t EXCEPT !.count = 0, !.inline = FALSE, !.pc = "create"] \in Task
    BY DEF Task, PCs
  <2>2. redis' \in Entries
    BY <1>4 DEF StoreEntry, TypeOK, Entries, Task
  <2> QED BY <1>4, <2>1, <2>2, GoesOn DEF StoreEntry, TypeOK, files
<1>5. CASE CreateTmp(t)
  <2>1. PICK ino : ino = IF tmp[t.id].ino = 0 THEN t.n ELSE tmp[t.id].ino
    OBVIOUS
  <2>2. ino \in Nat /\ [ino |-> ino, data |-> 0, full |-> FALSE] \in File
    BY <2>1 DEF TypeOK, Task, File
  <2>3. [t EXCEPT !.ino = ino, !.pc = after_create(t)] \in Task
    BY <2>2 DEF Task, PCs, after_create
  <2>4. TasksType' /\ tmp' \in [Ids -> File]
    BY <1>5, <2>1, <2>2, <2>3, GoesOn DEF CreateTmp, TypeOK
  <2> QED BY <1>5, <2>4 DEF CreateTmp, TypeOK, stores
<1>6. CASE FillTmp(t)
  <2>1. [t EXCEPT !.pc = "rename"] \in Task
    BY DEF Task, PCs
  <2>2. ASSUME NEW file \in File PROVE Filled(file, t) \subseteq File
    <3>1. ASSUME NEW d \in Nat PROVE [file EXCEPT !.data = d, !.full = TRUE] \in File
      BY DEF File
    <3>2. t.n \in Nat
      BY DEF Task
    <3> QED BY <3>1, <3>2 DEF Filled
  <2>3. tmp' \in [Ids -> File] /\ mirror' \in [Ids -> File]
    <3>1. tmp[t.id] \in File /\ mirror[t.id] \in File
      BY DEF TypeOK, Task
    <3> QED BY <1>6, <2>2, <3>1 DEF FillTmp, TypeOK, files
  <2> QED BY <1>6, <2>1, <2>3, GoesOn DEF FillTmp, TypeOK, stores
<1>7. CASE RenameTmp(t)
  <2>1. tmp' \in [Ids -> File] /\ mirror' \in [Ids -> File]
    BY <1>7 DEF RenameTmp, TypeOK, files, Task
  <2> QED BY <1>7, <2>1, OneEnds DEF RenameTmp, TypeOK, stores
<1>8. CASE DropCache(t)
  <2>1. [t EXCEPT !.pc = "hdel"] \in Task
    BY DEF Task, PCs
  <2> QED BY <1>8, <2>1, GoesOn DEF DropCache, TypeOK, files
<1>9. CASE DeleteEntry(t)
  <2>1. [t EXCEPT !.pc = "unlink"] \in Task
    BY DEF Task, PCs
  <2>2. redis' \in Entries
    BY <1>9 DEF DeleteEntry, TypeOK, Entries
  <2> QED BY <1>9, <2>1, <2>2, GoesOn DEF DeleteEntry, TypeOK, files
<1>10. CASE DeleteMirror(t)
  BY <1>10, OneEnds DEF DeleteMirror, TypeOK, stores, unlink
<1> QED BY <1>1, <1>2, <1>3, <1>4, <1>5, <1>6, <1>7, <1>8, <1>9, <1>10 DEF TaskStep

LEMMA TypeAdmin == ASSUME TypeOK, AdminStep PROVE TypeOK'
<1> USE EmptyTypes
<1>0. admin \in Admin /\ tasks \subseteq Task /\ TasksType
  BY DEF TypeOK, TasksType
<1>1. CASE ExportOpen
  <2>1. PICK id \in admin.todo :
          /\ mirror' = [mirror EXCEPT ![id] = [ino |-> IF @.ino = 0 THEN admin.snap[id] ELSE @.ino,
                                              data |-> 0, full |-> FALSE]]
          /\ admin' = [admin EXCEPT !.pc = "export_fill", !.open = {id}, !.todo = @ \ {id}]
    BY <1>1 DEF ExportOpen
  <2>2. id \in Ids /\ admin.snap[id] \in Nat /\ mirror[id].ino \in Nat
    BY <1>0, <2>1 DEF TypeOK, Admin, Entries, File
  <2>3. mirror' \in [Ids -> File]
    BY <2>1, <2>2 DEF TypeOK, File
  <2>4. admin' \in Admin
    BY <1>0, <2>1, <2>2 DEF Admin, AdminPCs
  <2> QED BY <1>1, <2>3, <2>4 DEF ExportOpen, TypeOK, TasksType, stores
<1>2. CASE ExportFill
  <2>1. PICK id \in admin.open :
          /\ mirror' = [mirror EXCEPT ![id] = IF @.ino = 0 THEN NoFile
                                              ELSE [@ EXCEPT !.data = admin.snap[id], !.full = TRUE]]
          /\ admin' = [admin EXCEPT !.pc = "export_open", !.open = {}]
    BY <1>2 DEF ExportFill
  <2>2. id \in Ids /\ admin.snap[id] \in Nat /\ mirror[id] \in File
    BY <1>0, <2>1 DEF TypeOK, Admin, Entries
  <2>3. [mirror[id] EXCEPT !.data = admin.snap[id], !.full = TRUE] \in File
    BY <2>2 DEF File
  <2>4. mirror' \in [Ids -> File]
    BY <2>1, <2>2, <2>3 DEF TypeOK
  <2>5. admin' \in Admin
    BY <1>0, <2>1 DEF Admin, AdminPCs
  <2> QED BY <1>2, <2>4, <2>5 DEF ExportFill, TypeOK, TasksType, stores
<1>3. CASE ExportDone \/ PushDone
  BY <1>3 DEF ExportDone, PushDone, TypeOK, TasksType, stores, files
<1>4. CASE ImportFile
  <2>1. PICK id \in admin.todo :
          /\ sqlite' = IF mirror[id].data = 0 THEN sqlite ELSE [sqlite EXCEPT ![id] = mirror[id].data]
          /\ admin' = [admin EXCEPT !.todo = @ \ {id}, !.some = @ \/ mirror[id].data # 0]
    BY <1>4 DEF ImportFile
  <2>2. id \in Ids /\ mirror[id].data \in Nat
    BY <1>0, <2>1 DEF TypeOK, Admin, File
  <2>3. sqlite' \in Entries
    BY <2>1, <2>2 DEF TypeOK, Entries
  <2>4. admin' \in Admin
    BY <1>0, <2>1 DEF Admin, AdminPCs
  <2> QED BY <1>4, <2>3, <2>4 DEF ImportFile, TypeOK, TasksType, files
<1>5. CASE ImportDone
  <2>1. admin' \in Admin
    BY <1>5 DEF ImportDone, Admin, AdminPCs, Idle, Present, TypeOK
  <2> QED BY <1>5, <2>1 DEF ImportDone, TypeOK, TasksType, stores, files
<1>6. CASE PushEntry
  <2>1. PICK id \in admin.todo : /\ tasks' = tasks \cup {UpsertTask(admin.snap[id], id, TRUE)}
                                 /\ admin' = [admin EXCEPT !.todo = @ \ {id}]
    BY <1>6 DEF PushEntry
  <2>2. UpsertTask(admin.snap[id], id, TRUE) \in Task
    BY <1>0, <2>1, UpsertTaskType DEF Admin, Entries
  <2>3. TasksType'
    BY <1>0, <1>6, <2>1, <2>2, OneStarts DEF PushEntry
  <2>4. admin' \in Admin
    BY <1>0, <2>1 DEF Admin
  <2> QED BY <1>6, <2>3, <2>4 DEF PushEntry, TypeOK, stores, files
<1>7. CASE PurgeStep
  <2>1. admin' \in Admin
    BY <1>0, <1>7 DEF PurgeStep, Admin, AdminPCs
  <2>2. sqlite' \in Entries /\ redis' \in Entries /\ cache' \subseteq Entries /\ refused' \subseteq Ids
        /\ mirror' \in [Ids -> File] /\ tmp' \in [Ids -> File]
    BY <1>7 DEF PurgeStep, TypeOK, files
  <2> QED BY <1>7, <2>1, <2>2 DEF PurgeStep, TypeOK, TasksType
<1> QED BY <1>1, <1>2, <1>3, <1>4, <1>5, <1>6, <1>7 DEF AdminStep

LEMMA TypeStep == TypeOK /\ [Next]_vars => TypeOK'
<1> SUFFICES ASSUME TypeOK, [Next]_vars PROVE TypeOK'
  OBVIOUS
<1> USE EmptyTypes
<1>0. TasksType
  BY DEF TypeOK
<1>1. ASSUME NEW id \in Ids, Upsert(id) PROVE TypeOK'
  <2>0. writes' \in Nat
    BY <1>1 DEF Upsert, TypeOK
  <2>1. writes' \in Nat /\ UpsertTask(writes', id, FALSE) \in Task
    BY <2>0, UpsertTaskType
  <2>2. TasksType'
    BY <1>0, <1>1, <2>1, OneStarts DEF Upsert, MayWrite
  <2>3. sqlite' \in Entries
    BY <1>1, <2>1 DEF Upsert, TypeOK, Entries
  <2> QED BY <1>1, <2>1, <2>2, <2>3 DEF Upsert, TypeOK, files
<1>2. ASSUME NEW id \in Ids, Delete(id) PROVE TypeOK'
  <2>0. writes' \in Nat
    BY <1>2 DEF Delete, TypeOK
  <2>1. writes' \in Nat /\ [UpsertTask(writes', id, FALSE) EXCEPT !.pc = "uncache"] \in Task
    BY <2>0, UpsertTaskType
  <2>2. TasksType'
    BY <1>0, <1>2, <2>1, OneStarts DEF Delete, MayWrite
  <2>3. sqlite' \in Entries
    BY <1>2 DEF Delete, TypeOK, Entries
  <2> QED BY <1>2, <2>1, <2>2, <2>3 DEF Delete, TypeOK, files
<1>3. CASE FetchEntries \/ InsertCache \/ ExpireCache
  BY <1>3 DEF FetchEntries, InsertCache, ExpireCache, TypeOK, TasksType, files
<1>4. CASE StartExport \/ StartImport \/ StartPurge
  <2>1. admin' \in Admin
    <3>1. CASE StartExport
      BY <3>1 DEF StartExport, Admin, AdminPCs, Idle, Present, TypeOK
    <3>2. CASE StartImport
      BY <3>2 DEF StartImport, Admin, AdminPCs, Idle
    <3>3. CASE StartPurge
      BY <3>3 DEF StartPurge, Admin, AdminPCs, Idle
    <3> QED BY <1>4, <3>1, <3>2, <3>3
  <2>2. asked' \in Nat
    BY <1>4 DEF StartExport, StartImport, StartPurge, MayAsk, TypeOK
  <2> QED BY <1>4, <2>1, <2>2 DEF StartExport, StartImport, StartPurge, TypeOK, TasksType, stores, files
<1>5. CASE FailTask
  BY <1>0, <1>5, OneEnds DEF FailTask, TypeOK, stores, files
<1>6. CASE Crash
  BY <1>6, NoTasks DEF Crash, TypeOK, files
<1>7. CASE UNCHANGED vars
  BY <1>7 DEF TypeOK, TasksType, vars, stores, files
<1> QED BY <1>1, <1>2, <1>3, <1>4, <1>5, <1>6, <1>7, TypeTask, TypeAdmin DEF Next

\* The variables keep their types, and no more tasks run at once than may.
THEOREM TypeCorrect == Spec => []TypeOK
BY TypeInit, TypeStep, PTL DEF Spec
-----------------------------------------------------------------------------
(* The limit of the Redis hash. *)

\* Upserts that are past the limit, or will pass it whatever their HEXISTS answers: they read the
\* length of the hash when it was below.
Admitted == {t \in tasks : t.pc = "hset" \/ (t.pc = "hexists" /\ t.count < Cap)}
AdmittedIds == {t.id : t \in Admitted}

\* What the hash holds, and what it may come to hold without another look at its length.
Reached == Present(redis) \cup AdmittedIds

LimitInv == TypeOK /\ Cardinality(Reached) <= Cap + MaxTasks - 1

LEMMA ReachedFinite == IsFiniteSet(Ids) /\ (TypeOK => Reached \subseteq Ids /\ Present(redis) \subseteq Ids)
BY ConstantsAssumption DEF Reached, Present, AdmittedIds, Admitted, TypeOK, TasksType, Task

LEMMA FewerReached ==
  ASSUME NEW big, NEW small, big \subseteq Ids, small \subseteq big, Cardinality(big) <= Cap + MaxTasks - 1
  PROVE  Cardinality(small) <= Cap + MaxTasks - 1
<1>1. IsFiniteSet(big) /\ IsFiniteSet(small)
  BY ConstantsAssumption, FS_Subset
<1>2. Cardinality(big) \in Nat /\ Cardinality(small) \in Nat /\ Cardinality(small) <= Cardinality(big)
  BY <1>1, FS_Subset, FS_CardinalityType
<1> QED BY <1>2, ConstantsAssumption

\* HLEN finds the hash below its limit: with all tasks there may be, it is outgrown by one less.
LEMMA ReadReaches ==
  ASSUME TypeOK, NEW t \in tasks, ReadCount(t), LimitInv PROVE Cardinality(Reached') <= Cap + MaxTasks - 1
<1>1. TasksType' /\ TypeOK' /\ redis' = redis
  BY TypeTask DEF TaskStep, ReadCount, stores, TypeOK
<1>2. PICK u : u = [t EXCEPT !.count = Cardinality(Present(redis)), !.pc = "hexists"]
  OBVIOUS
<1>3. /\ tasks' = (tasks \ {t}) \cup {u} /\ u.id = t.id /\ u.pc = "hexists"
      /\ u.count = Cardinality(Present(redis)) /\ t.pc = "hlen"
  BY <1>2 DEF ReadCount, Goes, TypeOK, TasksType, Task
<1>4. CASE Cardinality(Present(redis)) < Cap
  <2>1. PICK old, new : old = Present(redis) /\ new = AdmittedIds'
    OBVIOUS
  <2>2. IsFiniteSet(tasks') /\ Cardinality(tasks') <= MaxTasks
    BY <1>1 DEF TasksType
  <2>3. IsFiniteSet(Admitted') /\ Cardinality(Admitted') <= Cardinality(tasks')
    BY <2>2, FS_Subset DEF Admitted
  <2>4. IsFiniteSet(new) /\ Cardinality(new) <= Cardinality(Admitted')
    <3>1. PICK set, f : set = Admitted' /\ f = [x \in set |-> x.id]
      OBVIOUS
    <3>2. f \in Surjection(set, new)
      BY <2>1, <3>1 DEF Surjection, AdmittedIds
    <3> QED BY <2>3, <3>1, <3>2, FS_Surjection
  <2>5. IsFiniteSet(old)
    BY <2>1, ReachedFinite, FS_Subset
  <2>6. Cardinality(old \cup new) = Cardinality(old) + Cardinality(new) - Cardinality(old \cap new)
    BY <2>4, <2>5, FS_Union
  <2>7. IsFiniteSet(old \cap new)
    BY <2>5, FS_Subset
  <2>8. /\ Cardinality(old) \in Nat /\ Cardinality(new) \in Nat /\ Cardinality(old \cap new) \in Nat
        /\ Cardinality(tasks') \in Nat /\ Cardinality(Admitted') \in Nat
    BY <2>2, <2>3, <2>4, <2>5, <2>7, FS_CardinalityType
  <2>9. Reached' = old \cup new
    BY <1>1, <2>1 DEF Reached, Present
  <2> QED BY <1>4, <2>1, <2>2, <2>3, <2>4, <2>6, <2>8, <2>9, ConstantsAssumption
<1>5. CASE ~(Cardinality(Present(redis)) < Cap)
  <2>1. Admitted' = Admitted
    BY <1>3, <1>5 DEF Admitted
  <2> QED BY <1>1, <2>1 DEF LimitInv, Reached, Present, AdmittedIds
<1> QED BY <1>4, <1>5

LEMMA LimitTask == ASSUME LimitInv, NEW t \in tasks, TaskStep(t) PROVE LimitInv'
<1>0. TypeOK /\ TypeOK' /\ t \in Task /\ redis \in Entries /\ Reached \subseteq Ids
  BY TypeTask, ReachedFinite DEF LimitInv, TypeOK, TasksType
<1>1. SUFFICES Reached' \subseteq Reached \/ ReadCount(t)
  BY <1>0, FewerReached, ReadReaches DEF LimitInv
<1>2. CASE PatchCache(t)
  <2>1. Admitted' \subseteq Admitted /\ redis' = redis
    BY <1>0, <1>2 DEF PatchCache, Goes, Admitted, Task
  <2> QED BY <2>1 DEF Reached, AdmittedIds, Present
<1>3. CASE CheckExists(t)
  <2>1. redis' = redis
    BY <1>3 DEF CheckExists, stores
  <2>2. CASE Ends(t)
    BY <2>1, <2>2 DEF Ends, Reached, Admitted, AdmittedIds, Present
  <2>3. CASE ~rejected(t) /\ Goes(t, [t EXCEPT !.pc = "hset"])
    <3>1. PICK u : u = [t EXCEPT !.pc = "hset"]
      OBVIOUS
    <3>2. tasks' = (tasks \ {t}) \cup {u} /\ u.id = t.id /\ t.pc = "hexists"
      BY <1>0, <1>3, <2>3, <3>1 DEF CheckExists, Goes, Task
    <3>3. t.count < Cap \/ t.id \in Present(redis)
      BY <1>0, <2>3, ConstantsAssumption DEF rejected, Present, Task
    <3>4. t.id \in Reached
      BY <3>2, <3>3 DEF Reached, AdmittedIds, Admitted
    <3>5. \A v \in Admitted' : v \in Admitted \/ v.id = t.id
      BY <3>2 DEF Admitted
    <3> QED BY <2>1, <3>4, <3>5 DEF Reached, AdmittedIds, Present
  <2> QED BY <1>3, <2>2, <2>3 DEF CheckExists
<1>4. CASE StoreEntry(t)
  <2>1. PICK u : u = [t EXCEPT !.count = 0, !.inline = FALSE, !.pc = "create"]
    OBVIOUS
  <2>2. /\ tasks' = (tasks \ {t}) \cup {u} /\ u.pc = "create" /\ t.pc = "hset" /\ redis' = [redis EXCEPT ![t.id] = t.n]
    BY <1>0, <1>4, <2>1 DEF StoreEntry, Goes, Task
  <2>3. t.id \in AdmittedIds /\ Admitted' \subseteq Admitted
    BY <2>2 DEF AdmittedIds, Admitted
  <2>4. Present(redis)' \subseteq Present(redis) \cup {t.id}
    BY <1>0, <2>2 DEF Present, Entries
  <2> QED BY <2>3, <2>4 DEF Reached, AdmittedIds
<1>5. CASE CreateTmp(t) \/ FillTmp(t)
  <2>1. Admitted' \subseteq Admitted /\ redis' = redis
    BY <1>0, <1>5 DEF CreateTmp, FillTmp, Goes, Admitted, Task, stores, after_create
  <2> QED BY <2>1 DEF Reached, AdmittedIds, Present
<1>6. CASE RenameTmp(t) \/ DeleteMirror(t)
  <2>1. Admitted' \subseteq Admitted /\ redis' = redis
    BY <1>6 DEF RenameTmp, DeleteMirror, Ends, Admitted, stores
  <2> QED BY <2>1 DEF Reached, AdmittedIds, Present
<1>7. CASE DropCache(t)
  <2>1. Admitted' \subseteq Admitted /\ redis' = redis
    BY <1>0, <1>7 DEF DropCache, Goes, Admitted, Task
  <2> QED BY <2>1 DEF Reached, AdmittedIds, Present
<1>8. CASE DeleteEntry(t)
  <2>1. Admitted' \subseteq Admitted
    BY <1>0, <1>8 DEF DeleteEntry, Goes, Admitted, Task
  <2>2. Present(redis)' \subseteq Present(redis)
    BY <1>0, <1>8 DEF DeleteEntry, Present, Entries
  <2> QED BY <2>1, <2>2 DEF Reached, AdmittedIds
<1> QED BY <1>2, <1>3, <1>4, <1>5, <1>6, <1>7, <1>8 DEF TaskStep

LEMMA LimitStep == LimitInv /\ [Next]_vars => LimitInv'
<1> SUFFICES ASSUME LimitInv, [Next]_vars PROVE LimitInv'
  OBVIOUS
<1>0. TypeOK /\ TypeOK' /\ Reached \subseteq Ids
  BY TypeStep, ReachedFinite DEF LimitInv
<1>1. CASE \E t \in tasks : TaskStep(t)
  BY <1>1, LimitTask
<1>2. CASE ~\E t \in tasks : TaskStep(t)
  <2>1. Admitted' \subseteq Admitted
    <3>1. ASSUME NEW id \in Ids, Upsert(id) \/ Delete(id) PROVE Admitted' \subseteq Admitted
      BY <3>1 DEF Upsert, Delete, UpsertTask, Admitted
    <3>2. CASE PushEntry
      BY <3>2 DEF PushEntry, UpsertTask, Admitted
    <3>3. CASE FailTask \/ Crash
      BY <3>3 DEF FailTask, Ends, Crash, Admitted
    <3>4. CASE tasks' = tasks
      BY <3>4 DEF Admitted
    <3>5. AdminStep => PushEntry \/ tasks' = tasks
      BY DEF AdminStep, ExportOpen, ExportFill, ExportDone, ImportFile, ImportDone, PushDone, PurgeStep
    <3>6. FetchEntries \/ InsertCache \/ ExpireCache \/ StartExport \/ StartImport \/ StartPurge => tasks' = tasks
      BY DEF FetchEntries, InsertCache, ExpireCache, StartExport, StartImport, StartPurge
    <3> QED BY <1>2, <3>1, <3>2, <3>3, <3>4, <3>5, <3>6 DEF Next, vars
  <2>2. Present(redis)' \subseteq Present(redis)
    <3>1. redis' = redis \/ redis' = Empty
      <4>1. AdminStep => redis' = redis \/ redis' = Empty
        BY DEF AdminStep, ExportOpen, ExportFill, ExportDone, ImportFile, ImportDone, PushEntry, PushDone, PurgeStep, stores
      <4> QED BY <1>2, <4>1 DEF Next, vars, stores, Upsert, Delete, FetchEntries, InsertCache, ExpireCache, StartExport,
                                StartImport, StartPurge, FailTask, Crash
    <3> QED BY <3>1 DEF Present, Empty
  <2>3. Reached' \subseteq Reached
    BY <2>1, <2>2 DEF Reached, AdmittedIds
  <2> QED BY <1>0, <2>3, FewerReached DEF LimitInv
<1> QED BY <1>1, <1>2

\* For any limit and any number of tasks at once, however they overlap, and through failures and
\* crashes: the checks of upsert_entry let the hash outgrow its limit by no more than the other
\* tasks that run beside the last one let in.
THEOREM LimitAlmostKept == Spec => []OvershootBounded
<1>1. Init => LimitInv
  <2> SUFFICES ASSUME Init PROVE LimitInv
    OBVIOUS
  <2>1. Reached = {}
    BY DEF Init, Reached, AdmittedIds, Admitted, Present, Empty
  <2> QED BY <2>1, TypeInit, FS_EmptySet, ConstantsAssumption DEF LimitInv
<1>2. LimitInv => OvershootBounded
  <2> SUFFICES ASSUME LimitInv PROVE OvershootBounded
    OBVIOUS
  <2>1. Reached \subseteq Ids /\ Present(redis) \subseteq Reached
    BY ReachedFinite DEF Reached, LimitInv
  <2> QED BY <2>1, FewerReached DEF LimitInv, OvershootBounded
<1> QED BY <1>1, <1>2, LimitStep, PTL DEF Spec
-----------------------------------------------------------------------------
(* One write of an entry at a time. *)

StoringPCs == {"patch", "hlen", "hexists", "hset"}
FilePCs == {"create", "fill", "rename"}
DeletingPCs == {"uncache", "hdel", "unlink"}
PurgePCs == {"purge_sqlite", "purge_dir", "purge_cache", "purge_del", "purge_files"}

\* An entry has one task at a time, and its temporary file is that task's.
OneEach == \A t, u \in tasks : t.id = u.id => t = u
FileInv(t) ==
  /\ t.pc \in StoringPCs \cup FilePCs => t.n # 0
  /\ t.pc = "fill" => tmp[t.id].ino = t.ino /\ t.ino # 0 /\ ~tmp[t.id].full
  /\ t.pc = "rename" => tmp[t.id].ino # 0 /\ tmp[t.id].data = t.n

\* What a reader has fetched is what Redis holds: nothing writes until the copy is cached.
ReaderInv == reader # {} => tasks = {} /\ admin = Idle /\ reader = {redis}

AdminInv ==
  /\ admin.pc = "idle" => admin = Idle
  /\ asked = 0 => admin = Idle
  /\ admin.pc \notin {"idle", "push"} => tasks = {}
  /\ admin.pc \in {"push", "export_open", "export_fill"} => admin.snap = sqlite /\ admin.todo \subseteq Present(sqlite)
  /\ admin.pc = "push" => \A t \in tasks : t.id \notin admin.todo
  /\ admin.open # {} => admin.pc = "export_fill"
  /\ \A i \in admin.open : mirror[i].ino # 0 /\ admin.open = {i}
  /\ admin.pc \in PurgePCs \ {"purge_sqlite"} => sqlite = Empty
  /\ admin.pc \in {"purge_del", "purge_files"} => cache = {}
  /\ admin.pc = "purge_files" => redis = Empty /\ refused = {}

\* A task brings the stores one by one to what SQLite answers.
StoresInv(t) ==
  /\ t.pc \in StoringPCs \cup FilePCs => sqlite[t.id] = t.n
  /\ t.pc \in FilePCs => redis[t.id] = t.n
  /\ t.pc \in DeletingPCs => sqlite[t.id] = 0
  /\ t.pc = "unlink" => redis[t.id] = 0
  /\ t.pc \in StoringPCs \ {"patch"} => \A entries \in cache : entries[t.id] = t.n
  /\ t.pc \in {"hdel", "unlink"} => cache = {}

RestAgrees(i) ==
  /\ redis[i] = sqlite[i]
  /\ i \notin admin.open => mirror[i].data = redis[i]

CacheInv(i) == \A entries \in cache : entries[i] = redis[i] \/ \E t \in tasks : t.id = i /\ t.pc \in StoringPCs

AgreeInv ==
  /\ \A t \in tasks : StoresInv(t)
  /\ \A i \in Ids \ refused :
       /\ CacheInv(i)
       /\ admin.pc \notin PurgePCs /\ ~Busy(i) => RestAgrees(i)

\* What holds through failures, too.
FilesInv == (\A t \in tasks : FileInv(t)) /\ MirrorReadable

SerialInv == TypeOK /\ OneEach /\ FilesInv /\ ReaderInv /\ AdminInv /\ (faults = 0 => AgreeInv)

\* Whatever it does, a task writes neither SQLite nor what a reader fetched, stays the task of its
\* entry, and ends the request it is part of or leaves it alone.
LEMMA TaskMoves ==
  ASSUME TypeOK, NEW t \in tasks, TaskStep(t)
  PROVE  /\ UNCHANGED <<sqlite, reader, asked, faults, writes>>
         /\ Ends(t) \/ \E u : u.id = t.id /\ Goes(t, u)
         /\ admin' \in {admin, Idle}
<1>0. t \in Task
  BY DEF TypeOK, TasksType
<1>1. UNCHANGED <<sqlite, reader, asked, faults, writes>> /\ admin' \in {admin, Idle}
  BY DEF TaskStep, PatchCache, ReadCount, CheckExists, StoreEntry, CreateTmp, FillTmp, RenameTmp, DropCache,
         DeleteEntry, DeleteMirror, stores
<1>2. CASE Ends(t)
  BY <1>1, <1>2
<1>3. CASE ~Ends(t)
  <2>1. \A pc : [t EXCEPT !.pc = pc].id = t.id
    BY <1>0 DEF Task
  <2>2. CASE ReadCount(t)
    <3>1. [t EXCEPT !.count = Cardinality(Present(redis)), !.pc = "hexists"].id = t.id
      BY <1>0 DEF Task
    <3> QED BY <1>1, <2>2, <3>1 DEF ReadCount
  <2>3. CASE StoreEntry(t)
    <3>1. [t EXCEPT !.count = 0, !.inline = FALSE, !.pc = "create"].id = t.id
      BY <1>0 DEF Task
    <3> QED BY <1>1, <2>3, <3>1 DEF StoreEntry
  <2>4. CASE CreateTmp(t)
    <3>1. PICK ino : Goes(t, [t EXCEPT !.ino = ino, !.pc = after_create(t)])
      BY <2>4 DEF CreateTmp
    <3>2. [t EXCEPT !.ino = ino, !.pc = after_create(t)].id = t.id
      BY <1>0 DEF Task
    <3> QED BY <1>1, <3>1, <3>2
  <2>5. CASE ~(ReadCount(t) \/ StoreEntry(t) \/ CreateTmp(t))
    <3>1. \E pc \in PCs : Goes(t, [t EXCEPT !.pc = pc])
      BY <1>3, <2>5 DEF TaskStep, PatchCache, CheckExists, FillTmp, RenameTmp, DropCache, DeleteEntry, DeleteMirror, PCs
    <3> QED BY <1>1, <2>1, <3>1
  <2> QED BY <2>2, <2>3, <2>4, <2>5
<1> QED BY <1>2, <1>3

\* The other tasks are those of the other entries.
LEMMA OthersStay ==
  ASSUME OneEach, NEW t \in tasks, Ends(t) \/ \E u : u.id = t.id /\ Goes(t, u)
  PROVE  /\ OneEach'
         /\ \A v \in tasks' : (v \in tasks /\ v.id # t.id) \/ (Goes(t, v) /\ v.id = t.id)
         /\ \A v \in tasks : v.id # t.id => v \in tasks'
         /\ \A i \in Ids : i # t.id => (Busy(i)' <=> Busy(i))
<1>1. CASE Ends(t)
  <2>1. tasks' = tasks \ {t} /\ \A v \in tasks : v # t => v.id # t.id
    BY <1>1 DEF Ends, OneEach
  <2> QED BY <2>1 DEF OneEach, Busy
<1>2. CASE \E u : u.id = t.id /\ Goes(t, u)
  <2>1. PICK u : u.id = t.id /\ tasks' = (tasks \ {t}) \cup {u} /\ Goes(t, u)
    BY <1>2 DEF Goes
  <2>2. \A v \in tasks : v # t => v.id # t.id
    BY DEF OneEach
  <2>3. OneEach'
    BY <2>1, <2>2 DEF OneEach
  <2>4. \A i \in Ids : i # t.id => (Busy(i)' <=> Busy(i))
    BY <2>1, <2>2 DEF Busy
  <2> QED BY <2>1, <2>2, <2>3, <2>4
<1> QED BY <1>1, <1>2

LEMMA AdminBeside ==
  ASSUME AdminInv, tasks # {}, UNCHANGED <<sqlite, asked>>, admin' \in {admin, Idle},
         \A v \in tasks' : \E w \in tasks : w.id = v.id
  PROVE  AdminInv'
<1>1. admin.pc \in {"idle", "push"}
  BY DEF AdminInv
<1>2. CASE admin' = Idle
  BY <1>2 DEF AdminInv, Idle, PurgePCs
<1>3. CASE admin' = admin
  <2>1. admin.open = {}
    BY <1>1 DEF AdminInv
  <2>2. admin.pc = "push" => admin.snap = sqlite /\ admin.todo \subseteq Present(sqlite) /\ \A t \in tasks : t.id \notin admin.todo
    BY DEF AdminInv
  <2> QED BY <1>1, <1>3, <2>1, <2>2 DEF AdminInv, PurgePCs, Present
<1> QED BY <1>2, <1>3
\* A step of a task that disturbs no other entry: only its own entry has to be looked at.
LEMMA AgreeBeside ==
  ASSUME TypeOK, OneEach, AdminInv, AgreeInv, NEW t \in tasks,
         Ends(t) \/ \E u : u.id = t.id /\ Goes(t, u),
         UNCHANGED sqlite, admin' \in {admin, Idle}, refused \subseteq refused' \cup {t.id},
         \A i \in Ids \ {t.id} : redis'[i] = redis[i] /\ mirror'[i] = mirror[i],
         \A entries \in cache' : \E old \in cache : \A i \in Ids \ {t.id} : entries[i] = old[i],
         \A u \in tasks' : u.id = t.id => StoresInv(u)',
         t.id \notin refused' => CacheInv(t.id)' /\ (~Busy(t.id)' => RestAgrees(t.id)')
  PROVE  AgreeInv'
<1>1. /\ \A v \in tasks' : (v \in tasks /\ v.id # t.id) \/ v.id = t.id
      /\ \A v \in tasks : v.id # t.id => v \in tasks'
      /\ \A i \in Ids : i # t.id => (Busy(i)' <=> Busy(i))
  BY OthersStay
<1>2. tasks \subseteq Task
  BY DEF TypeOK, TasksType
<1>3. admin.pc \notin PurgePCs /\ admin.open = {} /\ admin'.open = {}
  BY DEF AdminInv, PurgePCs, Idle
<1>4. ASSUME NEW v \in tasks' PROVE StoresInv(v)'
  <2>1. CASE v \in tasks /\ v.id # t.id
    <3>1. StoresInv(v) /\ v.id \in Ids \ {t.id}
      BY <1>2, <2>1 DEF AgreeInv, Task
    <3>2. redis'[v.id] = redis[v.id] /\ sqlite' = sqlite
      BY <3>1
    <3>3. (cache = {} => cache' = {}) /\ \A entries \in cache' : \E old \in cache : entries[v.id] = old[v.id]
      BY <3>1
    <3> QED BY <3>1, <3>2, <3>3 DEF StoresInv
  <2> QED BY <1>1, <2>1
<1>5. ASSUME NEW i \in Ids, i \notin refused' PROVE CacheInv(i)' /\ (~Busy(i)' => RestAgrees(i)')
  <2>1. CASE i # t.id
    <3>1. CacheInv(i) /\ (~Busy(i) => RestAgrees(i))
      BY <1>3, <1>5, <2>1 DEF AgreeInv
    <3>2. redis'[i] = redis[i] /\ mirror'[i] = mirror[i] /\ sqlite' = sqlite
      BY <2>1
    <3>3. \A entries \in cache' : \E old \in cache : entries[i] = old[i]
      BY <2>1
    <3>4. CacheInv(i)'
      BY <1>1, <2>1, <3>1, <3>2, <3>3 DEF CacheInv
    <3>5. ~Busy(i)' => RestAgrees(i)'
      BY <1>1, <1>3, <2>1, <3>1, <3>2 DEF RestAgrees
    <3> QED BY <3>4, <3>5
  <2> QED BY <1>5, <2>1
<1> QED BY <1>4, <1>5 DEF AgreeInv

LEMMA FilesBeside ==
  ASSUME TypeOK, OneEach, FilesInv, NEW t \in tasks, Ends(t) \/ \E u : u.id = t.id /\ Goes(t, u),
         UNCHANGED asked, \A i \in Ids \ {t.id} : tmp'[i] = tmp[i] /\ mirror'[i] = mirror[i],
         \A u \in tasks' : u.id = t.id => FileInv(u)',
         asked = 0 => (mirror'[t.id].ino # 0 => mirror'[t.id].data # 0)
  PROVE  FilesInv'
<1>1. \A v \in tasks' : (v \in tasks /\ v.id # t.id) \/ v.id = t.id
  BY OthersStay
<1>2. tasks \subseteq Task
  BY DEF TypeOK, TasksType
<1>3. ASSUME NEW v \in tasks' PROVE FileInv(v)'
  <2>1. CASE v \in tasks /\ v.id # t.id
    BY <1>2, <2>1 DEF FilesInv, FileInv, Task
  <2> QED BY <1>1, <2>1
<1>4. MirrorReadable'
  BY DEF FilesInv, MirrorReadable
<1> QED BY <1>3, <1>4 DEF FilesInv

LEMMA OwnTask ==
  ASSUME OneEach, NEW t \in tasks, NEW u, u.id = t.id, Goes(t, u)
  PROVE  \A v \in tasks' : v.id = t.id => v = u
BY DEF OneEach, Goes
LEMMA SerialTask == ASSUME SerialInv, NEW t \in tasks, TaskStep(t) PROVE SerialInv'
<1>0. /\ TypeOK /\ TypeOK' /\ OneEach /\ FilesInv /\ AdminInv /\ t \in Task /\ FileInv(t) /\ reader = {}
      /\ t.id \in Ids
  BY TypeTask DEF SerialInv, TypeOK, TasksType, FilesInv, ReaderInv, Task
<1>1. /\ UNCHANGED <<sqlite, reader, asked, faults, writes>> /\ admin' \in {admin, Idle}
      /\ Ends(t) \/ \E u : u.id = t.id /\ Goes(t, u)
  BY <1>0, TaskMoves
<1>2. OneEach' /\ ReaderInv' /\ \A v \in tasks' : \E w \in tasks : w.id = v.id
  BY <1>0, <1>1, OthersStay DEF ReaderInv
<1>3. AdminInv'
  BY <1>0, <1>1, <1>2, AdminBeside
<1>4. SUFFICES FilesInv' /\ (AgreeInv => AgreeInv')
  BY <1>0, <1>1, <1>2, <1>3 DEF SerialInv
<1>5. ASSUME AgreeInv PROVE StoresInv(t) /\ (t.id \notin refused => CacheInv(t.id))
  BY <1>0, <1>5 DEF AgreeInv
<1>6. CASE PatchCache(t)
  <2>1. PICK u : u = [t EXCEPT !.pc = "hlen"]
    OBVIOUS
  <2>2. Goes(t, u) /\ u.id = t.id /\ u.n = t.n /\ u.pc = "hlen" /\ t.pc = "patch" /\ u \in tasks'
    BY <1>0, <1>6, <2>1 DEF PatchCache, Goes, Task
  <2>3. /\ UNCHANGED <<redis, mirror, tmp, refused, admin>>
        /\ \A entries \in cache' : entries[t.id] = t.n /\ \E old \in cache : \A i \in Ids \ {t.id} : entries[i] = old[i]
    BY <1>0, <1>6 DEF PatchCache, patch, TypeOK, Entries, files
  <2>4. \A v \in tasks' : v.id = t.id => v = u
    BY <1>0, <2>2, OwnTask
  <2>5. FileInv(u)'
    BY <1>0, <2>2 DEF FileInv, StoringPCs, FilePCs
  <2>6. FilesInv'
    BY <1>0, <1>1, <2>3, <2>4, <2>5, FilesBeside DEF FilesInv, MirrorReadable
  <2>7. ASSUME AgreeInv PROVE AgreeInv'
    <3>1. StoresInv(u)'
      BY <1>1, <1>5, <2>2, <2>3, <2>7 DEF StoresInv, StoringPCs, FilePCs, DeletingPCs
    <3>2. CacheInv(t.id)' /\ Busy(t.id)'
      BY <2>2 DEF CacheInv, Busy, StoringPCs
    <3> QED BY <1>0, <1>1, <2>3, <2>4, <2>7, <3>1, <3>2, AgreeBeside
  <2> QED BY <2>6, <2>7
<1>7. CASE ReadCount(t)
  <2>1. PICK u : u = [t EXCEPT !.count = Cardinality(Present(redis)), !.pc = "hexists"]
    OBVIOUS
  <2>2. Goes(t, u) /\ u.id = t.id /\ u.n = t.n /\ u.pc = "hexists" /\ t.pc = "hlen" /\ u \in tasks'
    BY <1>0, <1>7, <2>1 DEF ReadCount, Goes, Task
  <2>3. UNCHANGED <<redis, cache, mirror, tmp, refused, admin>>
    BY <1>7 DEF ReadCount, stores, files
  <2>4. \A v \in tasks' : v.id = t.id => v = u
    BY <1>0, <2>2, OwnTask
  <2>5. FileInv(u)'
    BY <1>0, <2>2 DEF FileInv, StoringPCs, FilePCs
  <2>6. FilesInv'
    BY <1>0, <1>1, <2>3, <2>4, <2>5, FilesBeside DEF FilesInv, MirrorReadable
  <2>7. ASSUME AgreeInv PROVE AgreeInv'
    <3>1. StoresInv(u)'
      BY <1>1, <1>5, <2>2, <2>3, <2>7 DEF StoresInv, StoringPCs, FilePCs, DeletingPCs
    <3>2. CacheInv(t.id)' /\ Busy(t.id)'
      BY <2>2 DEF CacheInv, Busy, StoringPCs
    <3> QED BY <1>0, <1>1, <2>3, <2>4, <2>7, <3>1, <3>2, AgreeBeside
  <2> QED BY <2>6, <2>7
<1>8. CASE CheckExists(t)
  <2>1. UNCHANGED <<redis, cache, mirror, tmp>> /\ t.pc = "hexists" /\ refused \subseteq refused' \cup {t.id}
    BY <1>8 DEF CheckExists, stores, files
  <2>2. CASE Ends(t) /\ t.id \in refused'
    <3>1. \A v \in tasks' : v.id # t.id
      BY <1>0, <2>2 DEF Ends, OneEach
    <3>2. FilesInv'
      BY <1>0, <1>1, <2>1, <3>1, FilesBeside DEF FilesInv, MirrorReadable
    <3>3. AgreeInv => AgreeInv'
      BY <1>0, <1>1, <2>1, <2>2, <3>1, AgreeBeside
    <3> QED BY <3>2, <3>3
  <2>3. CASE Goes(t, [t EXCEPT !.pc = "hset"])
    <3>1. PICK u : u = [t EXCEPT !.pc = "hset"]
      OBVIOUS
    <3>2. Goes(t, u) /\ u.id = t.id /\ u.n = t.n /\ u.pc = "hset" /\ u \in tasks'
      BY <1>0, <2>3, <3>1 DEF Goes, Task
    <3>3. \A v \in tasks' : v.id = t.id => v = u
      BY <1>0, <3>2, OwnTask
    <3>4. FileInv(u)'
      BY <1>0, <2>1, <3>2 DEF FileInv, StoringPCs, FilePCs
    <3>5. FilesInv'
      BY <1>0, <1>1, <2>1, <3>3, <3>4, FilesBeside DEF FilesInv, MirrorReadable
    <3>6. ASSUME AgreeInv PROVE AgreeInv'
      <4>1. StoresInv(u)'
        BY <1>1, <1>5, <2>1, <3>2, <3>6 DEF StoresInv, StoringPCs, FilePCs, DeletingPCs
      <4>2. CacheInv(t.id)' /\ Busy(t.id)'
        BY <3>2 DEF CacheInv, Busy, StoringPCs
      <4> QED BY <1>0, <1>1, <2>1, <3>3, <3>6, <4>1, <4>2, AgreeBeside
    <3> QED BY <3>5, <3>6
  <2> QED BY <1>8, <2>2, <2>3 DEF CheckExists
<1>9. CASE StoreEntry(t)
  <2>1. PICK u : u = [t EXCEPT !.count = 0, !.inline = FALSE, !.pc = "create"]
    OBVIOUS
  <2>2. Goes(t, u) /\ u.id = t.id /\ u.n = t.n /\ u.pc = "create" /\ t.pc = "hset" /\ u \in tasks'
    BY <1>0, <1>9, <2>1 DEF StoreEntry, Goes, Task
  <2>3. UNCHANGED <<cache, mirror, tmp, admin>> /\ refused' = refused \ {t.id} /\ redis' = [redis EXCEPT ![t.id] = t.n]
    BY <1>9 DEF StoreEntry, files
  <2>4. redis'[t.id] = t.n /\ \A i \in Ids \ {t.id} : redis'[i] = redis[i]
    BY <1>0, <2>3 DEF TypeOK, Entries
  <2>5. \A v \in tasks' : v.id = t.id => v = u
    BY <1>0, <2>2, OwnTask
  <2>6. FileInv(u)'
    BY <1>0, <2>2 DEF FileInv, StoringPCs, FilePCs
  <2>7. FilesInv'
    BY <1>0, <1>1, <2>3, <2>5, <2>6, FilesBeside DEF FilesInv, MirrorReadable
  <2>8. ASSUME AgreeInv PROVE AgreeInv'
    <3>1. StoresInv(u)'
      BY <1>1, <1>5, <2>2, <2>3, <2>4, <2>8 DEF StoresInv, StoringPCs, FilePCs, DeletingPCs
    <3>2. CacheInv(t.id)' /\ Busy(t.id)'
      BY <1>5, <2>2, <2>3, <2>4, <2>8 DEF StoresInv, CacheInv, Busy, StoringPCs
    <3> QED BY <1>0, <1>1, <2>3, <2>4, <2>5, <2>8, <3>1, <3>2, AgreeBeside
  <2> QED BY <2>7, <2>8
<1>10. CASE CreateTmp(t)
  <2>1. PICK ino : ino = IF tmp[t.id].ino = 0 THEN t.n ELSE tmp[t.id].ino
    OBVIOUS
  <2>2. PICK u : u = [t EXCEPT !.ino = ino, !.pc = "fill"]
    OBVIOUS
  <2>3. /\ Goes(t, u) /\ u.id = t.id /\ u.n = t.n /\ u.ino = ino /\ u.pc = "fill" /\ t.pc = "create" /\ u \in tasks'
        /\ ino # 0
    BY <1>0, <1>10, <2>1, <2>2 DEF CreateTmp, Goes, Task, after_create, FileInv, StoringPCs, FilePCs
  <2>4. UNCHANGED <<redis, cache, mirror, refused, admin>> /\ tmp' = [tmp EXCEPT ![t.id] = [ino |-> ino, data |-> 0, full |-> FALSE]]
    BY <1>10, <2>1 DEF CreateTmp, stores
  <2>5. \A v \in tasks' : v.id = t.id => v = u
    BY <1>0, <2>3, OwnTask
  <2>6. FileInv(u)' /\ \A i \in Ids \ {t.id} : tmp'[i] = tmp[i]
    BY <1>0, <2>3, <2>4 DEF FileInv, StoringPCs, FilePCs, TypeOK
  <2>7. FilesInv'
    BY <1>0, <1>1, <2>4, <2>5, <2>6, FilesBeside DEF FilesInv, MirrorReadable
  <2>8. ASSUME AgreeInv PROVE AgreeInv'
    <3>1. StoresInv(u)'
      BY <1>1, <1>5, <2>3, <2>4, <2>8 DEF StoresInv, StoringPCs, FilePCs, DeletingPCs
    <3>2. t.id \notin refused' => CacheInv(t.id)' /\ Busy(t.id)'
      <4>1. ~\E v \in tasks : v.id = t.id /\ v.pc \in StoringPCs
        BY <1>0, <2>3 DEF OneEach, StoringPCs
      <4> QED BY <1>5, <2>3, <2>4, <2>8, <4>1 DEF CacheInv, Busy
    <3> QED BY <1>0, <1>1, <2>4, <2>5, <2>8, <3>1, <3>2, AgreeBeside
  <2> QED BY <2>7, <2>8
<1>11. CASE FillTmp(t)
  <2>1. PICK u : u = [t EXCEPT !.pc = "rename"]
    OBVIOUS
  <2>2. /\ Goes(t, u) /\ u.id = t.id /\ u.n = t.n /\ u.ino = t.ino /\ u.pc = "rename" /\ t.pc = "fill" /\ u \in tasks'
    BY <1>0, <1>11, <2>1 DEF FillTmp, Goes, Task
  <2>3. tmp[t.id].ino = t.ino /\ t.ino # 0 /\ ~tmp[t.id].full /\ t.n # 0 /\ tmp[t.id] \in File
    BY <1>0, <2>2 DEF FileInv, StoringPCs, FilePCs, TypeOK
  <2>4. /\ UNCHANGED <<redis, cache, mirror, refused, admin>>
        /\ tmp' = [tmp EXCEPT ![t.id] = [tmp[t.id] EXCEPT !.data = t.n, !.full = TRUE]]
    BY <1>11, <2>3 DEF FillTmp, stores, Filled
  <2>5. \A v \in tasks' : v.id = t.id => v = u
    BY <1>0, <2>2, OwnTask
  <2>6. FileInv(u)' /\ \A i \in Ids \ {t.id} : tmp'[i] = tmp[i]
    BY <1>0, <2>2, <2>3, <2>4 DEF FileInv, StoringPCs, FilePCs, TypeOK, File
  <2>7. FilesInv'
    BY <1>0, <1>1, <2>4, <2>5, <2>6, FilesBeside DEF FilesInv, MirrorReadable
  <2>8. ASSUME AgreeInv PROVE AgreeInv'
    <3>1. StoresInv(u)'
      BY <1>1, <1>5, <2>2, <2>4, <2>8 DEF StoresInv, StoringPCs, FilePCs, DeletingPCs
    <3>2. t.id \notin refused' => CacheInv(t.id)' /\ Busy(t.id)'
      <4>1. ~\E v \in tasks : v.id = t.id /\ v.pc \in StoringPCs
        BY <1>0, <2>2 DEF OneEach, StoringPCs
      <4> QED BY <1>5, <2>2, <2>4, <2>8, <4>1 DEF CacheInv, Busy
    <3> QED BY <1>0, <1>1, <2>4, <2>5, <2>8, <3>1, <3>2, AgreeBeside
  <2> QED BY <2>7, <2>8
<1>12. CASE RenameTmp(t)
  <2>1. Ends(t) /\ t.pc = "rename" /\ tmp[t.id].ino # 0 /\ tmp[t.id].data = t.n /\ t.n # 0
    BY <1>0, <1>12 DEF RenameTmp, FileInv, StoringPCs, FilePCs
  <2>2. /\ UNCHANGED <<redis, cache, refused, admin>> /\ mirror' = [mirror EXCEPT ![t.id] = tmp[t.id]]
        /\ tmp' = [tmp EXCEPT ![t.id] = NoFile]
    BY <1>12, <2>1 DEF RenameTmp, stores
  <2>3. mirror'[t.id].data = t.n /\ \A i \in Ids \ {t.id} : tmp'[i] = tmp[i] /\ mirror'[i] = mirror[i]
    BY <1>0, <2>1, <2>2 DEF TypeOK
  <2>4. \A v \in tasks' : v.id # t.id
    BY <1>0, <2>1 DEF Ends, OneEach
  <2>5. FilesInv'
    BY <1>0, <1>1, <2>1, <2>3, <2>4, FilesBeside
  <2>6. ASSUME AgreeInv PROVE AgreeInv'
    <3>1. redis[t.id] = t.n /\ sqlite[t.id] = t.n
      BY <1>5, <2>1, <2>6 DEF StoresInv, FilePCs
    <3>2. ~\E v \in tasks : v.id = t.id /\ v.pc \in StoringPCs
      BY <1>0, <2>1 DEF OneEach, StoringPCs
    <3>3. t.id \notin refused' => CacheInv(t.id)'
      BY <1>5, <2>2, <2>6, <3>2 DEF CacheInv
    <3>4. RestAgrees(t.id)'
      BY <1>1, <2>2, <2>3, <3>1 DEF RestAgrees
    <3> QED BY <1>0, <1>1, <2>2, <2>3, <2>4, <2>6, <3>3, <3>4, AgreeBeside
  <2> QED BY <2>5, <2>6
<1>13. CASE DropCache(t)
  <2>1. PICK u : u = [t EXCEPT !.pc = "hdel"]
    OBVIOUS
  <2>2. Goes(t, u) /\ u.id = t.id /\ u.n = t.n /\ u.pc = "hdel" /\ t.pc = "uncache" /\ u \in tasks'
    BY <1>0, <1>13, <2>1 DEF DropCache, Goes, Task
  <2>3. UNCHANGED <<redis, mirror, tmp, refused, admin>> /\ cache' = {}
    BY <1>13 DEF DropCache, files
  <2>4. \A v \in tasks' : v.id = t.id => v = u
    BY <1>0, <2>2, OwnTask
  <2>5. FileInv(u)'
    BY <1>0, <2>2 DEF FileInv, StoringPCs, FilePCs
  <2>6. FilesInv'
    BY <1>0, <1>1, <2>3, <2>4, <2>5, FilesBeside DEF FilesInv, MirrorReadable
  <2>7. ASSUME AgreeInv PROVE AgreeInv'
    <3>1. StoresInv(u)'
      BY <1>1, <1>5, <2>2, <2>3, <2>7 DEF StoresInv, StoringPCs, FilePCs, DeletingPCs
    <3>2. CacheInv(t.id)' /\ Busy(t.id)'
      BY <2>2, <2>3 DEF CacheInv, Busy
    <3> QED BY <1>0, <1>1, <2>3, <2>4, <2>7, <3>1, <3>2, AgreeBeside
  <2> QED BY <2>6, <2>7
<1>14. CASE DeleteEntry(t)
  <2>1. PICK u : u = [t EXCEPT !.pc = "unlink"]
    OBVIOUS
  <2>2. Goes(t, u) /\ u.id = t.id /\ u.n = t.n /\ u.pc = "unlink" /\ t.pc = "hdel" /\ u \in tasks'
    BY <1>0, <1>14, <2>1 DEF DeleteEntry, Goes, Task
  <2>3. UNCHANGED <<cache, mirror, tmp, admin>> /\ refused' = refused \ {t.id} /\ redis' = [redis EXCEPT ![t.id] = 0]
    BY <1>14 DEF DeleteEntry, files
  <2>4. redis'[t.id] = 0 /\ \A i \in Ids \ {t.id} : redis'[i] = redis[i]
    BY <1>0, <2>3 DEF TypeOK, Entries
  <2>5. \A v \in tasks' : v.id = t.id => v = u
    BY <1>0, <2>2, OwnTask
  <2>6. FileInv(u)'
    BY <1>0, <2>2 DEF FileInv, StoringPCs, FilePCs
  <2>7. FilesInv'
    BY <1>0, <1>1, <2>3, <2>5, <2>6, FilesBeside DEF FilesInv, MirrorReadable
  <2>8. ASSUME AgreeInv PROVE AgreeInv'
    <3>1. StoresInv(u)' /\ cache' = {}
      BY <1>1, <1>5, <2>2, <2>3, <2>4, <2>8 DEF StoresInv, StoringPCs, FilePCs, DeletingPCs
    <3>2. CacheInv(t.id)' /\ Busy(t.id)'
      BY <2>2, <3>1 DEF CacheInv, Busy
    <3> QED BY <1>0, <1>1, <2>3, <2>4, <2>5, <2>8, <3>1, <3>2, AgreeBeside
  <2> QED BY <2>7, <2>8
<1>15. CASE DeleteMirror(t)
  <2>1. Ends(t) /\ t.pc = "unlink" /\ UNCHANGED <<redis, cache, tmp, refused, admin>> /\ mirror' = [mirror EXCEPT ![t.id] = NoFile]
    BY <1>15 DEF DeleteMirror, stores, unlink
  <2>2. mirror'[t.id] = NoFile /\ \A i \in Ids \ {t.id} : mirror'[i] = mirror[i]
    BY <1>0, <2>1 DEF TypeOK
  <2>3. \A v \in tasks' : v.id # t.id
    BY <1>0, <2>1 DEF Ends, OneEach
  <2>4. FilesInv'
    BY <1>0, <1>1, <2>1, <2>2, <2>3, FilesBeside DEF NoFile
  <2>5. ASSUME AgreeInv PROVE AgreeInv'
    <3>1. redis[t.id] = 0 /\ sqlite[t.id] = 0 /\ cache = {}
      BY <1>5, <2>1, <2>5 DEF StoresInv, DeletingPCs
    <3>2. CacheInv(t.id)' /\ RestAgrees(t.id)'
      BY <1>1, <2>1, <2>2, <3>1 DEF CacheInv, RestAgrees, NoFile
    <3> QED BY <1>0, <1>1, <2>1, <2>2, <2>3, <2>5, <3>2, AgreeBeside
  <2> QED BY <2>4, <2>5
<1> QED BY <1>6, <1>7, <1>8, <1>9, <1>10, <1>11, <1>12, <1>13, <1>14, <1>15 DEF TaskStep
LEMMA SerialInit == Init => SerialInv
<1> SUFFICES ASSUME Init PROVE SerialInv
  OBVIOUS
<1>1. TypeOK
  BY TypeInit
<1>2. OneEach /\ FilesInv /\ ReaderInv
  BY DEF Init, OneEach, FilesInv, ReaderInv, MirrorReadable, NoFiles, NoFile
<1>3. AdminInv
  BY DEF Init, AdminInv, Idle, PurgePCs
<1>4. AgreeInv
  BY DEF Init, AgreeInv, CacheInv, RestAgrees, Empty, NoFiles, NoFile
<1> QED BY <1>1, <1>2, <1>3, <1>4 DEF SerialInv

\* A request to write an entry that no task has: SQLite first, then the task that follows.
LEMMA SerialWrite ==
  ASSUME SerialInv, TypeOK', NEW id \in Ids, ~Busy(id), admin = Idle, reader = {},
         NEW u \in Task, u.id = id, tasks' = tasks \cup {u},
         UNCHANGED <<redis, cache, reader, files, admin, asked, faults, refused>>,
         NEW n, sqlite' = [sqlite EXCEPT ![id] = n],
         \/ u.pc = "patch" /\ u.n = n /\ n # 0
         \/ u.pc = "uncache" /\ n = 0
  PROVE  SerialInv'
<1>0. TypeOK /\ OneEach /\ FilesInv /\ AdminInv /\ admin.open = {} /\ admin.pc = "idle"
  BY DEF SerialInv, Idle
<1>1. OneEach' /\ ReaderInv'
  BY <1>0 DEF OneEach, Busy, ReaderInv
<1>2. FilesInv'
  BY <1>0 DEF FilesInv, FileInv, MirrorReadable, files, StoringPCs, FilePCs
<1>3. AdminInv'
  BY <1>0 DEF AdminInv, PurgePCs
<1>4. ASSUME AgreeInv PROVE AgreeInv'
  <2>1. sqlite'[id] = n /\ \A i \in Ids \ {id} : sqlite'[i] = sqlite[i]
    BY <1>0 DEF TypeOK, Entries
  <2>2. ASSUME NEW v \in tasks' PROVE StoresInv(v)'
    <3>1. CASE v = u
      BY <2>1, <3>1 DEF StoresInv, StoringPCs, FilePCs, DeletingPCs
    <3>2. CASE v # u
      <4>1. StoresInv(v) /\ v.id \in Ids \ {id}
        BY <1>0, <1>4, <3>2 DEF AgreeInv, Busy, TypeOK, TasksType, Task
      <4> QED BY <2>1, <4>1 DEF StoresInv
    <3> QED BY <3>1, <3>2
  <2>3. ASSUME NEW i \in Ids \ refused PROVE CacheInv(i)' /\ (~Busy(i)' => RestAgrees(i)')
    <3>1. CacheInv(i) /\ (~Busy(i) => RestAgrees(i))
      BY <1>0, <1>4 DEF AgreeInv, PurgePCs
    <3>2. CacheInv(i)'
      BY <3>1 DEF CacheInv
    <3>3. ~Busy(i)' => ~Busy(i) /\ i # id
      BY DEF Busy
    <3> QED BY <2>1, <3>1, <3>2, <3>3 DEF RestAgrees, files
  <2> QED BY <2>2, <2>3 DEF AgreeInv
<1> QED BY <1>1, <1>2, <1>3, <1>4 DEF SerialInv

\* No task runs beside a request that is neither a push nor idle, and all entries agree.
LEMMA Quiet ==
  ASSUME SerialInv, AgreeInv, tasks = {}, admin.pc \notin PurgePCs, NEW i \in Ids \ refused
  PROVE  RestAgrees(i) /\ \A entries \in cache : entries[i] = redis[i]
BY DEF AgreeInv, CacheInv, Busy

\* A request being served was asked for; it runs beside no read and, unless it is a push, no task.
LEMMA Served ==
  ASSUME SerialInv, admin.pc # "idle"
  PROVE  /\ asked # 0 /\ reader = {}
         /\ admin.pc # "push" => tasks = {}
         /\ admin.pc # "export_fill" => admin.open = {}
<1>1. admin # Idle
  BY DEF Idle
<1> QED BY <1>1 DEF SerialInv, AdminInv, ReaderInv

LEMMA SerialExport ==
  ASSUME SerialInv, TypeOK', ExportOpen \/ ExportFill \/ ExportDone PROVE SerialInv'
<1>0. TypeOK /\ OneEach /\ FilesInv /\ AdminInv /\ admin \in Admin
  BY DEF SerialInv, TypeOK
<1>1. /\ admin.pc \in {"export_open", "export_fill"} /\ tasks = {} /\ reader = {} /\ asked # 0
      /\ UNCHANGED <<sqlite, redis, cache, reader, tmp, tasks, asked, faults, refused>>
  <2>1. admin.pc \in {"export_open", "export_fill"}
    BY DEF ExportOpen, ExportFill, ExportDone
  <2>2. UNCHANGED <<sqlite, redis, cache, reader, tmp, tasks, asked, faults, refused>>
    BY DEF ExportOpen, ExportFill, ExportDone, stores, files
  <2> QED BY <2>1, <2>2, Served
<1>2. OneEach' /\ FilesInv' /\ ReaderInv'
  BY <1>0, <1>1 DEF OneEach, FilesInv, ReaderInv, MirrorReadable
<1>3. ASSUME AgreeInv, NEW i \in Ids \ refused
      PROVE redis[i] = sqlite[i] /\ (i \notin admin.open => mirror[i].data = redis[i]) /\ \A entries \in cache : entries[i] = redis[i]
  BY <1>1, <1>3, Quiet DEF RestAgrees, PurgePCs
<1>4. SUFFICES AdminInv' /\ (AgreeInv => \A i \in Ids \ refused : i \notin admin'.open => mirror'[i].data = redis[i])
  <2>1. ASSUME AgreeInv PROVE AgreeInv'
    BY <1>1, <1>3, <1>4, <2>1 DEF AgreeInv, CacheInv, RestAgrees
  <2> QED BY <1>1, <1>2, <1>4, <2>1 DEF SerialInv
<1>5. CASE ExportOpen
  <2>1. PICK id \in admin.todo :
          /\ mirror' = [mirror EXCEPT ![id] = [ino |-> IF @.ino = 0 THEN admin.snap[id] ELSE @.ino, data |-> 0, full |-> FALSE]]
          /\ admin' = [admin EXCEPT !.pc = "export_fill", !.open = {id}, !.todo = @ \ {id}]
    BY <1>5 DEF ExportOpen
  <2>2. admin.snap = sqlite /\ admin.todo \subseteq Present(sqlite) /\ admin.open = {} /\ id \in Ids /\ sqlite[id] # 0
    BY <1>0, <1>5, <2>1 DEF ExportOpen, AdminInv, Present
  <2>3. /\ admin'.pc = "export_fill" /\ admin'.open = {id} /\ admin'.snap = sqlite /\ admin'.todo \subseteq Present(sqlite)
    BY <1>0, <2>1, <2>2 DEF Admin
  <2>4. mirror'[id].ino # 0 /\ \A i \in Ids \ {id} : mirror'[i] = mirror[i]
    BY <1>0, <2>1, <2>2 DEF TypeOK
  <2>5. AdminInv'
    BY <1>1, <2>3, <2>4 DEF AdminInv, PurgePCs, Present
  <2> QED BY <1>3, <2>2, <2>3, <2>4, <2>5
<1>6. CASE ExportFill
  <2>1. PICK id \in admin.open :
          /\ mirror' = [mirror EXCEPT ![id] = IF @.ino = 0 THEN NoFile ELSE [@ EXCEPT !.data = admin.snap[id], !.full = TRUE]]
          /\ admin' = [admin EXCEPT !.pc = "export_open", !.open = {}]
    BY <1>6 DEF ExportFill
  <2>2. /\ admin.snap = sqlite /\ admin.todo \subseteq Present(sqlite) /\ admin.open = {id} /\ id \in Ids
        /\ mirror[id].ino # 0 /\ mirror[id] \in File
    BY <1>0, <1>6, <2>1 DEF ExportFill, AdminInv, Admin, TypeOK
  <2>3. admin'.pc = "export_open" /\ admin'.open = {} /\ admin'.snap = sqlite /\ admin'.todo \subseteq Present(sqlite)
    BY <1>0, <2>1, <2>2 DEF Admin
  <2>4. mirror'[id].data = sqlite[id] /\ \A i \in Ids \ {id} : mirror'[i] = mirror[i]
    BY <1>0, <2>1, <2>2 DEF TypeOK, File
  <2>5. AdminInv'
    BY <1>1, <2>3 DEF AdminInv, PurgePCs, Present
  <2> QED BY <1>3, <2>2, <2>4, <2>5
<1>7. CASE ExportDone
  <2>1. admin' = Idle /\ admin.open = {} /\ mirror' = mirror
    BY <1>0, <1>7 DEF ExportDone, AdminInv, files
  <2>2. AdminInv'
    BY <2>1 DEF AdminInv, Idle, PurgePCs
  <2> QED BY <1>3, <2>1, <2>2
<1> QED BY <1>4, <1>5, <1>6, <1>7

LEMMA SerialImport == ASSUME SerialInv, TypeOK', ImportFile \/ ImportDone PROVE SerialInv'
<1>0. TypeOK /\ OneEach /\ FilesInv /\ AdminInv /\ admin \in Admin
  BY DEF SerialInv, TypeOK
<1>1. /\ admin.pc = "import" /\ tasks = {} /\ reader = {} /\ asked # 0 /\ admin.open = {}
      /\ UNCHANGED <<redis, cache, reader, files, tasks, asked, faults, refused>>
  <2>1. admin.pc = "import"
    BY DEF ImportFile, ImportDone
  <2>2. UNCHANGED <<redis, cache, reader, files, tasks, asked, faults, refused>>
    BY DEF ImportFile, ImportDone, stores
  <2> QED BY <2>1, <2>2, Served
<1>2. OneEach' /\ FilesInv' /\ ReaderInv'
  BY <1>0, <1>1 DEF OneEach, FilesInv, ReaderInv, MirrorReadable, files
<1>3. ASSUME AgreeInv, NEW i \in Ids \ refused
      PROVE redis[i] = sqlite[i] /\ mirror[i].data = redis[i] /\ \A entries \in cache : entries[i] = redis[i]
  BY <1>1, <1>3, Quiet DEF RestAgrees, PurgePCs
<1>4. SUFFICES AdminInv' /\ (AgreeInv => \A i \in Ids \ refused : sqlite'[i] = sqlite[i])
  <2>1. ASSUME AgreeInv PROVE AgreeInv'
    BY <1>1, <1>3, <1>4, <2>1 DEF AgreeInv, CacheInv, RestAgrees, files
  <2> QED BY <1>1, <1>2, <1>4, <2>1 DEF SerialInv
<1>5. CASE ImportFile
  <2>1. PICK id \in admin.todo :
          /\ sqlite' = IF mirror[id].data = 0 THEN sqlite ELSE [sqlite EXCEPT ![id] = mirror[id].data]
          /\ admin' = [admin EXCEPT !.todo = @ \ {id}, !.some = @ \/ mirror[id].data # 0]
    BY <1>5 DEF ImportFile
  <2>2. admin'.pc = "import" /\ admin'.open = {}
    BY <1>0, <1>1, <2>1 DEF Admin
  <2>3. AdminInv'
    BY <1>1, <2>2 DEF AdminInv, PurgePCs
  <2> QED BY <1>0, <1>3, <2>1, <2>3 DEF TypeOK, Entries
<1>6. CASE ImportDone
  <2>1. sqlite' = sqlite
    BY <1>6 DEF ImportDone, stores
  <2>2. CASE admin' = Idle
    BY <2>1, <2>2 DEF AdminInv, Idle, PurgePCs
  <2>3. CASE admin' = [Idle EXCEPT !.pc = "push", !.snap = sqlite, !.todo = Present(sqlite)]
    <3>1. admin'.pc = "push" /\ admin'.snap = sqlite /\ admin'.todo = Present(sqlite) /\ admin'.open = {}
      BY <2>3 DEF Idle
    <3> QED BY <1>1, <2>1, <3>1 DEF AdminInv, PurgePCs
  <2> QED BY <1>6, <2>1, <2>2, <2>3 DEF ImportDone
<1> QED BY <1>4, <1>5, <1>6

LEMMA SerialPush == ASSUME SerialInv, TypeOK', PushEntry \/ PushDone PROVE SerialInv'
<1>0. TypeOK /\ OneEach /\ FilesInv /\ AdminInv /\ admin \in Admin
  BY DEF SerialInv, TypeOK
<1>1. /\ admin.pc = "push" /\ reader = {} /\ asked # 0 /\ admin.open = {} /\ admin.snap = sqlite
      /\ admin.todo \subseteq Present(sqlite) /\ \A t \in tasks : t.id \notin admin.todo
      /\ UNCHANGED <<sqlite, redis, cache, reader, files, asked, faults, refused>>
  <2>1. admin.pc = "push"
    BY DEF PushEntry, PushDone
  <2>2. UNCHANGED <<sqlite, redis, cache, reader, files, asked, faults, refused>>
    BY DEF PushEntry, PushDone, stores
  <2>3. /\ admin.snap = sqlite /\ admin.todo \subseteq Present(sqlite)
        /\ \A t \in tasks : t.id \notin admin.todo
    BY <1>0, <2>1 DEF AdminInv
  <2> QED BY <2>1, <2>2, <2>3, Served
<1>2. CASE PushEntry
  <2>0. PICK id \in admin.todo : /\ tasks' = tasks \cup {UpsertTask(admin.snap[id], id, TRUE)}
                                 /\ admin' = [admin EXCEPT !.todo = @ \ {id}]
    BY <1>2 DEF PushEntry
  <2>1. PICK u : /\ u = UpsertTask(admin.snap[id], id, TRUE) /\ tasks' = tasks \cup {u}
                 /\ admin' = [admin EXCEPT !.todo = @ \ {id}]
    BY <2>0
  <2>2. /\ u.id = id /\ u.n = sqlite[id] /\ u.pc = "patch" /\ id \in Ids /\ sqlite[id] # 0
        /\ \A t \in tasks : t.id # id
    BY <1>1, <2>1 DEF UpsertTask, Present
  <2>3. /\ admin'.pc = "push" /\ admin'.todo = admin.todo \ {id} /\ admin'.snap = sqlite /\ admin'.open = {}
    BY <1>0, <1>1, <2>1 DEF Admin
  <2>4. OneEach' /\ ReaderInv' /\ FilesInv'
    <3>1. OneEach'
      <4>1. \A t \in tasks' : t = u \/ (t \in tasks /\ t.id # u.id)
        BY <2>1, <2>2
      <4> QED BY <1>0, <4>1 DEF OneEach
    <3>2. ReaderInv'
      BY <1>1 DEF ReaderInv
    <3>3. FilesInv'
      <4>1. FileInv(u)'
        BY <2>2 DEF FileInv
      <4>2. MirrorReadable'
        BY <1>1 DEF MirrorReadable
      <4>3. ASSUME NEW t \in tasks PROVE FileInv(t)'
        BY <1>0, <1>1, <4>3 DEF FilesInv, FileInv, files
      <4> QED BY <2>1, <4>1, <4>2, <4>3 DEF FilesInv
    <3> QED BY <3>1, <3>2, <3>3
  <2>5. AdminInv'
    BY <1>1, <2>1, <2>2, <2>3 DEF AdminInv, PurgePCs, Present
  <2>6. ASSUME AgreeInv PROVE AgreeInv'
    <3>1. ASSUME NEW v \in tasks' PROVE StoresInv(v)'
      <4>1. CASE v = u
        BY <1>1, <2>2, <4>1 DEF StoresInv, StoringPCs, FilePCs, DeletingPCs
      <4>2. CASE v # u
        BY <1>1, <2>1, <2>6, <4>2 DEF AgreeInv, StoresInv
      <4> QED BY <4>1, <4>2
    <3>2. ASSUME NEW i \in Ids \ refused PROVE CacheInv(i)' /\ (~Busy(i)' => RestAgrees(i)')
      <4>1. CacheInv(i) /\ (~Busy(i) => RestAgrees(i))
        BY <1>1, <2>6 DEF AgreeInv, PurgePCs
      <4>2. CacheInv(i)'
        BY <1>1, <2>1, <4>1 DEF CacheInv
      <4>3. ~Busy(i)' => ~Busy(i)
        BY <2>1 DEF Busy
      <4> QED BY <1>1, <2>3, <4>1, <4>2, <4>3 DEF RestAgrees, files
    <3> QED BY <1>1, <3>1, <3>2 DEF AgreeInv
  <2> QED BY <1>1, <2>4, <2>5, <2>6 DEF SerialInv
<1>3. CASE PushDone
  <2>1. admin' = Idle /\ tasks' = tasks
    BY <1>3 DEF PushDone
  <2>2. OneEach' /\ ReaderInv' /\ FilesInv'
    BY <1>0, <1>1, <2>1 DEF OneEach, ReaderInv, FilesInv, FileInv, MirrorReadable, files
  <2>3. AdminInv'
    BY <2>1 DEF AdminInv, Idle, PurgePCs
  <2>4. ASSUME AgreeInv PROVE AgreeInv'
    BY <1>1, <2>1, <2>4 DEF AgreeInv, StoresInv, CacheInv, RestAgrees, Busy, Idle, PurgePCs, files
  <2> QED BY <1>1, <2>2, <2>3, <2>4 DEF SerialInv
<1> QED BY <1>2, <1>3

LEMMA SerialPurge == ASSUME SerialInv, TypeOK', PurgeStep PROVE SerialInv'
<1>0. TypeOK /\ OneEach /\ FilesInv /\ AdminInv /\ admin \in Admin
  BY DEF SerialInv, TypeOK
<1>1. /\ admin.pc \in PurgePCs /\ tasks = {} /\ reader = {} /\ asked # 0 /\ admin.open = {}
      /\ UNCHANGED <<reader, tasks, asked, faults>>
  BY <1>0 DEF SerialInv, PurgeStep, AdminInv, ReaderInv, Idle, PurgePCs
<1>2. OneEach' /\ FilesInv' /\ ReaderInv'
  BY <1>0, <1>1 DEF OneEach, FilesInv, ReaderInv, MirrorReadable
<1>3. ASSUME AgreeInv, cache' = cache, redis' = redis, refused' = refused, admin'.pc \in PurgePCs PROVE AgreeInv'
  BY <1>1, <1>3 DEF AgreeInv, CacheInv
<1>4. ASSUME AgreeInv, cache' = {}, admin'.pc \in PurgePCs PROVE AgreeInv'
  BY <1>1, <1>4 DEF AgreeInv, CacheInv
<1>5. SUFFICES AdminInv' /\ (AgreeInv => AgreeInv')
  BY <1>1, <1>2 DEF SerialInv
<1>6. CASE /\ admin.pc = "purge_sqlite" /\ sqlite' = Empty /\ UNCHANGED <<redis, cache, files, refused>>
           /\ admin' = [admin EXCEPT !.pc = "purge_dir"]
  <2>1. admin'.pc = "purge_dir" /\ admin'.open = {}
    BY <1>0, <1>1, <1>6 DEF Admin
  <2>2. AdminInv'
    BY <1>1, <1>6, <2>1 DEF AdminInv, PurgePCs
  <2> QED BY <1>3, <1>6, <2>1, <2>2 DEF PurgePCs
<1>7. CASE /\ admin.pc = "purge_dir" /\ mirror' = NoFiles /\ tmp' = NoFiles /\ UNCHANGED <<sqlite, redis, cache, refused>>
           /\ admin' = [admin EXCEPT !.pc = "purge_cache"]
  <2>1. admin'.pc = "purge_cache" /\ admin'.open = {} /\ sqlite = Empty
    BY <1>0, <1>1, <1>7 DEF Admin, AdminInv, PurgePCs
  <2>2. AdminInv'
    BY <1>1, <1>7, <2>1 DEF AdminInv, PurgePCs
  <2> QED BY <1>3, <1>7, <2>1, <2>2 DEF PurgePCs
<1>8. CASE /\ admin.pc = "purge_cache" /\ cache' = {} /\ UNCHANGED <<sqlite, redis, files, refused>>
           /\ admin' = [admin EXCEPT !.pc = "purge_del"]
  <2>1. admin'.pc = "purge_del" /\ admin'.open = {} /\ sqlite = Empty
    BY <1>0, <1>1, <1>8 DEF Admin, AdminInv, PurgePCs
  <2>2. AdminInv'
    BY <1>1, <1>8, <2>1 DEF AdminInv, PurgePCs
  <2> QED BY <1>4, <1>8, <2>1, <2>2 DEF PurgePCs
<1>9. CASE /\ admin.pc = "purge_del" /\ redis' = Empty /\ refused' = {} /\ UNCHANGED <<sqlite, cache, files>>
           /\ admin' = [admin EXCEPT !.pc = "purge_files"]
  <2>1. admin'.pc = "purge_files" /\ admin'.open = {} /\ sqlite = Empty /\ cache = {}
    BY <1>0, <1>1, <1>9 DEF Admin, AdminInv, PurgePCs
  <2>2. AdminInv'
    BY <1>1, <1>9, <2>1 DEF AdminInv, PurgePCs
  <2> QED BY <1>4, <1>9, <2>1, <2>2 DEF PurgePCs
<1>10. CASE /\ admin.pc = "purge_files" /\ mirror' = NoFiles /\ tmp' = NoFiles /\ UNCHANGED <<sqlite, redis, cache, refused>>
            /\ admin' = Idle
  <2>1. sqlite = Empty /\ cache = {} /\ redis = Empty
    BY <1>0, <1>10 DEF AdminInv, PurgePCs
  <2>2. AdminInv'
    BY <1>10 DEF AdminInv, Idle, PurgePCs
  <2>3. AgreeInv'
    BY <1>1, <1>10, <2>1 DEF AgreeInv, CacheInv, RestAgrees, Empty, NoFiles, NoFile
  <2> QED BY <2>2, <2>3
<1> QED BY <1>6, <1>7, <1>8, <1>9, <1>10 DEF PurgeStep

LEMMA SerialStep == ASSUME Overlap = "entries" PROVE SerialInv /\ [Next]_vars => SerialInv'
<1> SUFFICES ASSUME SerialInv, [Next]_vars PROVE SerialInv'
  OBVIOUS
<1>0. TypeOK /\ TypeOK' /\ OneEach /\ FilesInv /\ AdminInv /\ ReaderInv
  BY TypeStep DEF SerialInv
<1>1. ASSUME NEW id \in Ids, Upsert(id) PROVE SerialInv'
  <2>1. PICK u, n : u = UpsertTask(writes', id, FALSE) /\ n = writes'
    OBVIOUS
  <2>2. writes' = writes + 1 /\ writes \in Nat
    BY <1>0, <1>1 DEF Upsert, TypeOK
  <2>3. u \in Task /\ u.id = id /\ u.pc = "patch" /\ u.n = n /\ n # 0
    <3>1. n \in Nat /\ n # 0
      BY <2>1, <2>2
    <3>2. u \in Task
      BY <2>1, <3>1, UpsertTaskType
    <3> QED BY <2>1, <3>1, <3>2 DEF UpsertTask
  <2>4. /\ ~Busy(id) /\ admin = Idle /\ reader = {} /\ tasks' = tasks \cup {u} /\ sqlite' = [sqlite EXCEPT ![id] = n]
        /\ UNCHANGED <<redis, cache, reader, files, admin, asked, faults, refused>>
    BY <1>1, <2>1 DEF Upsert, MayWrite
  <2> QED BY <1>0, <2>3, <2>4, SerialWrite
<1>2. ASSUME NEW id \in Ids, Delete(id) PROVE SerialInv'
  <2>1. PICK u : u = [UpsertTask(writes', id, FALSE) EXCEPT !.pc = "uncache"]
    OBVIOUS
  <2>2. writes' \in Nat
    BY <1>0, <1>2 DEF Delete, TypeOK
  <2>3. u \in Task /\ u.id = id /\ u.pc = "uncache"
    <3>1. u \in Task
      BY <2>1, <2>2, UpsertTaskType
    <3> QED BY <2>1, <3>1 DEF UpsertTask
  <2>4. /\ ~Busy(id) /\ admin = Idle /\ reader = {} /\ tasks' = tasks \cup {u} /\ sqlite' = [sqlite EXCEPT ![id] = 0]
        /\ UNCHANGED <<redis, cache, reader, files, admin, asked, faults, refused>>
    BY <1>2, <2>1 DEF Delete, MayWrite
  <2> QED BY <1>0, <2>3, <2>4, SerialWrite
<1>3. CASE FetchEntries \/ InsertCache \/ ExpireCache
  <2>1. UNCHANGED <<sqlite, redis, mirror, tmp, tasks, admin, asked, faults, refused>>
    BY <1>3 DEF FetchEntries, InsertCache, ExpireCache, files
  <2>2. ReaderInv' /\ (cache' \subseteq cache \/ (tasks = {} /\ admin = Idle /\ cache' = {redis}))
    <3>1. CASE FetchEntries
      <4>1. tasks = {} /\ admin = Idle /\ reader' = {redis} /\ cache' = cache
        BY <3>1 DEF FetchEntries
      <4> QED BY <2>1, <4>1 DEF ReaderInv, Idle, Empty
    <3>2. CASE InsertCache
      BY <1>0, <2>1, <3>2 DEF InsertCache, ReaderInv
    <3>3. CASE ExpireCache
      <4>1. reader' = reader /\ cache' = {}
        BY <3>3 DEF ExpireCache
      <4> QED BY <1>0, <2>1, <4>1 DEF ReaderInv, Idle, Empty
    <3> QED BY <1>3, <3>1, <3>2, <3>3
  <2>3. OneEach' /\ FilesInv'
    BY <1>0, <2>1 DEF OneEach, FilesInv, FileInv, MirrorReadable
  <2>4. AdminInv'
    BY <1>0, <2>1, <2>2 DEF AdminInv, Idle, PurgePCs, Present
  <2>5. ASSUME AgreeInv PROVE AgreeInv'
    <3>1. \A t \in tasks : StoresInv(t)'
      BY <2>1, <2>2, <2>5 DEF AgreeInv, StoresInv
    <3>2. \A i \in Ids \ refused : CacheInv(i)'
      BY <2>1, <2>2, <2>5 DEF AgreeInv, CacheInv
    <3> QED BY <2>1, <2>5, <3>1, <3>2 DEF AgreeInv, RestAgrees, Busy
  <2> QED BY <1>0, <2>1, <2>2, <2>3, <2>4, <2>5 DEF SerialInv
<1>4. CASE StartExport \/ StartImport \/ StartPurge
  <2>1. /\ tasks = {} /\ reader = {} /\ admin = Idle /\ asked' = asked + 1 /\ asked' # 0
        /\ UNCHANGED <<sqlite, redis, cache, reader, mirror, tmp, tasks, faults, refused>>
    BY <1>0, <1>4 DEF StartExport, StartImport, StartPurge, MayAsk, stores, files, TypeOK
  <2>2. /\ admin'.pc \in {"export_open", "import", "purge_sqlite"} /\ admin'.open = {}
        /\ admin'.pc = "export_open" => admin'.snap = sqlite /\ admin'.todo = Present(sqlite)
    <3>1. CASE StartExport
      BY <3>1 DEF StartExport, Idle
    <3>2. CASE StartImport
      BY <3>2 DEF StartImport, Idle
    <3>3. CASE StartPurge
      BY <3>3 DEF StartPurge, Idle
    <3> QED BY <1>4, <3>1, <3>2, <3>3
  <2>3. OneEach' /\ FilesInv' /\ ReaderInv'
    BY <1>0, <2>1 DEF OneEach, FilesInv, MirrorReadable, ReaderInv
  <2>4. AdminInv'
    BY <2>1, <2>2 DEF AdminInv, PurgePCs, Present
  <2>5. ASSUME AgreeInv PROVE AgreeInv'
    <3>1. \A i \in Ids \ refused : RestAgrees(i) /\ CacheInv(i)
      BY <2>1, <2>5 DEF AgreeInv, Busy, Idle, PurgePCs
    <3> QED BY <2>1, <2>2, <3>1 DEF AgreeInv, CacheInv, RestAgrees, Idle
  <2> QED BY <1>0, <2>1, <2>3, <2>4, <2>5 DEF SerialInv
<1>5. CASE FailTask
  <2>1. PICK t \in tasks : Ends(t) /\ admin' \in {admin, Idle}
    BY <1>5 DEF FailTask
  <2>2. UNCHANGED <<sqlite, redis, reader, mirror, tmp, asked>> /\ faults' # 0
    BY <1>0, <1>5 DEF FailTask, stores, files, TypeOK
  <2>3. OneEach' /\ \A v \in tasks' : v \in tasks
    BY <1>0, <2>1 DEF Ends, OneEach
  <2>4. AdminInv'
    BY <1>0, <2>1, <2>2, <2>3, AdminBeside
  <2>5. FilesInv' /\ ReaderInv'
    BY <1>0, <2>1, <2>2, <2>3 DEF FilesInv, FileInv, MirrorReadable, ReaderInv
  <2> QED BY <1>0, <2>2, <2>3, <2>4, <2>5 DEF SerialInv
<1>6. CASE Crash
  <2>1. /\ tasks' = {} /\ admin' = Idle /\ reader' = {} /\ faults' # 0
        /\ UNCHANGED <<sqlite, redis, mirror, tmp, asked, refused>>
    BY <1>0, <1>6 DEF Crash, files, TypeOK
  <2>2. OneEach' /\ FilesInv' /\ ReaderInv'
    BY <1>0, <2>1 DEF OneEach, FilesInv, MirrorReadable, ReaderInv
  <2>3. AdminInv'
    BY <2>1 DEF AdminInv, Idle, PurgePCs
  <2> QED BY <1>0, <2>1, <2>2, <2>3 DEF SerialInv
<1>7. CASE UNCHANGED vars
  <2>1. UNCHANGED <<sqlite, redis, cache, reader, mirror, tmp, tasks, admin, asked, faults, refused>>
    BY <1>7 DEF vars, stores, files
  <2>2. OneEach' /\ FilesInv' /\ ReaderInv' /\ AdminInv'
    BY <1>0, <2>1 DEF OneEach, FilesInv, FileInv, MirrorReadable, ReaderInv, AdminInv, Present
  <2>3. AgreeInv => AgreeInv'
    BY <2>1 DEF AgreeInv, StoresInv, CacheInv, RestAgrees, Busy
  <2> QED BY <1>0, <2>1, <2>2, <2>3 DEF SerialInv
<1>8. CASE AdminStep
  BY <1>0, <1>8, SerialExport, SerialImport, SerialPush, SerialPurge DEF AdminStep
<1> QED BY <1>1, <1>2, <1>3, <1>4, <1>5, <1>6, <1>7, <1>8, SerialTask DEF Next

THEOREM SerialCorrect == ASSUME Overlap = "entries" PROVE Spec => []SerialInv
<1>1. SerialInv /\ [Next]_vars => SerialInv'
  BY SerialStep
<1> QED BY <1>1, SerialInit, PTL DEF Spec

\* When a write waits for the tasks of its entry, for any entries, limit and number of requests:
\* without a fault, an entry whose tasks have ended is the same in SQLite, Redis and the mirror,
\* unless the limit kept it from Redis; exports, imports and purges do not part the three.
THEOREM StoresAlwaysAgree == ASSUME Overlap = "entries" PROVE Spec => []StoresAgree
<1>1. SerialInv => StoresAgree
  BY DEF SerialInv, AgreeInv, RestAgrees, StoresAgree, Idle, PurgePCs
<1> QED BY <1>1, SerialCorrect, PTL

\* ... and what is cached is what Redis holds once no task is left.
THEOREM CacheAlwaysAgrees == ASSUME Overlap = "entries" PROVE Spec => []CacheAgrees
<1>1. SerialInv => CacheAgrees
  BY DEF SerialInv, AgreeInv, CacheInv, CacheAgrees
<1> QED BY <1>1, SerialCorrect, PTL

\* ... and a mirror file holds a whole entry, also after failures and crashes, until an export
\* writes it in place.
THEOREM MirrorAlwaysReadable == ASSUME Overlap = "entries" PROVE Spec => []MirrorReadable
<1>1. SerialInv => MirrorReadable
  BY DEF SerialInv, FilesInv
<1> QED BY <1>1, SerialCorrect, PTL
=============================================================================
