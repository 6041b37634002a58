------------------------------ MODULE TeamSync ------------------------------
(***************************************************************************)
(* Team synchronisation of one project: sync/team.rs (TeamManager) driven  *)
(* by RedisStorage::sync_team_project and HybridStorage::sync_team_project.*)
(*                                                                         *)
(* Every daemon of the team works on the same Redis.  The team namespace   *)
(* holds a sequence counter, a list of signed operations trimmed to the    *)
(* newest OpsCap, one cursor and one fingerprint hash per actor, the       *)
(* shared CRDT matrix of every entry, the entry projections and the team   *)
(* brain.  A sync first publishes the project's entries whose fingerprint  *)
(* changed and then pulls the operations after its cursor; each Redis      *)
(* command is a step of its own, so syncs of several daemons interleave    *)
(* between any two commands.                                               *)
(*                                                                         *)
(* An edit is abstracted to its version number: the n-th edit of an entry  *)
(* writes text n with time stamp n (updated_at), so a text with another    *)
(* time stamp is an entry no user wrote.                                   *)
(***************************************************************************)
EXTENDS Naturals, Sequences, FiniteSets

CONSTANTS
  Actors,     \* the daemons of the team, one actor id each
  Width,      \* concurrent POST /team/sync requests one daemon may serve
  Ids,        \* memory entries of the project
  MaxEdits,   \* bound: edits of one entry
  MaxSeq,     \* bound: a sync starts only while the counter stays below it
  OpsCap,     \* operations LTRIM keeps (5000 in the code)
  MaxFaults,  \* bound: failed commands and daemon crashes
  MissedReads,\* TRUE: a failed read may also pass for an empty answer
  Turns       \* TRUE: a sync or edit starts only when nothing else runs and
              \* the 20 s entry caches have expired; FALSE: anything overlaps

ASSUME ConstantsAssumption ==
  /\ Actors # {} /\ Ids # {}
  /\ IsFiniteSet(Ids)
  /\ Width \in Nat \ {0} /\ OpsCap \in Nat \ {0}
  /\ MaxEdits \in Nat /\ MaxSeq \in Nat /\ MaxFaults \in Nat
  /\ Turns \in BOOLEAN /\ MissedReads \in BOOLEAN

VARIABLES
  \* the team namespace in Redis
  seq,        \* team:..:seq
  ops,        \* team:..:ops, the list of operation envelopes
  cursor,     \* team:..:cursor:<actor>
  fp,         \* team:..:fingerprints:<actor>, the entry last published
  matrix,     \* team:..:crdt_state, per entry the text kept of every actor
  proj,       \* team:..:entry_projection
  brain,      \* the decisions of team:..:team_brain
  \* the project itself
  hash,       \* the project's Redis hash, shared by all daemons
  cache,      \* RedisStorage::entry_cache of each daemon
  sqlite,     \* each daemon's SQLite copy, what its users read
  inflight,   \* entries each daemon's spawned sync_to_redis tasks still carry
  clock,      \* per entry, the edits made so far
  job,        \* the local variables of every running sync
  faults,     \* faults so far
  pushed,     \* history: the operations ever pushed to the list
  seen        \* history: sequence numbers each actor fetched or recovered

redisVars == <<seq, ops, cursor, fp, matrix, proj, brain>>
localVars == <<hash, cache, sqlite, inflight, clock>>
history == <<pushed, seen>>
vars == <<redisVars, localVars, job, faults, history>>

Sessions == Actors \X (1..Width)
ActorOf(s) == s[1]

-----------------------------------------------------------------------------
(* Data.  at = 0 marks an absent entry, text 0 an absent text.  tag is the *)
(* crdt_conflict tag, the only tag this code adds or removes.              *)

Entry == [txt : Nat, at : Nat, tag : BOOLEAN]
NoEntry == [txt |-> 0, at |-> 0, tag |-> FALSE]
NoEntries == [i \in Ids |-> NoEntry]
Present(entries) == {i \in Ids : entries[i].at # 0}

Op == [seq : Nat, actor : Actors, id : Ids, entry : Entry]
NoOp == [seq |-> 0, actor |-> CHOOSE a \in Actors : TRUE,
         id |-> CHOOSE i \in Ids : TRUE, entry |-> NoEntry]

NoMatrix == [a \in Actors |-> 0]

(* Every operation is built on a matrix without history, so its dot is     *)
(* <<actor, 1>>: the register keeps an actor's first text, ignores the     *)
(* actor's later operations as already seen, and keeps the texts of        *)
(* different actors side by side as concurrent values.                     *)
merge_foreign_operation(m, o) ==
  IF m[o.actor] = 0 THEN [m EXCEPT ![o.actor] = o.entry.txt] ELSE m

read_memory(m) == {m[a] : a \in Actors} \ {0}

(* The entries a set of resolved texts may turn entry e into.  Of several  *)
(* texts, none of them e's, the code takes the alphabetically first: texts *)
(* are abstract here, so any of them.                                      *)
project_entry_from_resolved_values(e, resolved) ==
  LET pick == IF e.txt \in resolved THEN {e.txt} ELSE resolved
  IN  {[e EXCEPT !.txt = t, !.tag = IF Cardinality(resolved) > 1 THEN TRUE ELSE FALSE] :
         t \in pick}

(* pull_range_start: the number of the oldest operation still in the list, *)
(* whether the list was trimmed past the cursor, and where LRANGE starts.  *)
earliest_sequence(current, len) == IF current >= len THEN current - len + 1 ELSE 1

\* Fault-seeded: the gap test is off by one.
has_gap_late(cur, current, len) ==
  current # 0 /\ len # 0 /\ cur + 2 < earliest_sequence(current, len)
has_gap(cur, current, len) ==
  current # 0 /\ len # 0 /\ cur + 1 < earliest_sequence(current, len)

range_start(cur, current, len) ==
  LET earliest == earliest_sequence(current, len)
  IN  IF current = 0 \/ len = 0 \/ cur < earliest THEN 0 ELSE cur - earliest + 1

lrange(list, start) == SubSeq(list, start + 1, Len(list))

-----------------------------------------------------------------------------
PCs == {"idle", "fingerprint", "incr", "rpush", "hset_fp", "get_matrix",
        "set_matrix", "get_brain", "set_brain", "projection", "ltrim",
        "get_cursor", "get_seq", "llen", "lrange", "recover", "recover_state",
        "next_op", "set_cursor", "merge", "pull_back"}

Job == [pc    : PCs,
        pull  : BOOLEAN,           \* the shared steps run for a pulled op
        snap  : [Ids -> Entry],    \* local_by_id
        todo  : SUBSET Ids,        \* entries left to publish, or to merge
        did   : BOOLEAN,           \* published > 0
        op    : Op,                \* the operation being worked on
        mx    : [Actors -> Nat],   \* matrix read by load_shared_matrix
        br    : SUBSET Ids,        \* brain read by load_team_brain
        cur   : Nat, current : Nat, len : Nat, \* cursor, seq and LLEN as read
        batch : Seq(Op),           \* raw_ops not yet processed
        next  : Nat,               \* next_cursor
        got   : [Ids -> Entry]]    \* remote_by_id

Idle == [pc |-> "idle", pull |-> FALSE, snap |-> NoEntries, todo |-> {},
         did |-> FALSE, op |-> NoOp, mx |-> NoMatrix, br |-> {},
         cur |-> 0, current |-> 0, len |-> 0, batch |-> <<>>, next |-> 0,
         got |-> NoEntries]

Init ==
  /\ seq = 0 /\ ops = <<>>
  /\ cursor = [a \in Actors |-> 0]
  /\ fp = [a \in Actors |-> NoEntries]
  /\ matrix = [i \in Ids |-> NoMatrix]
  /\ proj = NoEntries
  /\ brain = {}
  /\ hash = NoEntries
  /\ cache = [a \in Actors |-> <<>>]
  /\ sqlite = [a \in Actors |-> NoEntries]
  /\ inflight = [a \in Actors |-> {}]
  /\ clock = [i \in Ids |-> 0]
  /\ job = [s \in Sessions |-> Idle]
  /\ faults = 0
  /\ pushed = {}
  /\ seen = [a \in Actors |-> {}]

(* One step of sync s, leaving its local variables as j.                  *)
Become(s, j) == job' = [job EXCEPT ![s] = j]

Quiet == /\ \A s \in Sessions : job[s].pc = "idle"
         /\ \A a \in Actors : inflight[a] = {}

(* upsert_entry of RedisStorage: patch the cached copy, then HSET.  The    *)
(* limit of 1000 entries and the JSON mirror belong to module HybridBrain. *)
redis_upsert(a, id, e) ==
  /\ hash' = [hash EXCEPT ![id] = e]
  /\ cache' = [cache EXCEPT ![a] = IF @ = <<>> THEN @ ELSE <<[@[1] EXCEPT ![id] = e]>>]

(* get_entries of RedisStorage: the cached copy if there is one, else the  *)
(* hash.                                                                   *)
redis_entries(a) == IF cache[a] = <<>> THEN hash ELSE cache[a][1]

-----------------------------------------------------------------------------
(* Users and the storage layer.                                            *)

\* A user of daemon a edits entry id: SQLite first, Redis by a spawned task.
Edit(a, id) ==
  /\ Turns => Quiet
  /\ clock[id] < MaxEdits
  /\ clock' = [clock EXCEPT ![id] = @ + 1]
  /\ LET e == [txt |-> clock[id] + 1, at |-> clock[id] + 1, tag |-> FALSE]
     IN  /\ sqlite' = [sqlite EXCEPT ![a][id] = e]
         /\ inflight' = [inflight EXCEPT ![a] = @ \cup {[id |-> id, entry |-> e]}]
  /\ UNCHANGED <<redisVars, hash, cache, job, faults, history>>

\* A spawned sync_to_redis task reaches Redis.
Land(a) ==
  /\ \E t \in inflight[a] :
       /\ redis_upsert(a, t.id, t.entry)
       /\ inflight' = [inflight EXCEPT ![a] = @ \ {t}]
  /\ UNCHANGED <<redisVars, sqlite, clock, job, faults, history>>

\* The 20 s of a cached copy are over.
ExpireCache(a) ==
  /\ cache[a] # <<>>
  /\ cache' = [cache EXCEPT ![a] = <<>>]
  /\ UNCHANGED <<redisVars, hash, sqlite, inflight, clock, job, faults, history>>

-----------------------------------------------------------------------------
(* sync_team_project and publish_entries.                                  *)

StartSync(s) ==
  LET a == ActorOf(s)
      snap == IF Turns THEN hash ELSE redis_entries(a)
  IN  /\ job[s].pc = "idle"
      /\ Turns => Quiet
      /\ seq + Cardinality(Ids) <= MaxSeq
      /\ cache' = [cache EXCEPT ![a] = <<snap>>]
      /\ Become(s, [Idle EXCEPT !.pc = "fingerprint", !.snap = snap,
                                !.todo = Present(snap)])
      /\ UNCHANGED <<redisVars, hash, sqlite, inflight, clock, faults, history>>

\* Compare the next entry with the fingerprint this actor published last.
CheckFingerprint(s) ==
  /\ job[s].pc = "fingerprint"
  /\ \E id \in job[s].todo :
       Become(s, [job[s] EXCEPT
         !.todo = @ \ {id},
         !.op = [seq |-> 0, actor |-> ActorOf(s), id |-> id,
                    entry |-> job[s].snap[id]],
         !.pc = IF fp[ActorOf(s)][id] = job[s].snap[id]
                     THEN "fingerprint" ELSE "incr"])
  /\ UNCHANGED <<redisVars, localVars, faults, history>>

PublishDone(s) ==
  /\ job[s].pc = "fingerprint" /\ job[s].todo = {}
  /\ Become(s, [job[s] EXCEPT !.pc = IF job[s].did THEN "ltrim" ELSE "get_cursor",
                        !.op = NoOp])
  /\ UNCHANGED <<redisVars, localVars, faults, history>>

\* Fault-seeded: numbers taken from the list's length.
incr_by_length(s) == Len(ops) + 1
incr(s) == seq + 1

AllocateSequence(s) ==
  /\ job[s].pc = "incr"
  /\ seq' = incr(s)
  /\ Become(s, [job[s] EXCEPT !.op.seq = incr(s), !.pc = "rpush"])
  /\ UNCHANGED <<ops, cursor, fp, matrix, proj, brain, localVars, faults, history>>

PushOperation(s) ==
  /\ job[s].pc = "rpush"
  /\ ops' = Append(ops, job[s].op)
  /\ pushed' = pushed \cup {job[s].op}
  /\ Become(s, [job[s] EXCEPT !.pc = "hset_fp"])
  /\ UNCHANGED <<seq, cursor, fp, matrix, proj, brain, localVars, faults, seen>>

RecordFingerprint(s) ==
  /\ job[s].pc = "hset_fp"
  /\ fp' = [fp EXCEPT ![ActorOf(s)][job[s].op.id] = job[s].op.entry]
  /\ Become(s, [job[s] EXCEPT !.pc = "get_matrix"])
  /\ UNCHANGED <<seq, ops, cursor, matrix, proj, brain, localVars, faults, history>>

-----------------------------------------------------------------------------
(* apply_content_crdt_op_to_shared_state and apply_entry_to_team_brain,    *)
(* used by publishing and by pulling alike.                                *)

load_shared_matrix(id) == matrix[id]

LoadMatrix(s) ==
  /\ job[s].pc = "get_matrix"
  /\ Become(s, [job[s] EXCEPT !.mx = load_shared_matrix(job[s].op.id), !.pc = "set_matrix"])
  /\ UNCHANGED <<redisVars, localVars, faults, history>>

\* Fault-seeded: the merged matrix is not written back.
forget_shared_matrix(id, m) == UNCHANGED matrix
persist_shared_matrix(id, m) == matrix' = [matrix EXCEPT ![id] = m]

\* Persist the merged matrix.  A pulled operation whose text did not survive
\* the merge is a conflict and dropped; otherwise its entry is projected.
StoreMatrix(s) ==
  LET j == job[s]
      m == merge_foreign_operation(j.mx, j.op)
      resolved == read_memory(m)
  IN  /\ j.pc = "set_matrix"
      /\ persist_shared_matrix(j.op.id, m)
      /\ \/ /\ j.pull /\ j.op.entry.txt \notin resolved
            /\ Become(s, [job[s] EXCEPT !.pc = "next_op", !.mx = NoMatrix,
                                  !.op = NoOp])
         \/ /\ j.pull /\ j.op.entry.txt \in resolved
            /\ \E e \in project_entry_from_resolved_values(j.op.entry, resolved) :
                 Become(s, [job[s] EXCEPT !.pc = "get_brain", !.mx = NoMatrix,
                                    !.op.entry = e])
         \/ /\ ~j.pull
            /\ Become(s, [job[s] EXCEPT !.pc = "get_brain", !.mx = NoMatrix])
      /\ UNCHANGED <<seq, ops, cursor, fp, proj, brain, localVars, faults, history>>

LoadBrain(s) ==
  /\ job[s].pc = "get_brain"
  /\ Become(s, [job[s] EXCEPT !.br = brain, !.pc = "set_brain"])
  /\ UNCHANGED <<redisVars, localVars, faults, history>>

\* Fault-seeded: the entry replaces the brain instead of joining it.
replace_team_brain(b, id) == {id}
update_team_brain_from_entry(b, id) == b \cup {id}

StoreBrain(s) ==
  /\ job[s].pc = "set_brain"
  /\ brain' = update_team_brain_from_entry(job[s].br, job[s].op.id)
  /\ Become(s, [job[s] EXCEPT !.br = {}, !.pc = "projection"])
  /\ UNCHANGED <<seq, ops, cursor, fp, matrix, proj, localVars, faults, history>>

\* remote_by_id keeps the newest of several pulled versions of an entry.
Newest(got, id, e) ==
  IF got[id].at # 0 /\ got[id].at >= e.at THEN got ELSE [got EXCEPT ![id] = e]

StoreProjection(s) ==
  LET j == job[s]
  IN  /\ j.pc = "projection"
      /\ proj' = [proj EXCEPT ![j.op.id] = j.op.entry]
      /\ Become(s, [job[s] EXCEPT
           !.op = NoOp,
           !.pc = IF j.pull THEN "next_op" ELSE "fingerprint",
           !.did = @ \/ ~j.pull,
           !.got = IF j.pull THEN Newest(@, j.op.id, j.op.entry) ELSE @])
      /\ UNCHANGED <<seq, ops, cursor, fp, matrix, brain, localVars, faults, history>>

TrimOperations(s) ==
  /\ job[s].pc = "ltrim"
  /\ ops' = IF Len(ops) > OpsCap THEN lrange(ops, Len(ops) - OpsCap) ELSE ops
  /\ Become(s, [job[s] EXCEPT !.pc = "get_cursor"])
  /\ UNCHANGED <<seq, cursor, fp, matrix, proj, brain, localVars, faults, history>>

-----------------------------------------------------------------------------
(* pull_operations.                                                        *)

ReadCursor(s) ==
  /\ job[s].pc = "get_cursor"
  /\ Become(s, [job[s] EXCEPT !.cur = cursor[ActorOf(s)], !.pull = TRUE,
                        !.did = FALSE, !.pc = "get_seq"])
  /\ UNCHANGED <<redisVars, localVars, faults, history>>

ReadSequence(s) ==
  /\ job[s].pc = "get_seq"
  /\ Become(s, [job[s] EXCEPT !.current = seq, !.pc = "llen"])
  /\ UNCHANGED <<redisVars, localVars, faults, history>>

ReadLength(s) ==
  /\ job[s].pc = "llen"
  /\ Become(s, [job[s] EXCEPT !.len = Len(ops), !.pc = "lrange"])
  /\ UNCHANGED <<redisVars, localVars, faults, history>>

ReadRange(s) ==
  LET j == job[s]
      raw == IF j.len > 0 THEN lrange(ops, range_start(j.cur, j.current, j.len))
                          ELSE <<>>
  IN  /\ j.pc = "lrange"
      /\ \/ /\ has_gap(j.cur, j.current, j.len)
            /\ Become(s, [j EXCEPT !.len = 0, !.pc = "recover"])
            /\ UNCHANGED seen
         \/ /\ ~has_gap(j.cur, j.current, j.len)
            /\ Become(s, [j EXCEPT !.batch = raw, !.next = j.cur, !.current = 0,
                                   !.len = 0, !.pc = "next_op"])
            /\ seen' = [seen EXCEPT ![ActorOf(s)] =
                          @ \cup {raw[k].seq : k \in DOMAIN raw}]
      /\ UNCHANGED <<redisVars, localVars, faults, pushed>>

\* recover_entries_from_shared_state reads the projections, then the matrices.
RecoverProjections(s) ==
  /\ job[s].pc = "recover"
  /\ Become(s, [job[s] EXCEPT !.got = proj, !.pc = "recover_state"])
  /\ UNCHANGED <<redisVars, localVars, faults, history>>

RecoverState(s) ==
  LET j == job[s]
      Recovered(i) ==
        IF j.got[i].at = 0 \/ read_memory(matrix[i]) = {}
          THEN {NoEntry}
          ELSE project_entry_from_resolved_values(j.got[i], read_memory(matrix[i]))
  IN  /\ j.pc = "recover_state"
      /\ \E got \in [Ids -> UNION {Recovered(i) : i \in Ids}] :
           /\ \A i \in Ids : got[i] \in Recovered(i)
           /\ Become(s, [job[s] EXCEPT !.got = got, !.next = j.current,
                                 !.current = 0, !.pc = "set_cursor"])
      /\ seen' = [seen EXCEPT ![ActorOf(s)] = @ \cup
           {o.seq : o \in {p \in pushed : /\ p.seq <= j.current
                                         /\ p.entry.at <= j.got[p.id].at}}]
      /\ UNCHANGED <<redisVars, localVars, faults, pushed>>

\* Fault-seeded: the cursor names the next number to read.
next_cursor_plus_one(next, o) == IF o.seq >= next THEN o.seq + 1 ELSE next
next_cursor(next, o) == IF o.seq > next THEN o.seq ELSE next

\* Operations at or below the cursor and the actor's own ones are skipped;
\* the cursor to store moves past every operation looked at.
NextOperation(s) ==
  LET j == job[s]
      o == Head(j.batch)
      skip == o.seq <= j.cur \/ o.actor = ActorOf(s)
  IN  /\ j.pc = "next_op" /\ j.batch # <<>>
      /\ Become(s, [job[s] EXCEPT
           !.batch = Tail(@),
           !.next = next_cursor(@, o),
           !.op = IF skip THEN NoOp ELSE o,
           !.pc = IF skip THEN "next_op" ELSE "get_matrix"])
      /\ UNCHANGED <<redisVars, localVars, faults, history>>

BatchDone(s) ==
  /\ job[s].pc = "next_op" /\ job[s].batch = <<>>
  /\ Become(s, [job[s] EXCEPT !.pc = "set_cursor"])
  /\ UNCHANGED <<redisVars, localVars, faults, history>>

StoreCursor(s) ==
  LET j == job[s]
  IN  /\ j.pc = "set_cursor"
      /\ cursor' = [cursor EXCEPT ![ActorOf(s)] = j.next]
      /\ Become(s, [job[s] EXCEPT !.cur = 0, !.next = 0, !.pc = "merge",
                            !.todo = Present(j.got)])
      /\ UNCHANGED <<seq, ops, fp, matrix, proj, brain, localVars, faults, history>>

-----------------------------------------------------------------------------
(* The rest of sync_team_project: merge the pulled entries into the hash,  *)
(* then copy the hash into the daemon's SQLite.                            *)

\* local is the copy read when the sync began.  An equal time stamp with
\* another text counts as a conflict, and remote.id >= local.id holds since
\* the ids are the same, so the remote entry wins.
ApplyAlways(local, remote) == TRUE   \* fault-seeded: time stamps ignored
ShouldApply(local, remote) == local.at <= remote.at

MergeEntry(s) ==
  LET j == job[s]
  IN  /\ j.pc = "merge"
      /\ \E id \in j.todo :
           /\ Become(s, [job[s] EXCEPT !.todo = @ \ {id}])
           /\ \/ /\ ShouldApply(j.snap[id], j.got[id])
                 /\ redis_upsert(ActorOf(s), id, j.got[id])
              \/ /\ ~ShouldApply(j.snap[id], j.got[id])
                 /\ UNCHANGED <<hash, cache>>
      /\ UNCHANGED <<redisVars, sqlite, inflight, clock, faults, history>>

NeverPullBack(got) == FALSE          \* fault-seeded: SQLite is not refreshed
NeedsPullBack(got) == Present(got) # {}

MergeDone(s) ==
  /\ job[s].pc = "merge" /\ job[s].todo = {}
  /\ Become(s, IF NeedsPullBack(job[s].got)
                               THEN [Idle EXCEPT !.pc = "pull_back"] ELSE Idle)
  /\ UNCHANGED <<redisVars, localVars, faults, history>>

\* pull_from_redis, only after a sync that pulled something.
PullBack(s) ==
  LET a == ActorOf(s)
      entries == redis_entries(a)
  IN  /\ job[s].pc = "pull_back"
      /\ sqlite' = [sqlite EXCEPT ![a] =
           [i \in Ids |-> IF entries[i].at # 0 THEN entries[i] ELSE @[i]]]
      /\ cache' = [cache EXCEPT ![a] = <<entries>>]
      /\ Become(s, Idle)
      /\ UNCHANGED <<redisVars, hash, inflight, clock, faults, history>>

-----------------------------------------------------------------------------
(* Faults.                                                                 *)

\* A Redis command of a sync fails: the ? operator abandons the request.
FailSync(s) ==
  /\ job[s].pc # "idle" /\ faults < MaxFaults
  /\ Become(s, Idle)
  /\ faults' = faults + 1
  /\ UNCHANGED <<redisVars, localVars, history>>

\* A pulled operation whose matrix cannot be stored counts as a conflict: the
\* pull goes on, and its cursor moves past the operation.
DropOperation(s) ==
  /\ job[s].pc = "set_matrix" /\ job[s].pull /\ faults < MaxFaults
  /\ Become(s, [job[s] EXCEPT !.pc = "next_op", !.mx = NoMatrix, !.op = NoOp])
  /\ faults' = faults + 1
  /\ UNCHANGED <<redisVars, localVars, history>>

\* The reads that end in .ok(), unwrap_or(0) or unwrap_or_default(): a failed
\* one passes for the answer of an empty key, and the sync goes on.
MissRead(s) ==
  LET j == job[s]
      At(pc, i) == j.pc = pc /\ Become(s, i)
  IN  /\ MissedReads /\ faults < MaxFaults
      /\ \/ \E id \in j.todo : At("fingerprint",
              [j EXCEPT !.todo = @ \ {id}, !.pc = "incr",
                 !.op = [seq |-> 0, actor |-> ActorOf(s), id |-> id,
                         entry |-> j.snap[id]]])
         \/ At("get_matrix", [j EXCEPT !.mx = NoMatrix, !.pc = "set_matrix"])
         \/ At("get_brain", [j EXCEPT !.br = {}, !.pc = "set_brain"])
         \/ At("get_cursor", [j EXCEPT !.cur = 0, !.pull = TRUE, !.did = FALSE,
                                       !.pc = "get_seq"])
         \/ At("get_seq", [j EXCEPT !.current = 0, !.pc = "llen"])
         \/ At("llen", [j EXCEPT !.len = 0, !.pc = "lrange"])
         \/ At("recover", [j EXCEPT !.got = NoEntries, !.pc = "recover_state"])
         \/ At("recover_state", [j EXCEPT !.got = NoEntries, !.next = j.current,
                                          !.current = 0, !.pc = "set_cursor"])
      /\ faults' = faults + 1
      /\ UNCHANGED <<redisVars, localVars, history>>

\* A daemon dies: its syncs, its cache and its unsent writes are gone.
Crash(a) ==
  /\ faults < MaxFaults
  /\ job' = [s \in Sessions |-> IF ActorOf(s) = a THEN Idle ELSE job[s]]
  /\ cache' = [cache EXCEPT ![a] = <<>>]
  /\ inflight' = [inflight EXCEPT ![a] = {}]
  /\ faults' = faults + 1
  /\ UNCHANGED <<redisVars, hash, sqlite, clock, history>>

-----------------------------------------------------------------------------
SyncStep(s) ==
  \/ CheckFingerprint(s) \/ PublishDone(s) \/ AllocateSequence(s)
  \/ PushOperation(s) \/ RecordFingerprint(s)
  \/ LoadMatrix(s) \/ StoreMatrix(s) \/ LoadBrain(s) \/ StoreBrain(s)
  \/ StoreProjection(s) \/ TrimOperations(s)
  \/ ReadCursor(s) \/ ReadSequence(s) \/ ReadLength(s) \/ ReadRange(s)
  \/ RecoverProjections(s) \/ RecoverState(s)
  \/ NextOperation(s) \/ BatchDone(s) \/ StoreCursor(s)
  \/ MergeEntry(s) \/ MergeDone(s) \/ PullBack(s)

Next ==
  \/ \E s \in Sessions : StartSync(s) \/ SyncStep(s)
  \/ \E s \in Sessions : FailSync(s) \/ DropOperation(s) \/ MissRead(s)
  \/ \E a \in Actors, id \in Ids : Edit(a, id)
  \/ \E a \in Actors : Land(a) \/ ExpireCache(a) \/ Crash(a)

Spec == Init /\ [][Next]_vars

(* Tokio runs every started request and spawned task to its end.  That a   *)
(* sync of every member is started again and again is an assumption on the *)
(* users: POST /team/sync has no timer in the daemon.                      *)
LiveSpec ==
  /\ Spec
  /\ \A s \in Sessions : WF_vars(SyncStep(s)) /\ SF_vars(StartSync(s))
  /\ \A a \in Actors : WF_vars(Land(a))

-----------------------------------------------------------------------------
\* The types of the Redis keys team.rs writes and of a sync's local variables;
\* no counter goes below zero.
TypeOK ==
  /\ seq \in Nat /\ ops \in Seq(Op)
  /\ cursor \in [Actors -> Nat]
  /\ fp \in [Actors -> [Ids -> Entry]]
  /\ matrix \in [Ids -> [Actors -> Nat]]
  /\ proj \in [Ids -> Entry] /\ brain \in SUBSET Ids
  /\ hash \in [Ids -> Entry]
  /\ cache \in [Actors -> Seq([Ids -> Entry])]
  /\ sqlite \in [Actors -> [Ids -> Entry]]
  /\ inflight \in [Actors -> SUBSET [id : Ids, entry : Entry]]
  /\ clock \in [Ids -> Nat]
  /\ job \in [Sessions -> Job]
  /\ faults \in Nat
  /\ pushed \in SUBSET Op
  /\ seen \in [Actors -> SUBSET Nat]

\* No two operations of the list carry the same sequence number, however the
\* INCR and the RPUSH of overlapping publish_entries interleave.
UniqueNumbers ==
  \A k, l \in DOMAIN ops : ops[k].seq = ops[l].seq => k = l

\* A cursor that pull_operations stores never runs ahead of the sequence
\* counter, although it is computed from values read long before.
CursorBehindCounter == \A a \in Actors : cursor[a] <= seq

\* An entry that has a projection has a matrix to recover its text from, or
\* recover_entries_from_shared_state would drop it.
RecoverableProjection ==
  \A i \in Present(proj) : read_memory(matrix[i]) # {}

\* pull_operations skips nothing: an operation at or below an actor's cursor was
\* fetched by it, or recovered after a gap.
NoSkippedOperation ==
  \A a \in Actors : \A o \in pushed : o.seq <= cursor[a] => o.seq \in seen[a]

\* A projected decision is in the team brain, which load_team_brain and
\* persist_team_brain read and write back as a whole.
BrainKeepsDecisions == Present(proj) \subseteq brain

\* The merge of sync_team_project never replaces an entry of the project's hash
\* by an older one.
MergeKeepsNewer ==
  [][\A s \in Sessions : MergeEntry(s) => \A i \in Ids : hash'[i].at >= hash[i].at]_vars

\* Members who keep syncing end up reading the same texts from their SQLite.
MembersAgree ==
  <>[](\A a, b \in Actors, i \in Ids : sqlite[a][i].txt = sqlite[b][i].txt)

\* In turns, publish_entries and pull_operations implement the log of module
\* TeamLog: no operation is acknowledged unseen, or published under a number
\* somebody has acknowledged already.
Log == INSTANCE TeamLog WITH
         pushed <- {o.seq : o \in pushed}, acked <- cursor, known <- seen
ImplementsLog == Log!Spec
=============================================================================
