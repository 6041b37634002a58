--------------------------- MODULE TeamSync_proofs ---------------------------
(***************************************************************************)
(* Machine-checked proofs about TeamSync, for any team, any number of      *)
(* concurrent syncs, any number of edits and any list bound.  The first    *)
(* part holds with any faults and any interleaving: types, fresh sequence  *)
(* numbers, consistent fingerprints, a recoverable projection.  The second *)
(* is about syncs that take turns (Turns): merges keep the newer entry and *)
(* a saved decision stays; without faults no operation is passed over, and *)
(* the whole is an ordered log (TeamLog).                                  *)
(***************************************************************************)
EXTENDS TeamSync, SequenceTheorems, FiniteSetTheorems, TLAPS

LEMMA ActorOfSession == \A s \in Sessions : ActorOf(s) \in Actors
BY DEF Sessions, ActorOf

LEMMA NoEntryType == NoEntry \in Entry /\ NoEntries \in [Ids -> Entry]
BY DEF NoEntry, Entry, NoEntries

LEMMA NoMatrixType == NoMatrix \in [Actors -> Nat]
BY DEF NoMatrix

LEMMA NoOpType == NoOp \in Op
<1>1. (CHOOSE a \in Actors : TRUE) \in Actors
  BY ConstantsAssumption
<1>2. (CHOOSE i \in Ids : TRUE) \in Ids
  BY ConstantsAssumption
<1> QED BY <1>1, <1>2, NoEntryType DEF NoOp, Op

LEMMA IdleType == Idle \in Job
<1>1. <<>> \in Seq(Op)
  OBVIOUS
<1> QED BY <1>1, NoMatrixType, NoEntryType, NoOpType DEF Idle, Job, PCs

LEMMA PresentType == \A e \in [Ids -> Entry] : Present(e) \in SUBSET Ids
BY DEF Present

(* A suffix of a list of operations is a list of operations of the list.   *)
LEMMA LrangeType ==
  ASSUME NEW list \in Seq(Op), NEW start \in Nat
  PROVE  /\ lrange(list, start) \in Seq(Op)
         /\ \A k \in DOMAIN lrange(list, start) :
              \E l \in DOMAIN list : lrange(list, start)[k] = list[l]
BY DEF lrange

(* range_start never yields a negative index.                         *)
LEMMA RangeStartType ==
  ASSUME NEW cur \in Nat, NEW current \in Nat, NEW len \in Nat
  PROVE  range_start(cur, current, len) \in Nat
BY DEF range_start, earliest_sequence

(* Projecting an entry on resolved texts yields an entry.                  *)
LEMMA ProjectType ==
  ASSUME NEW e \in Entry, NEW texts \in SUBSET Nat,
         NEW p \in project_entry_from_resolved_values(e, texts)
  PROVE  p \in Entry /\ p.at = e.at /\ p.txt \in texts
BY DEF project_entry_from_resolved_values, Entry

LEMMA ReadType == \A m \in [Actors -> Nat] : read_memory(m) \in SUBSET Nat
BY DEF read_memory

LEMMA MergeType ==
  ASSUME NEW m \in [Actors -> Nat], NEW o \in Op
  PROVE  merge_foreign_operation(m, o) \in [Actors -> Nat]
BY DEF merge_foreign_operation, Op, Entry

LEMMA BecomeType ==
  ASSUME TypeOK, NEW s \in Sessions, NEW j \in Job, Become(s, j)
  PROVE  job' \in [Sessions -> Job]
BY DEF Become, TypeOK

(* The copy get_entries returns and the effect of upsert_entry.            *)
LEMMA EntriesType == TypeOK => \A a \in Actors : redis_entries(a) \in [Ids -> Entry]
<1> SUFFICES ASSUME TypeOK, NEW a \in Actors PROVE redis_entries(a) \in [Ids -> Entry]
  OBVIOUS
<1>1. cache[a] \in Seq([Ids -> Entry]) /\ hash \in [Ids -> Entry]
  BY DEF TypeOK
<1>2. cache[a] # <<>> => cache[a][1] \in [Ids -> Entry]
  BY <1>1
<1> QED BY <1>1, <1>2 DEF redis_entries

LEMMA OneCopyType == \A e \in [Ids -> Entry] : <<e>> \in Seq([Ids -> Entry])
OBVIOUS

LEMMA UpsertType ==
  ASSUME TypeOK, NEW a \in Actors, NEW id \in Ids, NEW e \in Entry,
         redis_upsert(a, id, e)
  PROVE  hash' \in [Ids -> Entry] /\ cache' \in [Actors -> Seq([Ids -> Entry])]
<1>1. cache[a] \in Seq([Ids -> Entry]) /\ hash \in [Ids -> Entry]
  BY DEF TypeOK
<1>2. hash' \in [Ids -> Entry]
  BY <1>1 DEF redis_upsert
<1>3. cache[a] # <<>> => [cache[a][1] EXCEPT ![id] = e] \in [Ids -> Entry]
  BY <1>1
<1>4. cache[a] # <<>> => <<[cache[a][1] EXCEPT ![id] = e]>> \in Seq([Ids -> Entry])
  BY <1>3, OneCopyType
<1>5. cache' \in [Actors -> Seq([Ids -> Entry])]
  BY <1>1, <1>4 DEF redis_upsert, TypeOK
<1> QED BY <1>2, <1>5

-----------------------------------------------------------------------------
LEMMA InitType == Init => TypeOK
<1>1. <<>> \in Seq(Op) /\ <<>> \in Seq([Ids -> Entry])
  OBVIOUS
<1> QED BY <1>1, NoMatrixType, NoEntryType, IdleType DEF Init, TypeOK

LEMMA TypePublishDone ==
  ASSUME TypeOK, NEW s \in Sessions, PublishDone(s) PROVE TypeOK'
<1>1. job[s] \in Job
  BY DEF TypeOK
<1>2. job' \in [Sessions -> Job]
  BY <1>1, BecomeType, NoOpType DEF PublishDone, Become, TypeOK, Job, PCs
<1> QED BY <1>1, <1>2, ActorOfSession
        DEF PublishDone, TypeOK, Job, redisVars, localVars, history

LEMMA TypeRecordFingerprint ==
  ASSUME TypeOK, NEW s \in Sessions, RecordFingerprint(s) PROVE TypeOK'
<1>1. job[s] \in Job
  BY DEF TypeOK
<1>2. job' \in [Sessions -> Job]
  BY <1>1, BecomeType DEF RecordFingerprint, Become, TypeOK, Job, PCs, Op
<1> QED BY <1>1, <1>2, ActorOfSession
        DEF RecordFingerprint, TypeOK, Job, redisVars, localVars, history, Op

LEMMA TypeLoadMatrix ==
  ASSUME TypeOK, NEW s \in Sessions, LoadMatrix(s) PROVE TypeOK'
<1>1. job[s] \in Job
  BY DEF TypeOK
<1>2. job' \in [Sessions -> Job]
  BY <1>1, BecomeType DEF LoadMatrix, Become, TypeOK, Job, PCs, load_shared_matrix, Op
<1> QED BY <1>1, <1>2, ActorOfSession
        DEF LoadMatrix, TypeOK, Job, redisVars, localVars, history, load_shared_matrix, Op

LEMMA TypeLoadBrain ==
  ASSUME TypeOK, NEW s \in Sessions, LoadBrain(s) PROVE TypeOK'
<1>1. job[s] \in Job
  BY DEF TypeOK
<1>2. job' \in [Sessions -> Job]
  BY <1>1, BecomeType DEF LoadBrain, Become, TypeOK, Job, PCs
<1> QED BY <1>1, <1>2, ActorOfSession
        DEF LoadBrain, TypeOK, Job, redisVars, localVars, history

LEMMA TypeStoreBrain ==
  ASSUME TypeOK, NEW s \in Sessions, StoreBrain(s) PROVE TypeOK'
<1>1. job[s] \in Job
  BY DEF TypeOK
<1>2. job' \in [Sessions -> Job]
  BY <1>1, BecomeType DEF StoreBrain, Become, TypeOK, Job, PCs, update_team_brain_from_entry, Op
<1> QED BY <1>1, <1>2, ActorOfSession
        DEF StoreBrain, TypeOK, Job, redisVars, localVars, history, update_team_brain_from_entry, Op

LEMMA TypeStoreProjection ==
  ASSUME TypeOK, NEW s \in Sessions, StoreProjection(s) PROVE TypeOK'
<1>1. job[s] \in Job
  BY DEF TypeOK
<1>2. job' \in [Sessions -> Job]
  BY <1>1, BecomeType, NoOpType DEF StoreProjection, Become, TypeOK, Job, PCs, Op, Newest
<1> QED BY <1>1, <1>2, ActorOfSession
        DEF StoreProjection, TypeOK, Job, redisVars, localVars, history, Op, Newest

LEMMA TypeReadCursor ==
  ASSUME TypeOK, NEW s \in Sessions, ReadCursor(s) PROVE TypeOK'
<1>1. job[s] \in Job
  BY DEF TypeOK
<1>2. job' \in [Sessions -> Job]
  BY <1>1, BecomeType, ActorOfSession DEF ReadCursor, Become, TypeOK, Job, PCs
<1> QED BY <1>1, <1>2, ActorOfSession
        DEF ReadCursor, TypeOK, Job, redisVars, localVars, history

LEMMA TypeReadSequence ==
  ASSUME TypeOK, NEW s \in Sessions, ReadSequence(s) PROVE TypeOK'
<1>1. job[s] \in Job
  BY DEF TypeOK
<1>2. job' \in [Sessions -> Job]
  BY <1>1, BecomeType DEF ReadSequence, Become, TypeOK, Job, PCs
<1> QED BY <1>1, <1>2, ActorOfSession
        DEF ReadSequence, TypeOK, Job, redisVars, localVars, history

LEMMA TypeRecoverProjections ==
  ASSUME TypeOK, NEW s \in Sessions, RecoverProjections(s) PROVE TypeOK'
<1>1. job[s] \in Job
  BY DEF TypeOK
<1>2. job' \in [Sessions -> Job]
  BY <1>1, BecomeType DEF RecoverProjections, Become, TypeOK, Job, PCs
<1> QED BY <1>1, <1>2, ActorOfSession
        DEF RecoverProjections, TypeOK, Job, redisVars, localVars, history

LEMMA TypeBatchDone ==
  ASSUME TypeOK, NEW s \in Sessions, BatchDone(s) PROVE TypeOK'
<1>1. job[s] \in Job
  BY DEF TypeOK
<1>2. job' \in [Sessions -> Job]
  BY <1>1, BecomeType DEF BatchDone, Become, TypeOK, Job, PCs
<1> QED BY <1>1, <1>2, ActorOfSession
        DEF BatchDone, TypeOK, Job, redisVars, localVars, history

LEMMA TypeStoreCursor ==
  ASSUME TypeOK, NEW s \in Sessions, StoreCursor(s) PROVE TypeOK'
<1>1. job[s] \in Job
  BY DEF TypeOK
<1>2. job' \in [Sessions -> Job]
  BY <1>1, BecomeType, PresentType DEF StoreCursor, Become, TypeOK, Job, PCs
<1> QED BY <1>1, <1>2, ActorOfSession
        DEF StoreCursor, TypeOK, Job, redisVars, localVars, history

LEMMA TypeMergeDone ==
  ASSUME TypeOK, NEW s \in Sessions, MergeDone(s) PROVE TypeOK'
<1>1. job[s] \in Job
  BY DEF TypeOK
<1>2. job' \in [Sessions -> Job]
  BY <1>1, BecomeType, IdleType DEF MergeDone, Become, TypeOK, Job, PCs
<1> QED BY <1>1, <1>2, ActorOfSession
        DEF MergeDone, TypeOK, Job, redisVars, localVars, history

LEMMA TypeCheckFingerprint ==
  ASSUME TypeOK, NEW s \in Sessions, CheckFingerprint(s) PROVE TypeOK'
<1>1. job[s] \in Job /\ ActorOf(s) \in Actors
  BY ActorOfSession DEF TypeOK
<1>2. PICK id \in job[s].todo : Become(s, [job[s] EXCEPT
         !.todo = @ \ {id},
         !.op = [seq |-> 0, actor |-> ActorOf(s), id |-> id,
                    entry |-> job[s].snap[id]],
         !.pc = IF fp[ActorOf(s)][id] = job[s].snap[id]
                     THEN "fingerprint" ELSE "incr"])
  BY DEF CheckFingerprint
<1>3. id \in Ids /\ job[s].snap[id] \in Entry
  BY <1>1 DEF Job
<1>4. [seq |-> 0, actor |-> ActorOf(s), id |-> id, entry |-> job[s].snap[id]] \in Op
  BY <1>1, <1>3 DEF Op
<1>5. job' \in [Sessions -> Job]
  BY <1>1, <1>2, <1>3, <1>4, BecomeType DEF Job, PCs
<1> QED BY <1>5 DEF CheckFingerprint, TypeOK, redisVars, localVars, history

LEMMA TypeAllocateSequence ==
  ASSUME TypeOK, NEW s \in Sessions, AllocateSequence(s) PROVE TypeOK'
<1>1. job[s] \in Job /\ seq + 1 \in Nat
  BY DEF TypeOK
<1>2. [job[s] EXCEPT !.op.seq = seq + 1, !.pc = "rpush"] \in Job
  BY <1>1 DEF Job, Op, PCs
<1>3. job' \in [Sessions -> Job] /\ seq' \in Nat
  BY <1>1, <1>2, BecomeType DEF AllocateSequence, incr
<1> QED BY <1>3 DEF AllocateSequence, TypeOK, localVars, history

LEMMA TypePushOperation ==
  ASSUME TypeOK, NEW s \in Sessions, PushOperation(s) PROVE TypeOK'
<1>1. job[s] \in Job /\ job[s].op \in Op
  BY DEF TypeOK, Job
<1>2. job' \in [Sessions -> Job]
  BY <1>1, BecomeType DEF PushOperation, Job, PCs
<1>3. ops' \in Seq(Op) /\ pushed' \in SUBSET Op
  BY <1>1 DEF PushOperation, TypeOK
<1> QED BY <1>2, <1>3 DEF PushOperation, TypeOK, localVars

LEMMA TypeStoreMatrix ==
  ASSUME TypeOK, NEW s \in Sessions, StoreMatrix(s) PROVE TypeOK'
<1> DEFINE j == job[s]
           m == merge_foreign_operation(j.mx, j.op)
<1>1. j \in Job /\ j.op \in Op /\ j.mx \in [Actors -> Nat] /\ j.op.entry \in Entry
  BY DEF TypeOK, Job, Op
<1>2. m \in [Actors -> Nat] /\ read_memory(m) \in SUBSET Nat
  BY <1>1, MergeType, ReadType
<1>3. matrix' \in [Ids -> [Actors -> Nat]]
  BY <1>1, <1>2 DEF StoreMatrix, persist_shared_matrix, TypeOK, Op
<1>4. job' \in [Sessions -> Job]
  <2>1. CASE Become(s, [j EXCEPT !.pc = "next_op", !.mx = NoMatrix, !.op = NoOp])
    BY <2>1, <1>1, NoMatrixType, NoOpType, BecomeType DEF Job, PCs
  <2>2. ASSUME NEW e \in project_entry_from_resolved_values(j.op.entry, read_memory(m)),
               Become(s, [j EXCEPT !.pc = "get_brain", !.mx = NoMatrix, !.op.entry = e])
        PROVE  job' \in [Sessions -> Job]
    <3>1. e \in Entry
      BY <1>1, <1>2, ProjectType
    <3>2. [j EXCEPT !.pc = "get_brain", !.mx = NoMatrix, !.op.entry = e] \in Job
      BY <3>1, <1>1, NoMatrixType DEF Job, Op, PCs
    <3> QED BY <2>2, <3>2, BecomeType
  <2>3. CASE Become(s, [j EXCEPT !.pc = "get_brain", !.mx = NoMatrix])
    BY <2>3, <1>1, NoMatrixType, BecomeType DEF Job, PCs
  <2> QED BY <2>1, <2>2, <2>3 DEF StoreMatrix
<1> QED BY <1>3, <1>4 DEF StoreMatrix, TypeOK, localVars, history

LEMMA TypeTrimOperations ==
  ASSUME TypeOK, NEW s \in Sessions, TrimOperations(s) PROVE TypeOK'
<1>1. job[s] \in Job /\ ops \in Seq(Op)
  BY DEF TypeOK
<1>2. job' \in [Sessions -> Job]
  BY <1>1, BecomeType DEF TrimOperations, Job, PCs
<1>3. ops' \in Seq(Op)
  <2>1. CASE Len(ops) > OpsCap
    <3>1. Len(ops) - OpsCap \in Nat
      BY <2>1, <1>1, ConstantsAssumption
    <3> QED BY <2>1, <3>1, <1>1, LrangeType DEF TrimOperations
  <2>2. CASE ~(Len(ops) > OpsCap)
    BY <2>2, <1>1 DEF TrimOperations
  <2> QED BY <2>1, <2>2
<1> QED BY <1>2, <1>3 DEF TrimOperations, TypeOK, localVars, history

LEMMA TypeReadLength ==
  ASSUME TypeOK, NEW s \in Sessions, ReadLength(s) PROVE TypeOK'
<1>1. job[s] \in Job /\ Len(ops) \in Nat
  BY DEF TypeOK
<1>2. job' \in [Sessions -> Job]
  BY <1>1, BecomeType DEF ReadLength, Job, PCs
<1> QED BY <1>2 DEF ReadLength, TypeOK, redisVars, localVars, history

LEMMA TypeReadRange ==
  ASSUME TypeOK, NEW s \in Sessions, ReadRange(s) PROVE TypeOK'
<1> DEFINE j == job[s]
           start == range_start(j.cur, j.current, j.len)
           raw == IF j.len > 0 THEN lrange(ops, start) ELSE <<>>
<1>1. j \in Job /\ j.cur \in Nat /\ j.current \in Nat /\ j.len \in Nat
  BY DEF TypeOK, Job
<1>2. raw \in Seq(Op)
  <2>1. ops \in Seq(Op) /\ start \in Nat
    BY <1>1, RangeStartType DEF TypeOK
  <2>2. lrange(ops, start) \in Seq(Op)
    BY <2>1, LrangeType
  <2> QED BY <2>2
<1>3. \A k \in DOMAIN raw : raw[k].seq \in Nat
  <2> SUFFICES ASSUME NEW k \in DOMAIN raw PROVE raw[k].seq \in Nat
    OBVIOUS
  <2>1. raw[k] \in Op
    BY <1>2
  <2> QED BY <2>1 DEF Op
<1> HIDE DEF raw, start
<1>4. job' \in [Sessions -> Job]
  <2>1. CASE Become(s, [j EXCEPT !.len = 0, !.pc = "recover"])
    BY <2>1, <1>1, BecomeType DEF Job, PCs
  <2>2. CASE Become(s, [j EXCEPT !.batch = raw, !.next = j.cur, !.current = 0,
                                 !.len = 0, !.pc = "next_op"])
    BY <2>2, <1>1, <1>2, BecomeType DEF Job, PCs
  <2> QED BY <2>1, <2>2 DEF ReadRange, raw, start
<1>5. seen' \in [Actors -> SUBSET Nat]
  <2>1. CASE UNCHANGED seen
    BY <2>1 DEF TypeOK
  <2>2. CASE seen' = [seen EXCEPT ![ActorOf(s)] = @ \cup {raw[k].seq : k \in DOMAIN raw}]
    BY <2>2, <1>3, ActorOfSession DEF TypeOK
  <2> QED BY <2>1, <2>2 DEF ReadRange, raw, start
<1> QED BY <1>4, <1>5 DEF ReadRange, TypeOK, redisVars, localVars

LEMMA TypeRecoverState ==
  ASSUME TypeOK, NEW s \in Sessions, RecoverState(s) PROVE TypeOK'
<1> DEFINE j == job[s]
           Recovered(i) ==
             IF j.got[i].at = 0 \/ read_memory(matrix[i]) = {}
               THEN {NoEntry}
               ELSE project_entry_from_resolved_values(j.got[i], read_memory(matrix[i]))
<1>1. j \in Job /\ j.got \in [Ids -> Entry] /\ j.current \in Nat
  BY DEF TypeOK, Job
<1>2. \A i \in Ids : Recovered(i) \subseteq Entry
  <2> SUFFICES ASSUME NEW i \in Ids, NEW e \in Recovered(i) PROVE e \in Entry
    OBVIOUS
  <2>1. read_memory(matrix[i]) \in SUBSET Nat /\ j.got[i] \in Entry
    BY <1>1, ReadType DEF TypeOK
  <2> QED BY <2>1, ProjectType, NoEntryType
<1>3. job' \in [Sessions -> Job]
  <2>1. PICK got \in [Ids -> UNION {Recovered(i) : i \in Ids}] :
           /\ \A i \in Ids : got[i] \in Recovered(i)
           /\ Become(s, [j EXCEPT !.got = got, !.next = j.current,
                                  !.current = 0, !.pc = "set_cursor"])
    BY DEF RecoverState
  <2>2. got \in [Ids -> Entry]
    <3>1. \A i \in Ids : got[i] \in Entry
      BY <2>1, <1>2
    <3> HIDE DEF Recovered
    <3> QED BY <3>1, <2>1
  <2> HIDE DEF Recovered
  <2> QED BY <2>1, <2>2, <1>1, BecomeType DEF Job, PCs
<1>4. seen' \in [Actors -> SUBSET Nat]
  <2> DEFINE S == {o.seq : o \in {p \in pushed : /\ p.seq <= j.current
                                                 /\ p.entry.at <= j.got[p.id].at}}
  <2>1. S \in SUBSET Nat
    BY DEF TypeOK, Op
  <2>2. seen' = [seen EXCEPT ![ActorOf(s)] = @ \cup S]
    BY DEF RecoverState
  <2> HIDE DEF S
  <2> QED BY <2>1, <2>2, ActorOfSession DEF TypeOK
<1> QED BY <1>3, <1>4 DEF RecoverState, TypeOK, redisVars, localVars

LEMMA TypeNextOperation ==
  ASSUME TypeOK, NEW s \in Sessions, NextOperation(s) PROVE TypeOK'
<1> DEFINE j == job[s]
<1>1. j \in Job /\ j.batch \in Seq(Op) /\ j.next \in Nat
  BY DEF TypeOK, Job
<1>2. Head(j.batch) \in Op /\ Tail(j.batch) \in Seq(Op)
  BY <1>1 DEF NextOperation
<1>3. next_cursor(j.next, Head(j.batch)) \in Nat
  BY <1>1, <1>2 DEF next_cursor, Op
<1>4. job' \in [Sessions -> Job]
  <2> DEFINE o == Head(j.batch)
             skip == o.seq <= j.cur \/ o.actor = ActorOf(s)
  <2>1. Become(s, [j EXCEPT !.batch = Tail(@), !.next = next_cursor(@, o),
                            !.op = IF skip THEN NoOp ELSE o,
                            !.pc = IF skip THEN "next_op" ELSE "get_matrix"])
    BY DEF NextOperation
  <2>2. (IF skip THEN NoOp ELSE o) \in Op
    BY <1>2, NoOpType
  <2>3. (IF skip THEN "next_op" ELSE "get_matrix") \in PCs
    BY DEF PCs
  <2> HIDE DEF skip, o
  <2>4. [j EXCEPT !.batch = Tail(@), !.next = next_cursor(@, o),
                  !.op = IF skip THEN NoOp ELSE o,
                  !.pc = IF skip THEN "next_op" ELSE "get_matrix"] \in Job
    BY <1>1, <1>2, <1>3, <2>2, <2>3 DEF Job, o
  <2> QED BY <2>1, <2>4, BecomeType
<1> QED BY <1>4 DEF NextOperation, TypeOK, redisVars, localVars, history

LEMMA TypeMergeEntry ==
  ASSUME TypeOK, NEW s \in Sessions, MergeEntry(s) PROVE TypeOK'
<1> DEFINE j == job[s]
<1>1. j \in Job /\ j.todo \in SUBSET Ids /\ j.got \in [Ids -> Entry]
  BY DEF TypeOK, Job
<1>2. PICK id \in j.todo :
         /\ Become(s, [j EXCEPT !.todo = @ \ {id}])
         /\ \/ redis_upsert(ActorOf(s), id, j.got[id])
            \/ UNCHANGED <<hash, cache>>
  BY DEF MergeEntry
<1>3. job' \in [Sessions -> Job]
  BY <1>1, <1>2, BecomeType DEF Job
<1>4. hash' \in [Ids -> Entry] /\ cache' \in [Actors -> Seq([Ids -> Entry])]
  <2>1. id \in Ids /\ j.got[id] \in Entry
    BY <1>1, <1>2
  <2> QED BY <1>2, <2>1, UpsertType, ActorOfSession DEF TypeOK
<1> QED BY <1>3, <1>4 DEF MergeEntry, TypeOK, redisVars, history

LEMMA TypePullBack ==
  ASSUME TypeOK, NEW s \in Sessions, PullBack(s) PROVE TypeOK'
<1> DEFINE a == ActorOf(s)
           e == redis_entries(a)
<1>1. a \in Actors /\ e \in [Ids -> Entry] /\ <<e>> \in Seq([Ids -> Entry])
  BY ActorOfSession, EntriesType, OneCopyType
<1>2. job' \in [Sessions -> Job]
  BY IdleType, BecomeType DEF PullBack
<1> HIDE DEF a, e
<1>3. cache' \in [Actors -> Seq([Ids -> Entry])]
  BY <1>1 DEF PullBack, TypeOK, a, e
<1>4. [i \in Ids |-> IF e[i].at # 0 THEN e[i] ELSE sqlite[a][i]] \in [Ids -> Entry]
  BY <1>1 DEF TypeOK
<1>5. sqlite' \in [Actors -> [Ids -> Entry]]
  BY <1>1, <1>4 DEF PullBack, TypeOK, a, e
<1> QED BY <1>2, <1>3, <1>5 DEF PullBack, TypeOK, redisVars, history

LEMMA TypeFailSync ==
  ASSUME TypeOK, NEW s \in Sessions, FailSync(s) PROVE TypeOK'
<1>1. job' \in [Sessions -> Job] /\ faults' \in Nat
  BY IdleType, BecomeType DEF FailSync, TypeOK
<1> QED BY <1>1 DEF FailSync, TypeOK, redisVars, localVars, history

LEMMA TypeStartSync ==
  ASSUME TypeOK, NEW s \in Sessions, StartSync(s) PROVE TypeOK'
<1> DEFINE snap == IF Turns THEN hash ELSE redis_entries(ActorOf(s))
<1>1. ActorOf(s) \in Actors /\ snap \in [Ids -> Entry] /\ <<snap>> \in Seq([Ids -> Entry])
  BY ActorOfSession, EntriesType, OneCopyType DEF TypeOK
<1> HIDE DEF snap
<1>2. [Idle EXCEPT !.pc = "fingerprint", !.snap = snap, !.todo = Present(snap)] \in Job
  BY <1>1, IdleType, PresentType DEF Job, PCs
<1>3. job' \in [Sessions -> Job]
  BY <1>2, BecomeType DEF StartSync, snap
<1>4. cache' \in [Actors -> Seq([Ids -> Entry])]
  BY <1>1 DEF StartSync, TypeOK, snap
<1> QED BY <1>3, <1>4 DEF StartSync, TypeOK, redisVars, history

LEMMA TypeEdit ==
  ASSUME TypeOK, NEW a \in Actors, NEW id \in Ids, Edit(a, id) PROVE TypeOK'
<1> DEFINE e == [txt |-> clock[id] + 1, at |-> clock[id] + 1, tag |-> FALSE]
<1>1. clock[id] + 1 \in Nat
  BY DEF TypeOK
<1>2. e \in Entry /\ [id |-> id, entry |-> e] \in [id : Ids, entry : Entry]
  BY <1>1 DEF Entry
<1> HIDE DEF e
<1>3. clock' \in [Ids -> Nat]
  BY <1>1 DEF Edit, TypeOK
<1>4. sqlite' \in [Actors -> [Ids -> Entry]]
  <2>1. sqlite' = [sqlite EXCEPT ![a][id] = e]
    BY DEF Edit, e
  <2> QED BY <1>2, <2>1 DEF TypeOK
<1>5. inflight' \in [Actors -> SUBSET [id : Ids, entry : Entry]]
  <2>1. inflight' = [inflight EXCEPT ![a] = @ \cup {[id |-> id, entry |-> e]}]
    BY DEF Edit, e
  <2> QED BY <1>2, <2>1 DEF TypeOK
<1> QED BY <1>3, <1>4, <1>5 DEF Edit, TypeOK, redisVars, history

LEMMA TypeLand == ASSUME TypeOK, NEW a \in Actors, Land(a) PROVE TypeOK'
<1>1. PICK t \in inflight[a] : /\ redis_upsert(a, t.id, t.entry)
                               /\ inflight' = [inflight EXCEPT ![a] = @ \ {t}]
  BY DEF Land
<1>2. t.id \in Ids /\ t.entry \in Entry
  BY DEF TypeOK
<1>3. hash' \in [Ids -> Entry] /\ cache' \in [Actors -> Seq([Ids -> Entry])]
  BY <1>1, <1>2, UpsertType
<1>4. inflight' \in [Actors -> SUBSET [id : Ids, entry : Entry]]
  BY <1>1 DEF TypeOK
<1> QED BY <1>3, <1>4 DEF Land, TypeOK, redisVars, history

LEMMA TypeExpireCache ==
  ASSUME TypeOK, NEW a \in Actors, ExpireCache(a) PROVE TypeOK'
<1>1. cache' \in [Actors -> Seq([Ids -> Entry])]
  BY DEF ExpireCache, TypeOK
<1> QED BY <1>1 DEF ExpireCache, TypeOK, redisVars, history

LEMMA TypeCrash == ASSUME TypeOK, NEW a \in Actors, Crash(a) PROVE TypeOK'
<1>1. job' \in [Sessions -> Job] /\ faults' \in Nat
  BY IdleType DEF Crash, TypeOK
<1>2. cache' \in [Actors -> Seq([Ids -> Entry])]
  BY DEF Crash, TypeOK
<1>3. inflight' \in [Actors -> SUBSET [id : Ids, entry : Entry]]
  BY DEF Crash, TypeOK
<1> QED BY <1>1, <1>2, <1>3 DEF Crash, TypeOK, redisVars, history

(* What a read taken for empty leaves in the sync's local variables: still *)
(* a job, not about to push, with no number larger than before.            *)
Bounded(j, n) ==
  /\ j.cur <= n /\ j.current <= n /\ j.next <= n /\ j.op.seq <= n
  /\ \A k \in DOMAIN j.batch : j.batch[k].seq <= n

MayBecome(j, i) ==
  /\ i \in Job /\ i.pc # "rpush"
  /\ \A n \in Nat : Bounded(j, n) => Bounded(i, n)

LEMMA MissedFingerprint ==
  ASSUME NEW j \in Job, NEW o \in Op, o.seq = 0, NEW ids \in SUBSET Ids
  PROVE  MayBecome(j, [j EXCEPT !.todo = ids, !.pc = "incr", !.op = o])
<1> DEFINE i == [j EXCEPT !.todo = ids, !.pc = "incr", !.op = o]
<1>1. i \in Job /\ i.pc # "rpush"
  BY DEF Job, PCs
<1>2. ASSUME NEW n \in Nat, Bounded(j, n) PROVE Bounded(i, n)
  BY <1>2 DEF Bounded, Job
<1> QED BY <1>1, <1>2 DEF MayBecome

LEMMA MissedReading ==
  ASSUME NEW j \in Job
  PROVE  /\ MayBecome(j, [j EXCEPT !.mx = NoMatrix, !.pc = "set_matrix"])
         /\ MayBecome(j, [j EXCEPT !.br = {}, !.pc = "set_brain"])
         /\ MayBecome(j, [j EXCEPT !.cur = 0, !.pull = TRUE, !.did = FALSE,
                                   !.pc = "get_seq"])
         /\ MayBecome(j, [j EXCEPT !.current = 0, !.pc = "llen"])
         /\ MayBecome(j, [j EXCEPT !.len = 0, !.pc = "lrange"])
         /\ MayBecome(j, [j EXCEPT !.got = NoEntries, !.pc = "recover_state"])
         /\ MayBecome(j, [j EXCEPT !.got = NoEntries, !.next = j.current,
                                   !.current = 0, !.pc = "set_cursor"])
<1>1. MayBecome(j, [j EXCEPT !.mx = NoMatrix, !.pc = "set_matrix"])
  BY NoMatrixType DEF MayBecome, Job, PCs, Bounded
<1>2. MayBecome(j, [j EXCEPT !.br = {}, !.pc = "set_brain"])
  BY DEF MayBecome, Job, PCs, Bounded
<1>3. MayBecome(j, [j EXCEPT !.cur = 0, !.pull = TRUE, !.did = FALSE, !.pc = "get_seq"])
  <2> DEFINE i == [j EXCEPT !.cur = 0, !.pull = TRUE, !.did = FALSE, !.pc = "get_seq"]
  <2>1. i \in Job /\ i.pc # "rpush"
    BY DEF Job, PCs
  <2>2. ASSUME NEW n \in Nat, Bounded(j, n) PROVE Bounded(i, n)
    BY <2>2 DEF Bounded, Job
  <2> QED BY <2>1, <2>2 DEF MayBecome
<1>4. MayBecome(j, [j EXCEPT !.current = 0, !.pc = "llen"])
  <2> DEFINE i == [j EXCEPT !.current = 0, !.pc = "llen"]
  <2>1. i \in Job /\ i.pc # "rpush"
    BY DEF Job, PCs
  <2>2. ASSUME NEW n \in Nat, Bounded(j, n) PROVE Bounded(i, n)
    BY <2>2 DEF Bounded, Job
  <2> QED BY <2>1, <2>2 DEF MayBecome
<1>5. MayBecome(j, [j EXCEPT !.len = 0, !.pc = "lrange"])
  BY DEF MayBecome, Job, PCs, Bounded
<1>6. MayBecome(j, [j EXCEPT !.got = NoEntries, !.pc = "recover_state"])
  BY NoEntryType DEF MayBecome, Job, PCs, Bounded
<1>7. MayBecome(j, [j EXCEPT !.got = NoEntries, !.next = j.current, !.current = 0,
                            !.pc = "set_cursor"])
  <2> DEFINE i == [j EXCEPT !.got = NoEntries, !.next = j.current, !.current = 0,
                       !.pc = "set_cursor"]
  <2>1. i \in Job /\ i.pc # "rpush"
    BY NoEntryType DEF Job, PCs
  <2>2. ASSUME NEW n \in Nat, Bounded(j, n) PROVE Bounded(i, n)
    BY <2>2 DEF Bounded, Job
  <2> QED BY <2>1, <2>2 DEF MayBecome
<1> QED BY <1>1, <1>2, <1>3, <1>4, <1>5, <1>6, <1>7

LEMMA MissedJob ==
  ASSUME TypeOK, NEW s \in Sessions, MissRead(s)
  PROVE  \E i : Become(s, i) /\ MayBecome(job[s], i)
<1>1. job[s] \in Job /\ ActorOf(s) \in Actors
  BY ActorOfSession DEF TypeOK
<1>2. ASSUME NEW id \in job[s].todo
      PROVE  MayBecome(job[s], [job[s] EXCEPT !.todo = @ \ {id}, !.pc = "incr",
               !.op = [seq |-> 0, actor |-> ActorOf(s), id |-> id,
                       entry |-> job[s].snap[id]]])
  <2>1. [seq |-> 0, actor |-> ActorOf(s), id |-> id, entry |-> job[s].snap[id]] \in Op
    BY <1>1, <1>2 DEF Job, Op
  <2>2. job[s].todo \ {id} \in SUBSET Ids
    BY <1>1 DEF Job
  <2> QED BY <1>1, <2>1, <2>2, MissedFingerprint
<1> QED BY <1>1, <1>2, MissedReading DEF MissRead

LEMMA DroppedJob ==
  ASSUME TypeOK, NEW s \in Sessions, DropOperation(s)
  PROVE  \E i : Become(s, i) /\ MayBecome(job[s], i)
<1> DEFINE j == job[s]
           i == [j EXCEPT !.pc = "next_op", !.mx = NoMatrix, !.op = NoOp]
<1>1. j \in Job
  BY DEF TypeOK
<1>2. i \in Job /\ i.pc # "rpush"
  BY <1>1, NoMatrixType, NoOpType DEF Job, PCs
<1>3. ASSUME NEW n \in Nat, Bounded(j, n) PROVE Bounded(i, n)
  BY <1>1, <1>3 DEF Bounded, Job, NoOp
<1>4. Become(s, i)
  BY DEF DropOperation
<1> QED BY <1>2, <1>3, <1>4 DEF MayBecome

LEMMA TypeMissRead ==
  ASSUME TypeOK, NEW s \in Sessions, MissRead(s) \/ DropOperation(s) PROVE TypeOK'
<1>1. job' \in [Sessions -> Job]
  BY MissedJob, DroppedJob, BecomeType DEF MayBecome
<1>2. faults' = faults + 1 /\ UNCHANGED <<redisVars, localVars, history>>
  BY DEF MissRead, DropOperation
<1> QED BY <1>1, <1>2 DEF TypeOK, redisVars, localVars, history

LEMMA TypeStep == TypeOK /\ [Next]_vars => TypeOK'
<1> SUFFICES ASSUME TypeOK, [Next]_vars PROVE TypeOK'
  OBVIOUS
<1>1. CASE UNCHANGED vars
  BY <1>1 DEF TypeOK, vars, redisVars, localVars, history
<1>2. ASSUME NEW s \in Sessions, SyncStep(s) PROVE TypeOK'
  BY <1>2, TypeCheckFingerprint, TypePublishDone, TypeAllocateSequence,
     TypePushOperation, TypeRecordFingerprint, TypeLoadMatrix, TypeStoreMatrix,
     TypeLoadBrain, TypeStoreBrain, TypeStoreProjection, TypeTrimOperations,
     TypeReadCursor, TypeReadSequence, TypeReadLength, TypeReadRange,
     TypeRecoverProjections, TypeRecoverState, TypeNextOperation, TypeBatchDone,
     TypeStoreCursor, TypeMergeEntry, TypeMergeDone, TypePullBack DEF SyncStep
<1>3. ASSUME NEW s \in Sessions,
             StartSync(s) \/ FailSync(s) \/ DropOperation(s) \/ MissRead(s)
      PROVE  TypeOK'
  BY <1>3, TypeStartSync, TypeFailSync, TypeMissRead
<1>4. ASSUME NEW a \in Actors, NEW id \in Ids, Edit(a, id) PROVE TypeOK'
  BY <1>4, TypeEdit
<1>5. ASSUME NEW a \in Actors, Land(a) \/ ExpireCache(a) \/ Crash(a) PROVE TypeOK'
  BY <1>5, TypeLand, TypeExpireCache, TypeCrash
<1> QED BY <1>1, <1>2, <1>3, <1>4, <1>5 DEF Next

(* Every key of team.rs in Redis, and every local variable of every sync,  *)
(* keeps its type.                                                         *)
THEOREM TypeCorrect == Spec => []TypeOK
<1>1. Init => TypeOK
  BY InitType
<1>2. TypeOK /\ [Next]_vars => TypeOK'
  BY TypeStep
<1> QED BY <1>1, <1>2, PTL DEF Spec

-----------------------------------------------------------------------------
(* Sequence numbers.  Every number a sync or the list carries was handed   *)
(* out by INCR, so the counter bounds it; and a number not yet pushed is   *)
(* held by one sync only.                                                  *)

CounterBounds ==
  /\ \A k \in DOMAIN ops : ops[k].seq <= seq
  /\ CursorBehindCounter
  /\ \A s \in Sessions : Bounded(job[s], seq)

Pushing(s) == job[s].pc = "rpush"

FreshNumbers ==
  /\ UniqueNumbers
  /\ \A s \in Sessions : Pushing(s) =>
       /\ \A k \in DOMAIN ops : ops[k].seq # job[s].op.seq
       /\ \A t \in Sessions \ {s} : Pushing(t) => job[t].op.seq # job[s].op.seq

NumberInv == TypeOK /\ CounterBounds /\ FreshNumbers

LEMMA BoundedIdle == \A n \in Nat : Bounded(Idle, n)
<1>1. DOMAIN Idle.batch = {}
  BY DEF Idle
<1> QED BY <1>1 DEF Idle, NoOp, Bounded

LEMMA BoundedMonotone ==
  ASSUME NEW j \in Job, NEW m \in Nat, NEW n \in Nat, m <= n, Bounded(j, m)
  PROVE  Bounded(j, n)
<1>1. /\ j.cur \in Nat /\ j.current \in Nat /\ j.next \in Nat
      /\ j.op \in Op /\ j.batch \in Seq(Op)
  BY DEF Job
<1>2. \A k \in DOMAIN j.batch : j.batch[k] \in Op
  BY <1>1
<1>3. \A o \in Op : o.seq \in Nat
  BY DEF Op
<1> QED BY <1>1, <1>2, <1>3 DEF Bounded

(* A step of one sync that moves the list and the cursors within the       *)
(* counter keeps the bounds.                                               *)
LEMMA KeepBounds ==
  ASSUME TypeOK, TypeOK', CounterBounds,
         NEW s \in Sessions, NEW j, Become(s, j),
         seq <= seq', Bounded(j, seq'),
         \A k \in DOMAIN ops' : ops'[k].seq <= seq',
         CursorBehindCounter'
  PROVE  CounterBounds'
<1>1. seq \in Nat /\ seq' \in Nat /\ job \in [Sessions -> Job]
  BY DEF TypeOK
<1>2. ASSUME NEW t \in Sessions PROVE Bounded(job'[t], seq')
  <2>1. CASE t = s
    BY <1>1, <2>1 DEF Become
  <2>2. CASE t # s
    <3>1. job'[t] = job[t] /\ job[t] \in Job
      BY <1>1, <2>2 DEF Become
    <3> QED BY <1>1, <3>1, BoundedMonotone DEF CounterBounds
  <2> QED BY <2>1, <2>2
<1> QED BY <1>2 DEF CounterBounds

LEMMA KeepBoundsQuiet ==
  ASSUME TypeOK, TypeOK', CounterBounds,
         NEW s \in Sessions, NEW j, Become(s, j),
         UNCHANGED <<seq, ops, cursor>>, Bounded(j, seq)
  PROVE  CounterBounds'
<1>1. seq \in Nat
  BY DEF TypeOK
<1>2. /\ seq <= seq' /\ Bounded(j, seq')
      /\ \A k \in DOMAIN ops' : ops'[k].seq <= seq'
      /\ CursorBehindCounter'
  BY <1>1 DEF CounterBounds, CursorBehindCounter
<1> QED BY <1>2, KeepBounds

(* A step that pushes nothing, may drop operations, and does not bring its *)
(* sync to the push, keeps the numbers fresh.                              *)
LEMMA KeepFresh ==
  ASSUME TypeOK, FreshNumbers,
         NEW s \in Sessions, NEW j, Become(s, j),
         j.pc # "rpush", UNCHANGED ops
  PROVE  FreshNumbers'
<1>1. \A t \in Sessions : job'[t] = IF t = s THEN j ELSE job[t]
  BY DEF Become, TypeOK
<1>2. \A t \in Sessions : Pushing(t)' => Pushing(t) /\ job'[t] = job[t]
  BY <1>1 DEF Pushing
<1> QED BY <1>1, <1>2 DEF FreshNumbers, UniqueNumbers

(* What a step that hands out no number, pushes nothing and moves no       *)
(* cursor does to the numbers its sync holds.                              *)
Harmless(s) ==
  /\ UNCHANGED <<seq, ops, cursor>>
  /\ Become(s, job'[s]) /\ Bounded(job'[s], seq) /\ job'[s].pc # "rpush"

LEMMA HarmlessKeeps ==
  ASSUME NumberInv, TypeOK', NEW s \in Sessions, Harmless(s)
  PROVE  NumberInv'
<1>1. CounterBounds'
  BY KeepBoundsQuiet DEF NumberInv, Harmless
<1>2. FreshNumbers'
  BY KeepFresh DEF NumberInv, Harmless
<1> QED BY <1>1, <1>2 DEF NumberInv

LEMMA HarmlessSteps ==
  ASSUME NumberInv, NEW s \in Sessions,
         \/ PublishDone(s) \/ RecordFingerprint(s) \/ LoadMatrix(s) \/ LoadBrain(s)
         \/ StoreBrain(s) \/ StoreProjection(s) \/ ReadLength(s) \/ RecoverProjections(s)
         \/ BatchDone(s) \/ MergeEntry(s) \/ CheckFingerprint(s) \/ ReadSequence(s)
         \/ ReadCursor(s)
  PROVE  Harmless(s)
<1>1. job[s] \in Job /\ job \in [Sessions -> Job] /\ Bounded(job[s], seq) /\ seq \in Nat
  BY DEF NumberInv, TypeOK, CounterBounds
<1>2. cursor[ActorOf(s)] <= seq
  BY ActorOfSession DEF NumberInv, CounterBounds, CursorBehindCounter
<1>3. CASE PublishDone(s)
  BY <1>1, <1>2, <1>3 DEF PublishDone, Harmless, Become, Bounded, Job, Op, redisVars, NoOp
<1>4. CASE RecordFingerprint(s)
  BY <1>1, <1>2, <1>4 DEF RecordFingerprint, Harmless, Become, Bounded, Job, Op, redisVars
<1>5. CASE LoadMatrix(s)
  BY <1>1, <1>2, <1>5 DEF LoadMatrix, Harmless, Become, Bounded, Job, Op, redisVars
<1>6. CASE LoadBrain(s)
  BY <1>1, <1>2, <1>6 DEF LoadBrain, Harmless, Become, Bounded, Job, Op, redisVars
<1>7. CASE StoreBrain(s)
  BY <1>1, <1>2, <1>7 DEF StoreBrain, Harmless, Become, Bounded, Job, Op, redisVars
<1>8. CASE StoreProjection(s)
  BY <1>1, <1>2, <1>8 DEF StoreProjection, Harmless, Become, Bounded, Job, Op, redisVars, NoOp
<1>9. CASE ReadLength(s)
  BY <1>1, <1>2, <1>9 DEF ReadLength, Harmless, Become, Bounded, Job, Op, redisVars
<1>10. CASE RecoverProjections(s)
  BY <1>1, <1>2, <1>10 DEF RecoverProjections, Harmless, Become, Bounded, Job, Op, redisVars
<1>11. CASE BatchDone(s)
  BY <1>1, <1>2, <1>11 DEF BatchDone, Harmless, Become, Bounded, Job, Op, redisVars
<1>12. CASE MergeEntry(s)
  BY <1>1, <1>2, <1>12 DEF MergeEntry, Harmless, Become, Bounded, Job, Op, redisVars
<1>13. CASE CheckFingerprint(s)
  <2>1. PICK id \in job[s].todo :
          Become(s, [job[s] EXCEPT
            !.todo = @ \ {id},
            !.op = [seq |-> 0, actor |-> ActorOf(s), id |-> id,
                    entry |-> job[s].snap[id]],
            !.pc = IF fp[ActorOf(s)][id] = job[s].snap[id]
                     THEN "fingerprint" ELSE "incr"])
    BY <1>13 DEF CheckFingerprint
  <2>2. Become(s, job'[s]) /\ Bounded(job'[s], seq) /\ job'[s].pc # "rpush"
    BY <1>1, <2>1 DEF Become, Bounded, Job
  <2> QED BY <1>13, <2>2 DEF CheckFingerprint, Harmless, redisVars
<1>14. CASE ReadSequence(s)
  BY <1>1, <1>2, <1>14 DEF ReadSequence, Harmless, Become, Bounded, Job, Op, redisVars
<1>15. CASE ReadCursor(s)
  BY <1>1, <1>2, <1>15 DEF ReadCursor, Harmless, Become, Bounded, Job, Op, redisVars
<1> QED BY <1>3, <1>4, <1>5, <1>6, <1>7, <1>8, <1>9, <1>10, <1>11, <1>12, <1>13, <1>14, <1>15

LEMMA HarmlessResets ==
  ASSUME NumberInv, NEW s \in Sessions, PullBack(s) \/ FailSync(s) \/ MergeDone(s)
  PROVE  Harmless(s)
<1>1. seq \in Nat /\ job \in [Sessions -> Job] /\ Idle.pc # "rpush"
  BY DEF NumberInv, TypeOK, Idle
<1>2. Bounded(Idle, seq)
  BY <1>1, BoundedIdle
<1>3. CASE PullBack(s) \/ FailSync(s)
  BY <1>1, <1>2, <1>3 DEF PullBack, FailSync, Harmless, Become, redisVars
<1>4. CASE MergeDone(s)
  <2>1. Bounded([Idle EXCEPT !.pc = "pull_back"], seq)
    BY <1>2 DEF Idle, Bounded
  <2>2. [Idle EXCEPT !.pc = "pull_back"].pc # "rpush"
    BY DEF Idle
  <2> QED BY <1>1, <1>2, <1>4, <2>1, <2>2 DEF MergeDone, Harmless, Become, redisVars
<1> QED BY <1>3, <1>4

LEMMA HarmlessMissRead ==
  ASSUME NumberInv, NEW s \in Sessions, MissRead(s) \/ DropOperation(s)
  PROVE  Harmless(s)
<1>1. seq \in Nat /\ job \in [Sessions -> Job] /\ Bounded(job[s], seq)
  BY DEF NumberInv, TypeOK, CounterBounds
<1>2. PICK j : Become(s, j) /\ MayBecome(job[s], j)
  BY MissedJob, DroppedJob DEF NumberInv
<1>3. job'[s] = j /\ j.pc # "rpush" /\ Bounded(j, seq)
  BY <1>1, <1>2 DEF Become, MayBecome
<1>4. UNCHANGED <<seq, ops, cursor>>
  BY DEF MissRead, DropOperation, redisVars
<1> QED BY <1>2, <1>3, <1>4 DEF Harmless

LEMMA HarmlessStartSync ==
  ASSUME NumberInv, NEW s \in Sessions, StartSync(s)
  PROVE  Harmless(s)
<1>1. seq \in Nat /\ job \in [Sessions -> Job]
  BY DEF NumberInv, TypeOK
<1>2. Bounded(Idle, seq)
  BY <1>1, BoundedIdle
<1>3. PICK snap, todo :
        Become(s, [Idle EXCEPT !.pc = "fingerprint", !.snap = snap, !.todo = todo])
  BY DEF StartSync
<1>4. Become(s, job'[s]) /\ Bounded(job'[s], seq) /\ job'[s].pc # "rpush"
  BY <1>1, <1>2, <1>3 DEF Become, Bounded, Idle
<1> QED BY <1>4 DEF StartSync, Harmless, redisVars

LEMMA HarmlessStoreMatrix ==
  ASSUME NumberInv, NEW s \in Sessions, StoreMatrix(s)
  PROVE  Harmless(s)
<1>1. job[s] \in Job /\ job \in [Sessions -> Job] /\ Bounded(job[s], seq) /\ seq \in Nat
  BY DEF NumberInv, TypeOK, CounterBounds
<1>2. \/ Become(s, [job[s] EXCEPT !.pc = "next_op", !.mx = NoMatrix, !.op = NoOp])
      \/ \E e : Become(s, [job[s] EXCEPT !.pc = "get_brain", !.mx = NoMatrix,
                                         !.op.entry = e])
      \/ Become(s, [job[s] EXCEPT !.pc = "get_brain", !.mx = NoMatrix])
  BY DEF StoreMatrix
<1>3. \A e : [job[s].op EXCEPT !.entry = e].seq = job[s].op.seq
  BY <1>1 DEF Job, Op
<1>4. Become(s, job'[s]) /\ Bounded(job'[s], seq) /\ job'[s].pc # "rpush"
  <2>1. CASE \E e : Become(s, [job[s] EXCEPT !.pc = "get_brain", !.mx = NoMatrix,
                                             !.op.entry = e])
    <3>1. PICK e : Become(s, [job[s] EXCEPT !.pc = "get_brain", !.mx = NoMatrix,
                                            !.op = [job[s].op EXCEPT !.entry = e]])
      BY <1>1, <2>1 DEF Job
    <3> DEFINE o == [job[s].op EXCEPT !.entry = e]
    <3>2. o.seq <= seq
      BY <1>1, <1>3 DEF Bounded
    <3> HIDE DEF o
    <3>3. Become(s, [job[s] EXCEPT !.pc = "get_brain", !.mx = NoMatrix, !.op = o])
      BY <3>1 DEF o
    <3> QED BY <1>1, <3>2, <3>3 DEF Become, Bounded, Job
  <2>2. CASE \/ Become(s, [job[s] EXCEPT !.pc = "next_op", !.mx = NoMatrix, !.op = NoOp])
             \/ Become(s, [job[s] EXCEPT !.pc = "get_brain", !.mx = NoMatrix])
    <3> DEFINE none == NoOp
    <3>1. none.seq <= seq
      BY <1>1 DEF NoOp
    <3> HIDE DEF none
    <3>2. CASE Become(s, [job[s] EXCEPT !.pc = "next_op", !.mx = NoMatrix, !.op = none])
      BY <1>1, <3>1, <3>2 DEF Become, Bounded, Job
    <3>3. CASE Become(s, [job[s] EXCEPT !.pc = "get_brain", !.mx = NoMatrix])
      BY <1>1, <3>3 DEF Become, Bounded, Job
    <3> QED BY <2>2, <3>2, <3>3 DEF none
  <2> QED BY <1>2, <2>1, <2>2
<1> QED BY <1>4 DEF StoreMatrix, Harmless

(* The operation taken from the batch brings a bounded number with it.     *)
LEMMA HarmlessNextOperation ==
  ASSUME NumberInv, NEW s \in Sessions, NextOperation(s)
  PROVE  Harmless(s)
<1> DEFINE o == Head(job[s].batch)
<1>1. job[s] \in Job /\ job \in [Sessions -> Job] /\ Bounded(job[s], seq) /\ seq \in Nat
  BY DEF NumberInv, TypeOK, CounterBounds
<1>2. job[s].batch \in Seq(Op) /\ job[s].batch # <<>>
  BY <1>1 DEF NextOperation, Job
<1>3. o \in Op /\ o.seq <= seq
  BY <1>1, <1>2 DEF Bounded
<1>4. \A k \in DOMAIN Tail(job[s].batch) : Tail(job[s].batch)[k].seq <= seq
  BY <1>1, <1>2 DEF Bounded
<1>5. next_cursor(job[s].next, o) <= seq
  BY <1>1, <1>3 DEF next_cursor, Bounded
<1>6. PICK op, pc : /\ Become(s, [job[s] EXCEPT !.batch = Tail(@),
                                    !.next = next_cursor(@, o), !.op = op, !.pc = pc])
                    /\ op \in {NoOp, o} /\ pc \in {"next_op", "get_matrix"}
  BY DEF NextOperation
<1>7. op.seq <= seq
  BY <1>1, <1>3, <1>6 DEF NoOp
<1>8. /\ Become(s, job'[s]) /\ job'[s].pc # "rpush" /\ job'[s].batch = Tail(job[s].batch)
      /\ job'[s].next = next_cursor(job[s].next, o) /\ job'[s].op = op
      /\ job'[s].cur = job[s].cur /\ job'[s].current = job[s].current
  BY <1>1, <1>6 DEF Become, Job
<1>9. Bounded(job'[s], seq)
  BY <1>1, <1>4, <1>5, <1>7, <1>8 DEF Bounded
<1> QED BY <1>8, <1>9 DEF NextOperation, Harmless, redisVars

(* LRANGE returns operations of the list.                                  *)
LEMMA HarmlessReadRange ==
  ASSUME NumberInv, NEW s \in Sessions, ReadRange(s)
  PROVE  Harmless(s)
<1> DEFINE j == job[s]
           raw == IF j.len > 0 THEN lrange(ops, range_start(j.cur, j.current, j.len))
                               ELSE <<>>
<1>1. j \in Job /\ job \in [Sessions -> Job] /\ Bounded(j, seq) /\ seq \in Nat
  BY DEF NumberInv, TypeOK, CounterBounds
<1>2. range_start(j.cur, j.current, j.len) \in Nat /\ ops \in Seq(Op)
  BY <1>1, RangeStartType DEF Job, NumberInv, TypeOK
<1>3. \A k \in DOMAIN ops : ops[k].seq <= seq
  BY DEF NumberInv, CounterBounds
<1>4. \A k \in DOMAIN raw : raw[k].seq <= seq
  <2>1. DOMAIN <<>> = {}
    OBVIOUS
  <2>2. \A k \in DOMAIN lrange(ops, range_start(j.cur, j.current, j.len)) :
          lrange(ops, range_start(j.cur, j.current, j.len))[k].seq <= seq
    BY <1>2, <1>3, LrangeType
  <2> QED BY <2>1, <2>2
<1> HIDE DEF raw
<1>5. \/ Become(s, [j EXCEPT !.len = 0, !.pc = "recover"])
      \/ Become(s, [j EXCEPT !.batch = raw, !.next = j.cur, !.current = 0,
                             !.len = 0, !.pc = "next_op"])
  BY DEF ReadRange, raw
<1>6. Become(s, job'[s]) /\ Bounded(job'[s], seq) /\ job'[s].pc # "rpush"
  <2>1. CASE Become(s, [j EXCEPT !.len = 0, !.pc = "recover"])
    BY <1>1, <2>1 DEF Become, Bounded, Job
  <2>2. CASE Become(s, [j EXCEPT !.batch = raw, !.next = j.cur, !.current = 0,
                                 !.len = 0, !.pc = "next_op"])
    <3>1. /\ Become(s, job'[s]) /\ job'[s].pc # "rpush" /\ job'[s].batch = raw
          /\ job'[s].next = j.cur /\ job'[s].cur = j.cur
          /\ job'[s].current = 0 /\ job'[s].op = j.op
      BY <1>1, <2>2 DEF Become, Job
    <3> QED BY <1>1, <1>4, <3>1 DEF Bounded
  <2> QED BY <1>5, <2>1, <2>2
<1> QED BY <1>6 DEF ReadRange, Harmless, redisVars

LEMMA HarmlessRecoverState ==
  ASSUME NumberInv, NEW s \in Sessions, RecoverState(s)
  PROVE  Harmless(s)
<1>1. job[s] \in Job /\ job \in [Sessions -> Job] /\ Bounded(job[s], seq) /\ seq \in Nat
  BY DEF NumberInv, TypeOK, CounterBounds
<1>2. PICK got : Become(s, [job[s] EXCEPT !.got = got, !.next = job[s].current,
                                          !.current = 0, !.pc = "set_cursor"])
  BY DEF RecoverState
<1>3. Become(s, job'[s]) /\ Bounded(job'[s], seq) /\ job'[s].pc # "rpush"
  BY <1>1, <1>2 DEF Become, Bounded, Job
<1> QED BY <1>3 DEF RecoverState, Harmless, redisVars

(* LTRIM keeps a suffix of the list.                                       *)
LEMMA NumbersTrim ==
  ASSUME NumberInv, TypeOK', NEW s \in Sessions, TrimOperations(s)
  PROVE  NumberInv'
<1> DEFINE start == Len(ops) - OpsCap
<1>1. /\ job[s] \in Job /\ job \in [Sessions -> Job] /\ Bounded(job[s], seq)
      /\ seq \in Nat /\ ops \in Seq(Op) /\ OpsCap \in Nat
  BY ConstantsAssumption DEF NumberInv, TypeOK, CounterBounds
<1>2. Become(s, job'[s]) /\ Bounded(job'[s], seq) /\ job'[s].pc # "rpush"
  BY <1>1 DEF TrimOperations, Become, Bounded, Job
<1>3. ASSUME NEW k \in DOMAIN ops'
      PROVE  \E l \in DOMAIN ops : ops'[k] = ops[l]
                                   /\ l = k + IF Len(ops) > OpsCap THEN start ELSE 0
  <2>1. CASE Len(ops) > OpsCap
    <3>1. start \in Nat /\ start <= Len(ops) /\ Len(ops) \in Nat
      BY <1>1, <2>1
    <3>2. ops' = SubSeq(ops, start + 1, Len(ops))
      BY <2>1 DEF TrimOperations, lrange
    <3> HIDE DEF start
    <3>3. DOMAIN ops' = 1..(Len(ops) - start)
      BY <1>1, <3>1, <3>2
    <3>4. ops'[k] = ops[k + start] /\ k + start \in DOMAIN ops
      BY <1>1, <1>3, <3>1, <3>2, <3>3
    <3> QED BY <2>1, <3>4
  <2>2. CASE ~(Len(ops) > OpsCap)
    BY <1>1, <1>3, <2>2 DEF TrimOperations
  <2> QED BY <2>1, <2>2
<1>4. seq' = seq /\ cursor' = cursor
  BY DEF TrimOperations
<1>5. \A k \in DOMAIN ops' : ops'[k].seq <= seq'
  BY <1>3, <1>4 DEF NumberInv, CounterBounds
<1>6. CounterBounds'
  <2>1. CursorBehindCounter' /\ seq <= seq' /\ Bounded(job'[s], seq')
    BY <1>1, <1>2, <1>4 DEF NumberInv, CounterBounds, CursorBehindCounter
  <2> QED BY <1>2, <1>5, <2>1, KeepBounds DEF NumberInv
<1>7. \A t \in Sessions : Pushing(t)' => Pushing(t) /\ job'[t] = job[t]
  BY <1>1, <1>2 DEF Pushing, Become
<1>8. UniqueNumbers'
  <2> SUFFICES ASSUME NEW k \in DOMAIN ops', NEW l \in DOMAIN ops',
                      ops'[k].seq = ops'[l].seq
               PROVE  k = l
    BY DEF UniqueNumbers
  <2>1. PICK kk \in DOMAIN ops : ops'[k] = ops[kk]
          /\ kk = k + IF Len(ops) > OpsCap THEN start ELSE 0
    BY <1>3
  <2>2. PICK ll \in DOMAIN ops : ops'[l] = ops[ll]
          /\ ll = l + IF Len(ops) > OpsCap THEN start ELSE 0
    BY <1>3
  <2>3. kk = ll
    BY <2>1, <2>2 DEF NumberInv, FreshNumbers, UniqueNumbers
  <2>4. ops' \in Seq(Op) /\ k \in Nat /\ l \in Nat
    BY DEF TypeOK
  <2> QED BY <1>1, <2>1, <2>2, <2>3, <2>4
<1>9. FreshNumbers'
  BY <1>3, <1>7, <1>8 DEF NumberInv, FreshNumbers
<1> QED BY <1>6, <1>9 DEF NumberInv

(* The cursor stored is next_cursor, which the counter bounds.             *)
LEMMA NumbersStoreCursor ==
  ASSUME NumberInv, TypeOK', NEW s \in Sessions, StoreCursor(s)
  PROVE  NumberInv'
<1>1. job[s] \in Job /\ job \in [Sessions -> Job] /\ Bounded(job[s], seq) /\ seq \in Nat
  BY DEF NumberInv, TypeOK, CounterBounds
<1>2. PICK todo : Become(s, [job[s] EXCEPT !.cur = 0, !.next = 0, !.pc = "merge",
                                           !.todo = todo])
  BY DEF StoreCursor
<1>3. Become(s, job'[s]) /\ Bounded(job'[s], seq) /\ job'[s].pc # "rpush"
  BY <1>1, <1>2 DEF Become, Bounded, Job
<1>4. seq' = seq /\ ops' = ops /\ cursor' = [cursor EXCEPT ![ActorOf(s)] = job[s].next]
  BY DEF StoreCursor
<1>5. CursorBehindCounter'
  BY <1>1, <1>4 DEF NumberInv, TypeOK, CounterBounds, CursorBehindCounter, Bounded
<1>6. CounterBounds'
  <2>1. seq <= seq' /\ Bounded(job'[s], seq') /\ \A k \in DOMAIN ops' : ops'[k].seq <= seq'
    BY <1>1, <1>3, <1>4 DEF NumberInv, CounterBounds
  <2> QED BY <1>3, <1>5, <2>1, KeepBounds DEF NumberInv
<1>7. FreshNumbers'
  BY <1>3, <1>4, KeepFresh DEF NumberInv
<1> QED BY <1>6, <1>7 DEF NumberInv

(* INCR hands out a number above every number in use.                      *)
LEMMA NumbersAllocate ==
  ASSUME NumberInv, TypeOK', NEW s \in Sessions, AllocateSequence(s)
  PROVE  NumberInv'
<1>1. job[s] \in Job /\ job \in [Sessions -> Job] /\ Bounded(job[s], seq) /\ seq \in Nat
  BY DEF NumberInv, TypeOK, CounterBounds
<1>2. seq' = seq + 1 /\ ops' = ops /\ cursor' = cursor
  BY DEF AllocateSequence, incr
<1> DEFINE o == [job[s].op EXCEPT !.seq = seq + 1]
<1>3. o.seq = seq + 1
  BY <1>1 DEF Job, Op
<1>4. Become(s, [job[s] EXCEPT !.op = o, !.pc = "rpush"])
  BY <1>1 DEF AllocateSequence, incr, Job
<1> HIDE DEF o
<1>5. /\ Become(s, job'[s]) /\ job'[s].op = o /\ job'[s].cur = job[s].cur
      /\ job'[s].current = job[s].current /\ job'[s].next = job[s].next
      /\ job'[s].batch = job[s].batch
  BY <1>1, <1>4 DEF Become, Job
<1>6. Bounded(job[s], seq')
  BY <1>1, <1>2, BoundedMonotone
<1>7. Bounded(job'[s], seq')
  BY <1>1, <1>2, <1>3, <1>5, <1>6 DEF Bounded
<1>8. \A k \in DOMAIN ops : ops[k].seq <= seq /\ ops[k].seq \in Nat
  <2>1. \A k \in DOMAIN ops : ops[k] \in Op
    BY DEF NumberInv, TypeOK
  <2> QED BY <2>1 DEF NumberInv, CounterBounds, Op
<1>9. CursorBehindCounter' /\ seq <= seq' /\ \A k \in DOMAIN ops' : ops'[k].seq <= seq'
  <2>1. \A a \in Actors : cursor[a] \in Nat /\ cursor[a] <= seq
    BY DEF NumberInv, TypeOK, CounterBounds, CursorBehindCounter
  <2> QED BY <1>1, <1>2, <1>8, <2>1 DEF CursorBehindCounter
<1>10. CounterBounds'
  BY <1>5, <1>7, <1>9, KeepBounds DEF NumberInv
<1>11. \A t \in Sessions : job[t].op.seq <= seq /\ job[t].op.seq \in Nat
  <2>1. \A t \in Sessions : job[t] \in Job
    BY DEF NumberInv, TypeOK
  <2> QED BY <2>1 DEF NumberInv, CounterBounds, Bounded, Job, Op
<1>12. \A t \in Sessions \ {s} : job'[t] = job[t]
  BY <1>1, <1>5 DEF Become
<1>13. FreshNumbers'
  <2>1. UniqueNumbers'
    BY <1>2 DEF NumberInv, FreshNumbers, UniqueNumbers
  <2>2. \A t \in Sessions \ {s} : job'[t].op.seq # job'[s].op.seq
    BY <1>1, <1>3, <1>5, <1>11, <1>12
  <2>3. \A k \in DOMAIN ops' : ops'[k].seq # job'[s].op.seq
    BY <1>1, <1>2, <1>3, <1>5, <1>8
  <2> QED BY <1>2, <1>12, <2>1, <2>2, <2>3 DEF NumberInv, FreshNumbers, Pushing
<1> QED BY <1>10, <1>13 DEF NumberInv

(* RPUSH appends the number held, which nothing else carries.              *)
LEMMA NumbersPush ==
  ASSUME NumberInv, TypeOK', NEW s \in Sessions, PushOperation(s)
  PROVE  NumberInv'
<1>1. /\ job[s] \in Job /\ job \in [Sessions -> Job] /\ Bounded(job[s], seq)
      /\ seq \in Nat /\ ops \in Seq(Op) /\ job[s].op \in Op
  BY DEF NumberInv, TypeOK, CounterBounds, Job
<1>2. ops' = Append(ops, job[s].op) /\ seq' = seq /\ cursor' = cursor /\ Pushing(s)
  BY DEF PushOperation, Pushing
<1>3. Become(s, job'[s]) /\ Bounded(job'[s], seq) /\ job'[s].pc # "rpush"
  BY <1>1 DEF PushOperation, Become, Bounded, Job
<1>4. \A k \in DOMAIN ops' : \/ k \in DOMAIN ops /\ ops'[k] = ops[k]
                             \/ k = Len(ops) + 1 /\ ops'[k] = job[s].op
  BY <1>1, <1>2
<1>5. \A k \in DOMAIN ops' : ops'[k].seq <= seq'
  BY <1>1, <1>2, <1>4 DEF NumberInv, CounterBounds, Bounded
<1>6. CounterBounds'
  <2>1. CursorBehindCounter' /\ seq <= seq' /\ Bounded(job'[s], seq')
    BY <1>1, <1>2, <1>3 DEF NumberInv, CounterBounds, CursorBehindCounter
  <2> QED BY <1>3, <1>5, <2>1, KeepBounds DEF NumberInv
<1>7. \A k \in DOMAIN ops : ops[k].seq # job[s].op.seq
  BY <1>2 DEF NumberInv, FreshNumbers
<1>8. UniqueNumbers'
  <2>1. \A k, l \in DOMAIN ops : ops[k].seq = ops[l].seq => k = l
    BY DEF NumberInv, FreshNumbers, UniqueNumbers
  <2> QED BY <1>4, <1>7, <2>1 DEF UniqueNumbers
<1>9. \A t \in Sessions : Pushing(t)' => t # s /\ Pushing(t) /\ job'[t] = job[t]
  BY <1>1, <1>3 DEF Pushing, Become
<1>10. FreshNumbers'
  <2>1. ASSUME NEW t \in Sessions, Pushing(t)'
        PROVE  \A k \in DOMAIN ops' : ops'[k].seq # job'[t].op.seq
    BY <1>2, <1>4, <1>9, <2>1 DEF NumberInv, FreshNumbers
  <2>2. ASSUME NEW t \in Sessions, Pushing(t)'
        PROVE  \A u \in Sessions \ {t} : Pushing(u)' => job'[u].op.seq # job'[t].op.seq
    BY <1>9, <2>2 DEF NumberInv, FreshNumbers
  <2> QED BY <1>8, <2>1, <2>2 DEF FreshNumbers
<1> QED BY <1>6, <1>10 DEF NumberInv

(* A crash only resets syncs.                                              *)
LEMMA NumbersCrash ==
  ASSUME NumberInv, TypeOK', NEW a \in Actors, Crash(a)
  PROVE  NumberInv'
<1>1. seq \in Nat /\ seq' = seq /\ ops' = ops /\ cursor' = cursor
  BY DEF NumberInv, TypeOK, Crash, redisVars
<1>2. \A t \in Sessions : job'[t] = Idle \/ job'[t] = job[t]
  BY DEF Crash
<1>3. Idle.pc # "rpush" /\ Bounded(Idle, seq)
  BY <1>1, BoundedIdle DEF Idle
<1>4. CounterBounds'
  BY <1>1, <1>2, <1>3 DEF NumberInv, CounterBounds, CursorBehindCounter
<1>5. \A t \in Sessions : Pushing(t)' => Pushing(t) /\ job'[t] = job[t]
  BY <1>2, <1>3 DEF Pushing
<1>6. FreshNumbers'
  BY <1>1, <1>5 DEF NumberInv, FreshNumbers, UniqueNumbers
<1> QED BY <1>4, <1>6 DEF NumberInv

LEMMA NumberStep == NumberInv /\ [Next]_vars => NumberInv'
<1> SUFFICES ASSUME NumberInv, [Next]_vars PROVE NumberInv'
  OBVIOUS
<1>1. TypeOK'
  BY TypeStep DEF NumberInv
<1>2. ASSUME UNCHANGED <<seq, ops, cursor, job>> PROVE NumberInv'
  BY <1>1, <1>2 DEF NumberInv, CounterBounds, CursorBehindCounter, FreshNumbers,
                    UniqueNumbers, Pushing
<1>3. CASE UNCHANGED vars
  BY <1>2, <1>3 DEF vars, redisVars
<1>4. ASSUME NEW s \in Sessions, SyncStep(s) PROVE NumberInv'
  BY <1>1, <1>4, HarmlessKeeps, HarmlessSteps, HarmlessResets, HarmlessStoreMatrix,
     HarmlessNextOperation, HarmlessReadRange, HarmlessRecoverState,
     NumbersTrim, NumbersStoreCursor, NumbersAllocate, NumbersPush DEF SyncStep
<1>5. ASSUME NEW s \in Sessions,
             StartSync(s) \/ FailSync(s) \/ DropOperation(s) \/ MissRead(s)
      PROVE  NumberInv'
  BY <1>1, <1>5, HarmlessKeeps, HarmlessResets, HarmlessStartSync, HarmlessMissRead
<1>6. ASSUME NEW a \in Actors, NEW id \in Ids, Edit(a, id) PROVE NumberInv'
  BY <1>2, <1>6 DEF Edit, redisVars
<1>7. ASSUME NEW a \in Actors, Land(a) \/ ExpireCache(a) \/ Crash(a) PROVE NumberInv'
  BY <1>1, <1>2, <1>7, NumbersCrash DEF Land, ExpireCache, redisVars
<1> QED BY <1>3, <1>4, <1>5, <1>6, <1>7 DEF Next

LEMMA NumberInit == Init => NumberInv
<1> SUFFICES ASSUME Init PROVE NumberInv
  OBVIOUS
<1>1. TypeOK
  BY InitType
<1>2. DOMAIN ops = {} /\ seq = 0 /\ seq \in Nat
  BY DEF Init
<1>3. \A s \in Sessions : Bounded(job[s], seq) /\ ~Pushing(s)
  BY <1>2, BoundedIdle DEF Init, Pushing, Idle
<1>4. CursorBehindCounter
  BY DEF Init, CursorBehindCounter
<1> QED BY <1>1, <1>2, <1>3, <1>4
        DEF NumberInv, CounterBounds, FreshNumbers, UniqueNumbers

LEMMA NumberCorrect == Spec => []NumberInv
<1> QED BY NumberInit, NumberStep, PTL DEF Spec

(* However many publish_entries overlap, fail or crash between INCR and    *)
(* RPUSH, no two operations of the list carry the same number.             *)
THEOREM UniqueNumbersHolds == Spec => []UniqueNumbers
<1>1. NumberInv => UniqueNumbers
  BY DEF NumberInv, FreshNumbers
<1> QED BY <1>1, NumberCorrect, PTL

(* The cursor pull_operations stores is at most the counter, although it   *)
(* is computed from values read long before, or taken for 0.               *)
THEOREM CursorBehindCounterHolds == Spec => []CursorBehindCounter
<1>1. NumberInv => CursorBehindCounter
  BY DEF NumberInv, CounterBounds
<1> QED BY <1>1, NumberCorrect, PTL

-----------------------------------------------------------------------------
(* Every entry on its way through Redis and the daemons was written by a   *)
(* user: it has a text, and a time stamp of one of the edits.              *)

Edited(e) == e.txt # 0 /\ e.at # 0 /\ e.at <= MaxEdits
AllEdited(entries) == \A i \in Ids : entries[i].at # 0 => Edited(entries[i])

OpPCs == {"incr", "rpush", "hset_fp", "get_matrix", "set_matrix", "get_brain",
          "set_brain", "projection"}

JobEdited(j) ==
  /\ AllEdited(j.snap) /\ AllEdited(j.got)
  /\ j.pc = "fingerprint" => j.todo \subseteq Present(j.snap)
  /\ j.pc = "merge" => j.todo \subseteq Present(j.got)
  /\ j.pc \in OpPCs => Edited(j.op.entry)
  /\ j.pc # "merge" /\ ~j.pull => j.todo \subseteq Present(j.snap)
  /\ \A k \in DOMAIN j.batch : Edited(j.batch[k].entry)

StoresEdited ==
  /\ AllEdited(hash) /\ AllEdited(proj)
  /\ \A a \in Actors : cache[a] # <<>> => AllEdited(cache[a][1])
  /\ \A a \in Actors : \A t \in inflight[a] : Edited(t.entry)
  /\ \A k \in DOMAIN ops : Edited(ops[k].entry)
  /\ \A o \in pushed : Edited(o.entry)

EditInv == TypeOK /\ StoresEdited /\ \A s \in Sessions : JobEdited(job[s])

LEMMA NoneEdited == AllEdited(NoEntries) /\ Present(NoEntries) = {}
BY DEF AllEdited, NoEntries, NoEntry, Present

LEMMA IdleEdited == JobEdited(Idle)
<1>1. /\ Idle.snap = NoEntries /\ Idle.got = NoEntries /\ Idle.pc = "idle" /\ Idle.todo = {}
      /\ DOMAIN Idle.batch = {}
  BY DEF Idle
<1> QED BY <1>1, NoneEdited DEF JobEdited, OpPCs

\* A step of sync s that leaves the stores alone.
LEMMA EditKeeps ==
  ASSUME EditInv, TypeOK', NEW s \in Sessions, NEW j, Become(s, j), JobEdited(j), StoresEdited'
  PROVE  EditInv'
<1>1. \A t \in Sessions : job'[t] = IF t = s THEN j ELSE job[t]
  BY DEF Become, EditInv, TypeOK
<1> QED BY <1>1 DEF EditInv

LEMMA SameStores ==
  ASSUME StoresEdited, UNCHANGED <<hash, proj, cache, inflight, ops, pushed>>
  PROVE  StoresEdited'
BY DEF StoresEdited, AllEdited

\* Putting an edited entry among edited ones.
LEMMA PutEdited ==
  ASSUME NEW entries \in [Ids -> Entry], AllEdited(entries), NEW id \in Ids, NEW e \in Entry, Edited(e)
  PROVE  AllEdited([entries EXCEPT ![id] = e])
BY DEF AllEdited

LEMMA EditSteps ==
  ASSUME EditInv, NEW s \in Sessions,
         \/ PublishDone(s) \/ AllocateSequence(s) \/ RecordFingerprint(s) \/ LoadMatrix(s)
         \/ LoadBrain(s) \/ StoreBrain(s) \/ ReadCursor(s) \/ ReadSequence(s) \/ ReadLength(s)
         \/ RecoverProjections(s) \/ BatchDone(s)
  PROVE  JobEdited(job'[s]) /\ UNCHANGED <<hash, proj, cache, inflight, ops, pushed>>
<1>1. job[s] \in Job /\ job \in [Sessions -> Job] /\ JobEdited(job[s]) /\ AllEdited(proj)
  BY DEF EditInv, TypeOK, StoresEdited
<1>2. UNCHANGED <<hash, proj, cache, inflight, ops, pushed>>
  BY DEF PublishDone, AllocateSequence, RecordFingerprint, LoadMatrix, LoadBrain, StoreBrain,
         ReadCursor, ReadSequence, ReadLength, RecoverProjections, BatchDone, redisVars,
         localVars, history
<1>3. CASE PublishDone(s)
  BY <1>1, <1>2, <1>3 DEF PublishDone, Become, Job, JobEdited, OpPCs
<1>4. CASE AllocateSequence(s)
  BY <1>1, <1>2, <1>4 DEF AllocateSequence, Become, Job, Op, JobEdited, OpPCs
<1>5. CASE RecordFingerprint(s)
  BY <1>1, <1>2, <1>5 DEF RecordFingerprint, Become, Job, JobEdited, OpPCs
<1>6. CASE LoadMatrix(s)
  BY <1>1, <1>2, <1>6 DEF LoadMatrix, Become, Job, JobEdited, OpPCs
<1>7. CASE LoadBrain(s)
  BY <1>1, <1>2, <1>7 DEF LoadBrain, Become, Job, JobEdited, OpPCs
<1>8. CASE StoreBrain(s)
  BY <1>1, <1>2, <1>8 DEF StoreBrain, Become, Job, JobEdited, OpPCs
<1>9. CASE ReadCursor(s)
  BY <1>1, <1>2, <1>9 DEF ReadCursor, Become, Job, JobEdited, OpPCs
<1>10. CASE ReadSequence(s)
  BY <1>1, <1>2, <1>10 DEF ReadSequence, Become, Job, JobEdited, OpPCs
<1>11. CASE ReadLength(s)
  BY <1>1, <1>2, <1>11 DEF ReadLength, Become, Job, JobEdited, OpPCs
<1>12. CASE RecoverProjections(s)
  BY <1>1, <1>2, <1>12 DEF RecoverProjections, Become, Job, JobEdited, OpPCs
<1>13. CASE BatchDone(s)
  BY <1>1, <1>2, <1>13 DEF BatchDone, Become, Job, JobEdited, OpPCs
<1> QED BY <1>2, <1>3, <1>4, <1>5, <1>6, <1>7, <1>8, <1>9, <1>10, <1>11, <1>12, <1>13

LEMMA EditCheck ==
  ASSUME EditInv, NEW s \in Sessions, NEW id \in job[s].todo, job[s].pc = "fingerprint",
         NEW pc \in {"fingerprint", "incr"},
         Become(s, [job[s] EXCEPT !.todo = @ \ {id}, !.pc = pc,
                      !.op = [seq |-> 0, actor |-> ActorOf(s), id |-> id, entry |-> job[s].snap[id]]])
  PROVE  JobEdited(job'[s])
<1>1. job[s] \in Job /\ job \in [Sessions -> Job] /\ JobEdited(job[s])
  BY DEF EditInv, TypeOK
<1>2. Edited(job[s].snap[id])
  BY <1>1 DEF JobEdited, Present, AllEdited, Job
<1>3. PICK o : o = [seq |-> 0, actor |-> ActorOf(s), id |-> id, entry |-> job[s].snap[id]]
  OBVIOUS
<1>4. o.entry = job[s].snap[id]
  BY <1>3
<1>5. Become(s, [job[s] EXCEPT !.todo = @ \ {id}, !.pc = pc, !.op = o])
  BY <1>3
<1> QED BY <1>1, <1>2, <1>4, <1>5 DEF Become, Job, JobEdited, OpPCs

LEMMA EditPush ==
  ASSUME EditInv, TypeOK', NEW s \in Sessions, PushOperation(s) PROVE EditInv'
<1>1. job[s] \in Job /\ job \in [Sessions -> Job] /\ JobEdited(job[s]) /\ ops \in Seq(Op) /\ StoresEdited
  BY DEF EditInv, TypeOK
<1>2. /\ ops' = Append(ops, job[s].op) /\ pushed' = pushed \cup {job[s].op} /\ job[s].pc = "rpush"
      /\ UNCHANGED <<hash, proj, cache, inflight>> /\ Become(s, [job[s] EXCEPT !.pc = "hset_fp"])
  BY DEF PushOperation, localVars
<1>3. Edited(job[s].op.entry)
  BY <1>1, <1>2 DEF JobEdited, OpPCs
<1>4. \A k \in DOMAIN ops' : Edited(ops'[k].entry)
  <2>1. job[s].op \in Op
    BY <1>1 DEF Job
  <2> QED BY <1>1, <1>2, <1>3, <2>1 DEF StoresEdited
<1>5. StoresEdited'
  BY <1>1, <1>2, <1>3, <1>4 DEF StoresEdited, AllEdited
<1>6. JobEdited([job[s] EXCEPT !.pc = "hset_fp"])
  <2>1. job[s].pc = "rpush"
    BY <1>2
  <2> QED BY <1>1, <1>3, <2>1 DEF Job, JobEdited, OpPCs
<1> QED BY <1>2, <1>5, <1>6, EditKeeps

\* What a merge leaves of an edited operation is a text.
LEMMA MergeEdited ==
  ASSUME NEW m \in [Actors -> Nat], NEW o \in Op, o.entry.txt # 0
  PROVE  read_memory(merge_foreign_operation(m, o)) # {}
<1>1. merge_foreign_operation(m, o)[o.actor] # 0 /\ o.actor \in Actors
  BY DEF merge_foreign_operation, Op
<1> QED BY <1>1 DEF read_memory

LEMMA ProjectEdited ==
  ASSUME NEW e \in Entry, NEW texts \in SUBSET (Nat \ {0}), NEW p \in project_entry_from_resolved_values(e, texts),
         e.at # 0, e.at <= MaxEdits
  PROVE  Edited(p)
BY ProjectType DEF Edited

LEMMA ReadEdited == \A m \in [Actors -> Nat] : read_memory(m) \in SUBSET (Nat \ {0})
BY DEF read_memory

LEMMA EditStoreMatrix ==
  ASSUME EditInv, NEW s \in Sessions, StoreMatrix(s) PROVE JobEdited(job'[s])
<1>1. job[s] \in Job /\ job \in [Sessions -> Job] /\ JobEdited(job[s]) /\ job[s].pc = "set_matrix"
  BY DEF EditInv, TypeOK, StoreMatrix
<1>2. /\ Edited(job[s].op.entry) /\ job[s].op \in Op /\ job[s].op.entry \in Entry /\ job[s].mx \in [Actors -> Nat]
  BY <1>1 DEF JobEdited, OpPCs, Job, Op
<1>3. PICK texts \in SUBSET (Nat \ {0}) : texts = read_memory(merge_foreign_operation(job[s].mx, job[s].op))
  BY <1>2, MergeType, ReadEdited
<1>4. CASE Become(s, [job[s] EXCEPT !.pc = "next_op", !.mx = NoMatrix, !.op = NoOp])
  <2>1. PICK none : none = NoOp
    OBVIOUS
  <2>2. Become(s, [job[s] EXCEPT !.pc = "next_op", !.mx = NoMatrix, !.op = none])
    BY <1>4, <2>1
  <2> QED BY <1>1, <2>2 DEF Become, Job, JobEdited, OpPCs
<1>5. CASE Become(s, [job[s] EXCEPT !.pc = "get_brain", !.mx = NoMatrix])
  BY <1>1, <1>2, <1>5 DEF Become, Job, JobEdited, OpPCs
<1>6. ASSUME NEW e \in project_entry_from_resolved_values(job[s].op.entry, texts),
             Become(s, [job[s] EXCEPT !.pc = "get_brain", !.mx = NoMatrix, !.op.entry = e])
      PROVE  JobEdited(job'[s])
  <2>1. Edited(e)
    BY <1>2, ProjectEdited DEF Edited
  <2>2. PICK o : o = [job[s].op EXCEPT !.entry = e]
    OBVIOUS
  <2>3. o.entry = e
    BY <1>2, <2>2 DEF Op
  <2>4. Become(s, [job[s] EXCEPT !.pc = "get_brain", !.mx = NoMatrix, !.op = o])
    BY <1>1, <1>6, <2>2 DEF Job
  <2> QED BY <1>1, <2>1, <2>3, <2>4 DEF Become, Job, JobEdited, OpPCs
<1> QED BY <1>3, <1>4, <1>5, <1>6 DEF StoreMatrix

LEMMA EditStoreProjection ==
  ASSUME EditInv, TypeOK', NEW s \in Sessions, StoreProjection(s) PROVE EditInv'
<1>1. /\ job[s] \in Job /\ job \in [Sessions -> Job] /\ JobEdited(job[s]) /\ job[s].pc = "projection"
      /\ StoresEdited /\ proj \in [Ids -> Entry]
  BY DEF EditInv, TypeOK, StoreProjection
<1>2. /\ Edited(job[s].op.entry) /\ job[s].op.id \in Ids /\ job[s].op.entry \in Entry
      /\ AllEdited(job[s].got) /\ job[s].got \in [Ids -> Entry]
  BY <1>1 DEF JobEdited, OpPCs, Job, Op
<1>3. PICK got : got = IF job[s].pull THEN Newest(job[s].got, job[s].op.id, job[s].op.entry) ELSE job[s].got
  OBVIOUS
<1>4. AllEdited(got)
  BY <1>2, <1>3, PutEdited DEF Newest
<1>5. PICK none, pc, did : /\ pc \in {"next_op", "fingerprint"} /\ (pc = "fingerprint" => ~job[s].pull)
                           /\ Become(s, [job[s] EXCEPT !.op = none, !.pc = pc, !.did = did, !.got = got])
  <2>1. PICK pc : pc = IF job[s].pull THEN "next_op" ELSE "fingerprint"
    OBVIOUS
  <2>2. PICK did : did = (job[s].did \/ ~job[s].pull)
    OBVIOUS
  <2>3. Become(s, [job[s] EXCEPT !.op = NoOp, !.pc = pc, !.did = did, !.got = got])
    BY <1>1, <1>3, <2>1, <2>2 DEF StoreProjection, Job
  <2> QED BY <2>1, <2>3
<1>6. JobEdited([job[s] EXCEPT !.op = none, !.pc = pc, !.did = did, !.got = got])
  BY <1>1, <1>4, <1>5 DEF Job, JobEdited, OpPCs
<1>7. StoresEdited'
  <2>1. AllEdited(proj')
    BY <1>1, <1>2, PutEdited DEF StoreProjection, StoresEdited
  <2> QED BY <1>1, <2>1 DEF StoreProjection, StoresEdited, AllEdited, localVars, history
<1> QED BY <1>5, <1>6, <1>7, EditKeeps

LEMMA EditTrim ==
  ASSUME EditInv, TypeOK', NEW s \in Sessions, TrimOperations(s) PROVE EditInv'
<1>1. /\ job[s] \in Job /\ job \in [Sessions -> Job] /\ JobEdited(job[s]) /\ StoresEdited
      /\ ops \in Seq(Op) /\ OpsCap \in Nat
  BY ConstantsAssumption DEF EditInv, TypeOK
<1>2. Become(s, [job[s] EXCEPT !.pc = "get_cursor"]) /\ JobEdited([job[s] EXCEPT !.pc = "get_cursor"])
  BY <1>1 DEF TrimOperations, Job, JobEdited, OpPCs
<1>3. \A k \in DOMAIN ops' : \E l \in DOMAIN ops : ops'[k] = ops[l]
  <2>1. CASE Len(ops) > OpsCap
    <3>1. PICK start \in Nat : start = Len(ops) - OpsCap
      BY <1>1, <2>1
    <3> QED BY <1>1, <2>1, <3>1, LrangeType DEF TrimOperations
  <2>2. CASE ~(Len(ops) > OpsCap)
    BY <2>2 DEF TrimOperations
  <2> QED BY <2>1, <2>2
<1>4. StoresEdited'
  BY <1>1, <1>3 DEF TrimOperations, StoresEdited, AllEdited, localVars, history
<1> QED BY <1>2, <1>4, EditKeeps

LEMMA EditReadRange ==
  ASSUME EditInv, NEW s \in Sessions, ReadRange(s) PROVE JobEdited(job'[s])
<1>1. /\ job[s] \in Job /\ job \in [Sessions -> Job] /\ JobEdited(job[s]) /\ StoresEdited /\ job[s].pc = "lrange"
      /\ ops \in Seq(Op)
  BY DEF EditInv, TypeOK, ReadRange
<1>2. PICK raw : /\ raw = IF job[s].len > 0 THEN lrange(ops, range_start(job[s].cur, job[s].current, job[s].len))
                                           ELSE <<>>
  OBVIOUS
<1>3. \A k \in DOMAIN raw : Edited(raw[k].entry)
  <2>1. DOMAIN <<>> = {}
    OBVIOUS
  <2>2. range_start(job[s].cur, job[s].current, job[s].len) \in Nat
    BY <1>1, RangeStartType DEF Job
  <2>3. PICK start \in Nat : start = range_start(job[s].cur, job[s].current, job[s].len)
    BY <2>2
  <2>4. \A k \in DOMAIN lrange(ops, start) : Edited(lrange(ops, start)[k].entry)
    BY <1>1, LrangeType DEF StoresEdited
  <2> QED BY <1>2, <2>1, <2>3, <2>4
<1>4. \/ Become(s, [job[s] EXCEPT !.len = 0, !.pc = "recover"])
      \/ Become(s, [job[s] EXCEPT !.batch = raw, !.next = job[s].cur, !.current = 0,
                                  !.len = 0, !.pc = "next_op"])
  BY <1>2 DEF ReadRange
<1>5. CASE Become(s, [job[s] EXCEPT !.len = 0, !.pc = "recover"])
  BY <1>1, <1>5 DEF Become, Job, JobEdited, OpPCs
<1>6. CASE Become(s, [job[s] EXCEPT !.batch = raw, !.next = job[s].cur, !.current = 0, !.len = 0, !.pc = "next_op"])
  <2>1. /\ job'[s].snap = job[s].snap /\ job'[s].got = job[s].got /\ job'[s].pc = "next_op"
        /\ job'[s].batch = raw /\ job'[s].todo = job[s].todo /\ job'[s].pull = job[s].pull
    BY <1>1, <1>6 DEF Become, Job
  <2> QED BY <1>1, <1>3, <2>1 DEF JobEdited, OpPCs
<1> QED BY <1>4, <1>5, <1>6

LEMMA EditRecoverState ==
  ASSUME EditInv, NEW s \in Sessions, RecoverState(s) PROVE JobEdited(job'[s])
<1>1. job[s].pc = "recover_state" /\ job[s] \in Job /\ job \in [Sessions -> Job] /\ JobEdited(job[s]) /\ matrix \in [Ids -> [Actors -> Nat]]
  BY DEF EditInv, TypeOK, RecoverState
<1>2. PICK got : /\ Become(s, [job[s] EXCEPT !.got = got, !.next = job[s].current, !.current = 0,
                                             !.pc = "set_cursor"])
                 /\ \A i \in Ids :
                      got[i] \in IF job[s].got[i].at = 0 \/ read_memory(matrix[i]) = {} THEN {NoEntry}
                                 ELSE project_entry_from_resolved_values(job[s].got[i], read_memory(matrix[i]))
  BY DEF RecoverState
<1>3. ASSUME NEW i \in Ids, got[i].at # 0 PROVE Edited(got[i])
  <2>1. job[s].got[i] \in Entry /\ AllEdited(job[s].got) /\ read_memory(matrix[i]) \in SUBSET (Nat \ {0})
    BY <1>1, ReadEdited DEF Job, JobEdited
  <2>2. CASE got[i] = NoEntry
    BY <1>3, <2>2 DEF NoEntry
  <2>3. CASE job[s].got[i].at # 0 /\ got[i] \in project_entry_from_resolved_values(job[s].got[i], read_memory(matrix[i]))
    BY <2>1, <2>3, ProjectEdited DEF AllEdited, Edited
  <2> QED BY <1>2, <2>2, <2>3
<1>4. AllEdited(got)
  BY <1>3 DEF AllEdited
<1> QED BY <1>1, <1>2, <1>4 DEF Become, Job, JobEdited, OpPCs

LEMMA EditNextOperation ==
  ASSUME EditInv, NEW s \in Sessions, NextOperation(s) PROVE JobEdited(job'[s])
<1>1. job[s].pc = "next_op" /\ job[s] \in Job /\ job \in [Sessions -> Job] /\ JobEdited(job[s])
  BY DEF EditInv, TypeOK, NextOperation
<1>2. job[s].batch \in Seq(Op) /\ job[s].batch # <<>>
  BY <1>1 DEF NextOperation, Job
<1>3. PICK o, rest : o = Head(job[s].batch) /\ rest = Tail(job[s].batch)
  OBVIOUS
<1>4. Edited(o.entry) /\ \A k \in DOMAIN rest : Edited(rest[k].entry)
  BY <1>1, <1>2, <1>3 DEF JobEdited
<1>5. PICK op, pc, next : /\ Become(s, [job[s] EXCEPT !.batch = rest, !.next = next, !.op = op, !.pc = pc])
                          /\ pc = "next_op" \/ (pc = "get_matrix" /\ op = o)
  <2>1. PICK skip : skip = (o.seq <= job[s].cur \/ o.actor = ActorOf(s))
    OBVIOUS
  <2>2. Become(s, [job[s] EXCEPT !.batch = rest, !.next = next_cursor(job[s].next, o),
                      !.op = IF skip THEN NoOp ELSE o, !.pc = IF skip THEN "next_op" ELSE "get_matrix"])
    BY <1>1, <1>3, <2>1 DEF NextOperation, Job
  <2> QED BY <2>2
<1> QED BY <1>1, <1>4, <1>5 DEF Become, Job, JobEdited, OpPCs

LEMMA EditStoreCursor ==
  ASSUME EditInv, NEW s \in Sessions, StoreCursor(s) PROVE JobEdited(job'[s])
<1>1. job[s] \in Job /\ job \in [Sessions -> Job] /\ JobEdited(job[s])
  BY DEF EditInv, TypeOK
<1>2. Become(s, [job[s] EXCEPT !.cur = 0, !.next = 0, !.pc = "merge", !.todo = Present(job[s].got)])
  BY <1>1 DEF StoreCursor, Job
<1> QED BY <1>1, <1>2 DEF Become, Job, JobEdited, OpPCs

LEMMA UpsertEdited ==
  ASSUME TypeOK, StoresEdited, NEW a \in Actors, NEW id \in Ids, NEW e \in Entry, Edited(e),
         redis_upsert(a, id, e)
  PROVE  AllEdited(hash') /\ \A b \in Actors : cache'[b] # <<>> => AllEdited(cache'[b][1])
<1>1. cache \in [Actors -> Seq([Ids -> Entry])] /\ hash \in [Ids -> Entry]
  BY DEF TypeOK
<1>2. AllEdited(hash')
  BY <1>1, PutEdited DEF redis_upsert, StoresEdited
<1>3. cache[a] # <<>> => cache[a][1] \in [Ids -> Entry] /\ AllEdited([cache[a][1] EXCEPT ![id] = e])
  BY <1>1, PutEdited DEF StoresEdited
<1>4. ASSUME NEW b \in Actors, cache'[b] # <<>> PROVE AllEdited(cache'[b][1])
  <2>1. CASE b = a
    <3>1. PICK new : new = [cache[a][1] EXCEPT ![id] = e]
      OBVIOUS
    <3>2. cache'[a] = IF cache[a] = <<>> THEN cache[a] ELSE <<new>>
      BY <1>1, <3>1 DEF redis_upsert
    <3> QED BY <1>3, <1>4, <2>1, <3>1, <3>2
  <2>2. CASE b # a
    BY <1>1, <1>4, <2>2 DEF redis_upsert, StoresEdited
  <2> QED BY <2>1, <2>2
<1> QED BY <1>2, <1>4

LEMMA EditMerge ==
  ASSUME EditInv, TypeOK', NEW s \in Sessions, MergeEntry(s) PROVE EditInv'
<1>1. /\ job[s] \in Job /\ job \in [Sessions -> Job] /\ JobEdited(job[s]) /\ StoresEdited
      /\ job[s].pc = "merge" /\ ActorOf(s) \in Actors
  BY ActorOfSession DEF EditInv, TypeOK, MergeEntry
<1>2. PICK id \in job[s].todo : /\ Become(s, [job[s] EXCEPT !.todo = @ \ {id}])
                                /\ redis_upsert(ActorOf(s), id, job[s].got[id]) \/ UNCHANGED <<hash, cache>>
  BY DEF MergeEntry
<1>3. id \in Ids /\ job[s].got[id] \in Entry /\ Edited(job[s].got[id])
  BY <1>1 DEF JobEdited, Present, AllEdited, Job
<1>4. AllEdited(hash') /\ \A b \in Actors : cache'[b] # <<>> => AllEdited(cache'[b][1])
  <2>1. CASE redis_upsert(ActorOf(s), id, job[s].got[id])
    BY <1>1, <1>3, <2>1, UpsertEdited DEF EditInv
  <2>2. CASE UNCHANGED <<hash, cache>>
    BY <1>1, <2>2 DEF StoresEdited, AllEdited
  <2> QED BY <1>2, <2>1, <2>2
<1>5. StoresEdited'
  BY <1>1, <1>4 DEF MergeEntry, StoresEdited, AllEdited, redisVars, history
<1>6. JobEdited([job[s] EXCEPT !.todo = @ \ {id}])
  BY <1>1 DEF Job, JobEdited, OpPCs
<1> QED BY <1>2, <1>5, <1>6, EditKeeps

LEMMA EntriesEdited ==
  ASSUME StoresEdited PROVE AllEdited(hash) /\ \A a \in Actors : AllEdited(redis_entries(a))
BY DEF StoresEdited, redis_entries

LEMMA EditCache ==
  ASSUME TypeOK, StoresEdited, NEW a \in Actors, NEW entries, AllEdited(entries),
         cache' = [cache EXCEPT ![a] = <<entries>>],
         UNCHANGED <<hash, proj, inflight, ops, pushed>>
  PROVE  StoresEdited'
<1>1. \A b \in Actors : cache'[b] # <<>> => AllEdited(cache'[b][1])
  BY DEF TypeOK, StoresEdited
<1> QED BY <1>1 DEF StoresEdited, AllEdited

LEMMA EditStart ==
  ASSUME EditInv, TypeOK', NEW s \in Sessions, StartSync(s) PROVE EditInv'
<1>1. StoresEdited /\ TypeOK /\ ActorOf(s) \in Actors
  BY ActorOfSession DEF EditInv
<1>2. PICK snap : /\ snap = IF Turns THEN hash ELSE redis_entries(ActorOf(s))
                  /\ cache' = [cache EXCEPT ![ActorOf(s)] = <<snap>>]
                  /\ Become(s, [Idle EXCEPT !.pc = "fingerprint", !.snap = snap, !.todo = Present(snap)])
  BY DEF StartSync
<1>3. AllEdited(snap)
  BY <1>1, <1>2, EntriesEdited
<1>4. UNCHANGED <<hash, proj, inflight, ops, pushed>>
  BY DEF StartSync, redisVars, history
<1>5. StoresEdited'
  BY <1>1, <1>2, <1>3, <1>4, EditCache
<1>6. JobEdited([Idle EXCEPT !.pc = "fingerprint", !.snap = snap, !.todo = Present(snap)])
  <2>1. Idle.got = NoEntries /\ DOMAIN Idle.batch = {}
    BY DEF Idle
  <2>2. PICK j : j = [Idle EXCEPT !.pc = "fingerprint", !.snap = snap, !.todo = Present(snap)]
    OBVIOUS
  <2>3. /\ j.pc = "fingerprint" /\ j.snap = snap /\ j.todo = Present(snap) /\ j.got = NoEntries
        /\ DOMAIN j.batch = {}
    BY <2>1, <2>2 DEF Idle
  <2> QED BY <1>3, <2>2, <2>3, NoneEdited DEF JobEdited, OpPCs
<1> QED BY <1>2, <1>5, <1>6, EditKeeps

LEMMA EditReset ==
  ASSUME EditInv, TypeOK', NEW s \in Sessions, MergeDone(s) \/ PullBack(s) \/ FailSync(s) PROVE EditInv'
<1>1. StoresEdited /\ TypeOK /\ ActorOf(s) \in Actors
  BY ActorOfSession DEF EditInv
<1>2. JobEdited([Idle EXCEPT !.pc = "pull_back"])
  BY IdleEdited DEF Idle, JobEdited, OpPCs
<1>3. PICK j : Become(s, j) /\ JobEdited(j)
  BY <1>2, IdleEdited DEF MergeDone, PullBack, FailSync
<1>4. StoresEdited'
  <2>1. CASE MergeDone(s) \/ FailSync(s)
    BY <1>1, <2>1, SameStores DEF MergeDone, FailSync, redisVars, localVars, history
  <2>2. CASE PullBack(s)
    <3>1. UNCHANGED <<hash, proj, inflight, ops, pushed>>
      BY <2>2 DEF PullBack, redisVars, history
    <3>2. cache' = [cache EXCEPT ![ActorOf(s)] = <<redis_entries(ActorOf(s))>>]
      BY <2>2 DEF PullBack
    <3> QED BY <1>1, <3>1, <3>2, EditCache, EntriesEdited
  <2> QED BY <2>1, <2>2
<1> QED BY <1>3, <1>4, EditKeeps

LEMMA EditMissRead ==
  ASSUME EditInv, TypeOK', NEW s \in Sessions, MissRead(s) \/ DropOperation(s) PROVE EditInv'
<1>1. job[s] \in Job /\ job \in [Sessions -> Job] /\ JobEdited(job[s]) /\ StoresEdited
  BY DEF EditInv, TypeOK
<1>2. StoresEdited'
  BY <1>1, SameStores DEF MissRead, DropOperation, redisVars, localVars, history
<1>3. CASE DropOperation(s)
  <2>1. PICK none, mx : Become(s, [job[s] EXCEPT !.pc = "next_op", !.mx = mx, !.op = none])
    BY <1>3 DEF DropOperation
  <2>2. JobEdited([job[s] EXCEPT !.pc = "next_op", !.mx = mx, !.op = none])
    BY <1>1, <1>3 DEF DropOperation, Job, JobEdited, OpPCs
  <2> QED BY <1>2, <2>1, <2>2, EditKeeps
<1>4. ASSUME NEW id \in job[s].todo, job[s].pc = "fingerprint",
             Become(s, [job[s] EXCEPT !.todo = @ \ {id}, !.pc = "incr",
                      !.op = [seq |-> 0, actor |-> ActorOf(s), id |-> id, entry |-> job[s].snap[id]]])
      PROVE  EditInv'
  <2>1. JobEdited(job'[s]) /\ Become(s, job'[s])
    BY <1>1, <1>4, EditCheck DEF Become
  <2> QED BY <1>2, <2>1, EditKeeps
<1>5. CASE \E i : /\ Become(s, i)
                  /\ \/ job[s].pc = "get_matrix" /\ i = [job[s] EXCEPT !.mx = NoMatrix, !.pc = "set_matrix"]
                     \/ job[s].pc = "get_brain" /\ i = [job[s] EXCEPT !.br = {}, !.pc = "set_brain"]
  <2>1. JobEdited([job[s] EXCEPT !.mx = NoMatrix, !.pc = "set_matrix"]) \/ job[s].pc # "get_matrix"
    BY <1>1 DEF Job, JobEdited, OpPCs
  <2>2. JobEdited([job[s] EXCEPT !.br = {}, !.pc = "set_brain"]) \/ job[s].pc # "get_brain"
    BY <1>1 DEF Job, JobEdited, OpPCs
  <2> QED BY <1>2, <1>5, <2>1, <2>2, EditKeeps
<1>6. CASE \E i : /\ Become(s, i) /\ job[s].pc \in {"get_cursor", "get_seq", "llen"}
                  /\ \/ i = [job[s] EXCEPT !.cur = 0, !.pull = TRUE, !.did = FALSE, !.pc = "get_seq"]
                     \/ i = [job[s] EXCEPT !.current = 0, !.pc = "llen"]
                     \/ i = [job[s] EXCEPT !.len = 0, !.pc = "lrange"]
  <2>1. JobEdited([job[s] EXCEPT !.cur = 0, !.pull = TRUE, !.did = FALSE, !.pc = "get_seq"])
    BY <1>1 DEF Job, JobEdited, OpPCs
  <2>2. JobEdited([job[s] EXCEPT !.current = 0, !.pc = "llen"])
    BY <1>1, <1>6 DEF Job, JobEdited, OpPCs
  <2>3. JobEdited([job[s] EXCEPT !.len = 0, !.pc = "lrange"])
    BY <1>1, <1>6 DEF Job, JobEdited, OpPCs
  <2> QED BY <1>2, <1>6, <2>1, <2>2, <2>3, EditKeeps
<1>7. CASE \E i : /\ Become(s, i) /\ job[s].pc \in {"recover", "recover_state"}
                  /\ \/ i = [job[s] EXCEPT !.got = NoEntries, !.pc = "recover_state"]
                     \/ i = [job[s] EXCEPT !.got = NoEntries, !.next = job[s].current, !.current = 0,
                                           !.pc = "set_cursor"]
  <2>1. JobEdited([job[s] EXCEPT !.got = NoEntries, !.pc = "recover_state"])
    BY <1>1, <1>7, NoneEdited DEF Job, JobEdited, OpPCs
  <2>2. JobEdited([job[s] EXCEPT !.got = NoEntries, !.next = job[s].current, !.current = 0, !.pc = "set_cursor"])
    BY <1>1, <1>7, NoneEdited DEF Job, JobEdited, OpPCs
  <2> QED BY <1>2, <1>7, <2>1, <2>2, EditKeeps
<1> QED BY <1>1, <1>3, <1>4, <1>5, <1>6, <1>7 DEF MissRead

LEMMA EditUsers ==
  ASSUME EditInv, TypeOK', NEW a \in Actors, (\E id \in Ids : Edit(a, id)) \/ Land(a) \/ ExpireCache(a) \/ Crash(a)
  PROVE  EditInv'
<1>1. StoresEdited /\ TypeOK /\ inflight \in [Actors -> SUBSET [id : Ids, entry : Entry]]
  BY DEF EditInv, TypeOK
<1>2. ASSUME NEW id \in Ids, Edit(a, id) PROVE EditInv'
  <2>1. PICK e : /\ e = [txt |-> clock[id] + 1, at |-> clock[id] + 1, tag |-> FALSE]
                 /\ inflight' = [inflight EXCEPT ![a] = @ \cup {[id |-> id, entry |-> e]}]
    BY <1>2 DEF Edit
  <2>2. clock[id] \in Nat /\ clock[id] < MaxEdits /\ MaxEdits \in Nat
    BY <1>1, <1>2, ConstantsAssumption DEF Edit, TypeOK
  <2>3. Edited(e)
    BY <2>1, <2>2 DEF Edited
  <2>4. \A b \in Actors : \A t \in inflight'[b] : t \in inflight[b] \/ t.entry = e
    <3>1. PICK new : new = [id |-> id, entry |-> e]
      OBVIOUS
    <3>2. new.entry = e
      BY <3>1
    <3>3. inflight' = [inflight EXCEPT ![a] = @ \cup {new}]
      BY <2>1, <3>1
    <3> QED BY <1>1, <3>2, <3>3
  <2>5. UNCHANGED <<hash, proj, cache, ops, pushed, job>>
    BY <1>2 DEF Edit, redisVars, history
  <2> QED BY <2>3, <2>4, <2>5 DEF EditInv, StoresEdited, AllEdited
<1>3. CASE Land(a)
  <2>1. PICK t \in inflight[a] : redis_upsert(a, t.id, t.entry) /\ inflight' = [inflight EXCEPT ![a] = @ \ {t}]
    BY <1>3 DEF Land
  <2>2. t.id \in Ids /\ t.entry \in Entry /\ Edited(t.entry)
    BY <1>1 DEF StoresEdited
  <2>3. AllEdited(hash') /\ \A b \in Actors : cache'[b] # <<>> => AllEdited(cache'[b][1])
    BY <1>1, <2>1, <2>2, UpsertEdited
  <2>4. \A b \in Actors : inflight'[b] \subseteq inflight[b]
    BY <1>1, <2>1
  <2>5. UNCHANGED <<proj, ops, pushed, job>>
    BY <1>3 DEF Land, redisVars, history
  <2> QED BY <2>3, <2>4, <2>5 DEF EditInv, StoresEdited, AllEdited
<1>4. CASE ExpireCache(a)
  <2>1. \A b \in Actors : cache'[b] # <<>> => cache'[b] = cache[b]
    BY <1>1, <1>4 DEF ExpireCache, TypeOK
  <2>2. UNCHANGED <<hash, proj, inflight, ops, pushed, job>>
    BY <1>4 DEF ExpireCache, redisVars, history
  <2> QED BY <2>1, <2>2 DEF EditInv, StoresEdited, AllEdited
<1>5. CASE Crash(a)
  <2>1. \A b \in Actors : cache'[b] # <<>> => cache'[b] = cache[b]
    BY <1>1, <1>5 DEF Crash, TypeOK
  <2>2. \A b \in Actors : inflight'[b] \subseteq inflight[b]
    BY <1>1, <1>5 DEF Crash
  <2>3. UNCHANGED <<hash, proj, ops, pushed>> /\ \A s \in Sessions : job'[s] = job[s] \/ job'[s] = Idle
    BY <1>5 DEF Crash, redisVars, history
  <2>4. StoresEdited'
    BY <2>1, <2>2, <2>3 DEF EditInv, StoresEdited, AllEdited
  <2>5. \A s \in Sessions : JobEdited(job'[s])
    BY <2>3, IdleEdited DEF EditInv
  <2> QED BY <2>4, <2>5 DEF EditInv
<1> QED BY <1>2, <1>3, <1>4, <1>5

(* A step of a sync works on its own local variables, and only while it    *)
(* runs.                                                                   *)
LEMMA StepOfOne ==
  ASSUME TypeOK, NEW s \in Sessions, SyncStep(s) \/ FailSync(s) \/ DropOperation(s) \/ MissRead(s)
  PROVE  /\ job[s].pc # "idle" /\ Become(s, job'[s]) /\ UNCHANGED <<inflight, clock>>
<1>1. \A j : Become(s, j) => Become(s, job'[s])
  BY DEF Become, TypeOK
<1>2. ASSUME CheckFingerprint(s) \/ PublishDone(s) \/ AllocateSequence(s) \/ PushOperation(s) \/ RecordFingerprint(s)
             \/ LoadMatrix(s) \/ StoreMatrix(s) \/ LoadBrain(s) \/ StoreBrain(s) \/ StoreProjection(s)
             \/ TrimOperations(s) \/ ReadCursor(s)
      PROVE  /\ job[s].pc # "idle" /\ \E j : Become(s, j) /\ UNCHANGED <<inflight, clock>>
  BY <1>2 DEF CheckFingerprint, PublishDone, AllocateSequence, PushOperation, RecordFingerprint, LoadMatrix,
              StoreMatrix, LoadBrain, StoreBrain, StoreProjection, TrimOperations, ReadCursor, localVars
<1>3. ASSUME ReadSequence(s) \/ ReadLength(s) \/ ReadRange(s) \/ RecoverProjections(s) \/ RecoverState(s)
             \/ NextOperation(s) \/ BatchDone(s) \/ StoreCursor(s) \/ MergeEntry(s) \/ MergeDone(s) \/ PullBack(s)
      PROVE  /\ job[s].pc # "idle" /\ \E j : Become(s, j) /\ UNCHANGED <<inflight, clock>>
  BY <1>3 DEF ReadSequence, ReadLength, ReadRange, RecoverProjections, RecoverState, NextOperation, BatchDone,
              StoreCursor, MergeEntry, MergeDone, PullBack, localVars
<1>4. ASSUME FailSync(s) \/ DropOperation(s) \/ MissRead(s)
      PROVE  /\ job[s].pc # "idle" /\ \E j : Become(s, j) /\ UNCHANGED <<inflight, clock>>
  BY <1>4 DEF FailSync, DropOperation, MissRead, localVars
<1> QED BY <1>1, <1>2, <1>3, <1>4 DEF SyncStep

LEMMA BecomeJob ==
  ASSUME TypeOK, NEW s \in Sessions, NEW j, Become(s, j)
  PROVE  job'[s] = j /\ job[s] \in Job /\ \A t \in Sessions \ {s} : job'[t] = job[t]
BY DEF Become, TypeOK

\* The entry compared with its fingerprint, and where the sync goes.
LEMMA CheckFingerprintJob ==
  ASSUME TypeOK, NEW s \in Sessions, CheckFingerprint(s)
  PROVE  \E id \in job[s].todo, pc \in {"fingerprint", "incr"} :
           Become(s, [job[s] EXCEPT !.todo = @ \ {id}, !.pc = pc,
                     !.op = [seq |-> 0, actor |-> ActorOf(s), id |-> id, entry |-> job[s].snap[id]]])
<1>1. PICK id \in job[s].todo : Become(s, [job[s] EXCEPT
         !.todo = @ \ {id},
         !.op = [seq |-> 0, actor |-> ActorOf(s), id |-> id, entry |-> job[s].snap[id]],
         !.pc = IF fp[ActorOf(s)][id] = job[s].snap[id] THEN "fingerprint" ELSE "incr"])
  BY DEF CheckFingerprint
<1>2. PICK pc \in {"fingerprint", "incr"} :
        pc = IF fp[ActorOf(s)][id] = job[s].snap[id] THEN "fingerprint" ELSE "incr"
  OBVIOUS
<1>3. PICK o : o = [seq |-> 0, actor |-> ActorOf(s), id |-> id, entry |-> job[s].snap[id]]
  OBVIOUS
<1>4. [job[s] EXCEPT !.todo = @ \ {id}, !.op = o, !.pc = pc] = [job[s] EXCEPT !.todo = @ \ {id}, !.pc = pc, !.op = o]
  BY DEF TypeOK, Job
<1>5. Become(s, [job[s] EXCEPT !.todo = @ \ {id}, !.pc = pc, !.op = o])
  BY <1>1, <1>2, <1>3, <1>4
<1> QED BY <1>3, <1>5

LEMMA EditStep == EditInv /\ [Next]_vars => EditInv'
<1> SUFFICES ASSUME EditInv, [Next]_vars PROVE EditInv'
  OBVIOUS
<1>1. TypeOK' /\ TypeOK /\ StoresEdited
  BY TypeStep DEF EditInv
<1>2. CASE UNCHANGED vars
  BY <1>1, <1>2, SameStores DEF EditInv, vars, redisVars, localVars, history
<1>3. ASSUME NEW s \in Sessions, JobEdited(job'[s]), Become(s, job'[s]),
             UNCHANGED <<hash, proj, cache, inflight, ops, pushed>>
      PROVE  EditInv'
  BY <1>1, <1>3, SameStores, EditKeeps
<1>4. ASSUME NEW s \in Sessions, SyncStep(s) PROVE EditInv'
  <2>1. Become(s, job'[s])
    BY <1>1, <1>4, StepOfOne
  <2>2. CASE CheckFingerprint(s)
    <3>1. PICK id \in job[s].todo, pc \in {"fingerprint", "incr"} :
            Become(s, [job[s] EXCEPT !.todo = @ \ {id}, !.pc = pc,
                      !.op = [seq |-> 0, actor |-> ActorOf(s), id |-> id, entry |-> job[s].snap[id]]])
      BY <2>2, CheckFingerprintJob DEF EditInv
    <3>2. JobEdited(job'[s])
      BY <2>2, <3>1, EditCheck DEF CheckFingerprint
    <3> QED BY <1>3, <2>1, <2>2, <3>2 DEF CheckFingerprint, redisVars, localVars, history
  <2>3. CASE \/ StoreMatrix(s) \/ ReadRange(s) \/ RecoverState(s) \/ NextOperation(s) \/ StoreCursor(s)
    <3>1. UNCHANGED <<hash, proj, cache, inflight, ops, pushed>>
      BY <2>3 DEF StoreMatrix, ReadRange, RecoverState, NextOperation, StoreCursor, redisVars, localVars, history
    <3> QED BY <1>3, <2>1, <2>3, <3>1, EditStoreMatrix, EditReadRange, EditRecoverState, EditNextOperation,
               EditStoreCursor
  <2> QED BY <1>1, <1>3, <1>4, <2>1, <2>2, <2>3, EditSteps, EditPush, EditStoreProjection, EditTrim, EditMerge,
             EditReset DEF SyncStep
<1>5. ASSUME NEW s \in Sessions, StartSync(s) \/ FailSync(s) \/ DropOperation(s) \/ MissRead(s) PROVE EditInv'
  BY <1>1, <1>5, EditStart, EditReset, EditMissRead
<1> QED BY <1>1, <1>2, <1>4, <1>5, EditUsers DEF Next

LEMMA EditInit == Init => EditInv
<1> SUFFICES ASSUME Init PROVE EditInv
  OBVIOUS
<1>1. DOMAIN ops = {} /\ pushed = {} /\ hash = NoEntries /\ proj = NoEntries
  BY DEF Init
<1>2. \A a \in Actors : cache[a] = <<>> /\ inflight[a] = {}
  BY DEF Init
<1>3. \A s \in Sessions : job[s] = Idle
  BY DEF Init
<1> QED BY <1>1, <1>2, <1>3, InitType, NoneEdited, IdleEdited DEF EditInv, StoresEdited

-----------------------------------------------------------------------------
(* The order of the steps of a sync.                                       *)

Flows(p, q) ==
  \/ p = "fingerprint" /\ q \in {"fingerprint", "incr", "ltrim", "get_cursor"}
  \/ p = "incr" /\ q = "rpush"
  \/ p = "rpush" /\ q = "hset_fp"
  \/ p = "hset_fp" /\ q = "get_matrix"
  \/ p = "get_matrix" /\ q = "set_matrix"
  \/ p = "set_matrix" /\ q \in {"get_brain", "next_op"}
  \/ p = "get_brain" /\ q = "set_brain"
  \/ p = "set_brain" /\ q = "projection"
  \/ p = "projection" /\ q \in {"fingerprint", "next_op"}
  \/ p = "ltrim" /\ q = "get_cursor"
  \/ p = "get_cursor" /\ q = "get_seq"
  \/ p = "get_seq" /\ q = "llen"
  \/ p = "llen" /\ q = "lrange"
  \/ p = "lrange" /\ q \in {"recover", "next_op"}
  \/ p = "recover" /\ q = "recover_state"
  \/ p = "recover_state" /\ q = "set_cursor"
  \/ p = "next_op" /\ q \in {"next_op", "get_matrix", "set_cursor"}
  \/ p = "set_cursor" /\ q = "merge"
  \/ p = "merge" /\ q \in {"merge", "pull_back", "idle"}
  \/ p = "pull_back" /\ q = "idle"

\* What a step of a sync keeps of its local variables.
Carries(j, k) ==
  k.pc \notin {"idle", "pull_back"} => k.snap = j.snap /\ (k.pull <=> (j.pull \/ j.pc = "get_cursor"))
Follows(j, k) == Flows(j.pc, k.pc) /\ Carries(j, k)

LEMMA FlowStep ==
  ASSUME TypeOK, NEW s \in Sessions, SyncStep(s) \/ DropOperation(s) \/ MissRead(s)
  PROVE  Follows(job[s], job'[s])
<1>0. job[s] \in Job /\ job \in [Sessions -> Job]
  BY DEF TypeOK
<1>1. CASE PublishDone(s)
  <2>1. job'[s].pc \in {"ltrim", "get_cursor"} /\ Carries(job[s], job'[s])
    BY <1>0, <1>1 DEF PublishDone, Become, Job, Carries
  <2> QED BY <1>1, <2>1 DEF PublishDone, Follows, Flows
<1>2. CASE CheckFingerprint(s)
  <2>1. job'[s].pc \in {"fingerprint", "incr"} /\ Carries(job[s], job'[s])
    BY <1>0, <1>2 DEF CheckFingerprint, Become, Job, Carries
  <2> QED BY <1>2, <2>1 DEF CheckFingerprint, Follows, Flows
<1>3. CASE AllocateSequence(s)
  BY <1>0, <1>3 DEF Become, AllocateSequence, Job, Follows, Flows, Carries
<1>4. CASE PushOperation(s)
  BY <1>0, <1>4 DEF Become, PushOperation, Job, Follows, Flows, Carries
<1>5. CASE RecordFingerprint(s)
  BY <1>0, <1>5 DEF Become, RecordFingerprint, Job, Follows, Flows, Carries
<1>6. CASE LoadMatrix(s)
  BY <1>0, <1>6 DEF Become, LoadMatrix, Job, Follows, Flows, Carries
<1>7. CASE StoreMatrix(s)
  <2>0. job[s].pc = "set_matrix"
    BY <1>7 DEF StoreMatrix
  <2>1. \/ Become(s, [job[s] EXCEPT !.pc = "next_op", !.mx = NoMatrix, !.op = NoOp])
        \/ \E e : Become(s, [job[s] EXCEPT !.pc = "get_brain", !.mx = NoMatrix, !.op.entry = e])
        \/ Become(s, [job[s] EXCEPT !.pc = "get_brain", !.mx = NoMatrix])
    BY <1>7 DEF StoreMatrix
  <2>2. job'[s].pc \in {"get_brain", "next_op"} /\ Carries(job[s], job'[s])
    <3>1. CASE Become(s, [job[s] EXCEPT !.pc = "next_op", !.mx = NoMatrix, !.op = NoOp])
      BY <1>0, <2>0, <3>1 DEF Become, Job, Carries
    <3>2. ASSUME NEW e, Become(s, [job[s] EXCEPT !.pc = "get_brain", !.mx = NoMatrix, !.op.entry = e])
          PROVE  job'[s].pc = "get_brain" /\ Carries(job[s], job'[s])
      BY <1>0, <2>0, <3>2 DEF Become, Job, Carries
    <3>3. CASE Become(s, [job[s] EXCEPT !.pc = "get_brain", !.mx = NoMatrix])
      BY <1>0, <2>0, <3>3 DEF Become, Job, Carries
    <3> QED BY <2>1, <3>1, <3>2, <3>3
  <2> QED BY <1>7, <2>2 DEF StoreMatrix, Follows, Flows
<1>8. CASE LoadBrain(s)
  BY <1>0, <1>8 DEF Become, LoadBrain, Job, Follows, Flows, Carries
<1>9. CASE StoreBrain(s)
  BY <1>0, <1>9 DEF Become, StoreBrain, Job, Follows, Flows, Carries
<1>10. CASE StoreProjection(s)
  <2>1. job'[s].pc \in {"next_op", "fingerprint"} /\ Carries(job[s], job'[s])
    BY <1>0, <1>10 DEF Become, StoreProjection, Job, Carries
  <2> QED BY <1>10, <2>1 DEF StoreProjection, Follows, Flows
<1>11. CASE TrimOperations(s)
  BY <1>0, <1>11 DEF Become, TrimOperations, Job, Follows, Flows, Carries
<1>12. CASE ReadCursor(s)
  BY <1>0, <1>12 DEF Become, ReadCursor, Job, Follows, Flows, Carries
<1>13. CASE ReadSequence(s)
  BY <1>0, <1>13 DEF Become, ReadSequence, Job, Follows, Flows, Carries
<1>14. CASE ReadLength(s)
  BY <1>0, <1>14 DEF Become, ReadLength, Job, Follows, Flows, Carries
<1>15. CASE ReadRange(s)
  <2>0. job[s].pc = "lrange"
    BY <1>15 DEF ReadRange
  <2>1. PICK raw : \/ Become(s, [job[s] EXCEPT !.len = 0, !.pc = "recover"])
                   \/ Become(s, [job[s] EXCEPT !.batch = raw, !.next = job[s].cur, !.current = 0,
                                               !.len = 0, !.pc = "next_op"])
    BY <1>15 DEF ReadRange
  <2>2. job'[s].pc \in {"recover", "next_op"} /\ Carries(job[s], job'[s])
    <3>1. CASE Become(s, [job[s] EXCEPT !.len = 0, !.pc = "recover"])
      BY <1>0, <2>0, <3>1 DEF Become, Job, Carries
    <3>2. CASE Become(s, [job[s] EXCEPT !.batch = raw, !.next = job[s].cur, !.current = 0,
                                        !.len = 0, !.pc = "next_op"])
      BY <1>0, <2>0, <3>2 DEF Become, Job, Carries
    <3> QED BY <2>1, <3>1, <3>2
  <2> QED BY <1>15, <2>2 DEF ReadRange, Follows, Flows
<1>16. CASE RecoverProjections(s)
  BY <1>0, <1>16 DEF Become, RecoverProjections, Job, Follows, Flows, Carries
<1>17. CASE RecoverState(s)
  <2>1. PICK got : Become(s, [job[s] EXCEPT !.got = got, !.next = job[s].current, !.current = 0, !.pc = "set_cursor"])
    BY <1>17 DEF RecoverState
  <2> QED BY <1>0, <1>17, <2>1 DEF Become, RecoverState, Job, Follows, Flows, Carries
<1>18. CASE NextOperation(s)
  <2>1. job'[s].pc \in {"next_op", "get_matrix"} /\ Carries(job[s], job'[s])
    BY <1>0, <1>18 DEF Become, NextOperation, Job, Carries
  <2> QED BY <1>18, <2>1 DEF NextOperation, Follows, Flows
<1>19. CASE BatchDone(s)
  BY <1>0, <1>19 DEF Become, BatchDone, Job, Follows, Flows, Carries
<1>20. CASE StoreCursor(s)
  BY <1>0, <1>20 DEF Become, StoreCursor, Job, Follows, Flows, Carries
<1>21. CASE MergeEntry(s)
  BY <1>0, <1>21 DEF Become, MergeEntry, Job, Follows, Flows, Carries
<1>22. CASE MergeDone(s)
  BY <1>0, <1>22 DEF Become, MergeDone, Idle, Follows, Flows, Carries
<1>23. CASE PullBack(s)
  BY <1>0, <1>23 DEF Become, PullBack, Idle, Follows, Flows, Carries
<1>24. CASE DropOperation(s)
  BY <1>0, <1>24 DEF Become, DropOperation, Job, Follows, Flows, Carries
<1>25. CASE MissRead(s)
  <2>1. ASSUME NEW id \in job[s].todo, job[s].pc = "fingerprint",
               Become(s, [job[s] EXCEPT !.todo = @ \ {id}, !.pc = "incr",
                      !.op = [seq |-> 0, actor |-> ActorOf(s), id |-> id, entry |-> job[s].snap[id]]])
        PROVE  Follows(job[s], job'[s])
    <3>1. job'[s].pc = "incr" /\ Carries(job[s], job'[s])
      BY <1>0, <2>1 DEF Become, Job, Carries
    <3> QED BY <2>1, <3>1 DEF Follows, Flows
  <2>2. CASE job[s].pc = "fingerprint"
    <3>1. PICK id \in job[s].todo :
               Become(s, [job[s] EXCEPT !.todo = @ \ {id}, !.pc = "incr",
                      !.op = [seq |-> 0, actor |-> ActorOf(s), id |-> id, entry |-> job[s].snap[id]]])
      BY <1>25, <2>2 DEF MissRead
    <3> QED BY <2>1, <2>2, <3>1
  <2>3. CASE job[s].pc # "fingerprint"
    <3>0. job[s].pc \in {"get_matrix", "get_brain", "get_cursor", "get_seq", "llen", "recover", "recover_state"}
      BY <1>25, <2>3 DEF MissRead
    <3>1. CASE job[s].pc = "get_matrix"
      <4>0. Become(s, [job[s] EXCEPT !.mx = NoMatrix, !.pc = "set_matrix"])
        BY <1>25, <3>1 DEF MissRead
      <4>1. job'[s].pc = "set_matrix" /\ Carries(job[s], job'[s])
        BY <1>0, <3>1, <4>0 DEF Become, Job, Carries
      <4> QED BY <3>1, <4>1 DEF Follows, Flows
    <3>2. CASE job[s].pc = "get_brain"
      <4>0. Become(s, [job[s] EXCEPT !.br = {}, !.pc = "set_brain"])
        BY <1>25, <3>2 DEF MissRead
      <4>1. job'[s].pc = "set_brain" /\ Carries(job[s], job'[s])
        BY <1>0, <3>2, <4>0 DEF Become, Job, Carries
      <4> QED BY <3>2, <4>1 DEF Follows, Flows
    <3>3. CASE job[s].pc = "get_cursor"
      <4>0. Become(s, [job[s] EXCEPT !.cur = 0, !.pull = TRUE, !.did = FALSE, !.pc = "get_seq"])
        BY <1>25, <3>3 DEF MissRead
      <4>1. job'[s].pc = "get_seq" /\ Carries(job[s], job'[s])
        BY <1>0, <3>3, <4>0 DEF Become, Job, Carries
      <4> QED BY <3>3, <4>1 DEF Follows, Flows
    <3>4. CASE job[s].pc = "get_seq"
      <4>0. Become(s, [job[s] EXCEPT !.current = 0, !.pc = "llen"])
        BY <1>25, <3>4 DEF MissRead
      <4>1. job'[s].pc = "llen" /\ Carries(job[s], job'[s])
        BY <1>0, <3>4, <4>0 DEF Become, Job, Carries
      <4> QED BY <3>4, <4>1 DEF Follows, Flows
    <3>5. CASE job[s].pc = "llen"
      <4>0. Become(s, [job[s] EXCEPT !.len = 0, !.pc = "lrange"])
        BY <1>25, <3>5 DEF MissRead
      <4>1. job'[s].pc = "lrange" /\ Carries(job[s], job'[s])
        BY <1>0, <3>5, <4>0 DEF Become, Job, Carries
      <4> QED BY <3>5, <4>1 DEF Follows, Flows
    <3>6. CASE job[s].pc = "recover"
      <4>0. Become(s, [job[s] EXCEPT !.got = NoEntries, !.pc = "recover_state"])
        BY <1>25, <3>6 DEF MissRead
      <4>1. job'[s].pc = "recover_state" /\ Carries(job[s], job'[s])
        BY <1>0, <3>6, <4>0 DEF Become, Job, Carries
      <4> QED BY <3>6, <4>1 DEF Follows, Flows
    <3>7. CASE job[s].pc = "recover_state"
      <4>0. Become(s, [job[s] EXCEPT !.got = NoEntries, !.next = job[s].current, !.current = 0, !.pc = "set_cursor"])
        BY <1>25, <3>7 DEF MissRead
      <4>1. job'[s].pc = "set_cursor" /\ Carries(job[s], job'[s])
        BY <1>0, <3>7, <4>0 DEF Become, Job, Carries
      <4> QED BY <3>7, <4>1 DEF Follows, Flows
    <3> QED BY <3>0, <3>1, <3>2, <3>3, <3>4, <3>5, <3>6, <3>7
  <2> QED BY <2>2, <2>3
<1> QED BY <1>1, <1>2, <1>3, <1>4, <1>5, <1>6, <1>7, <1>8, <1>9, <1>10, <1>11, <1>12, <1>13, <1>14, <1>15,
           <1>16, <1>17, <1>18, <1>19, <1>20, <1>21, <1>22, <1>23, <1>24, <1>25 DEF SyncStep

-----------------------------------------------------------------------------
(* A matrix that was stored holds a text, and it is stored before the      *)
(* projection of its entry.                                                *)

Kept(i) == read_memory(matrix[i]) # {}
Merged(j) == j.pc \in {"get_brain", "set_brain", "projection"} => Kept(j.op.id)
MatrixInv == RecoverableProjection /\ \A s \in Sessions : Merged(job[s])

\* A step that touches neither a matrix nor a projection, and brings its sync
\* to no merged operation.
LEMMA MatrixKeeps ==
  ASSUME TypeOK, MatrixInv, NEW s \in Sessions, Become(s, job'[s]), UNCHANGED <<matrix, proj>>,
         \/ job'[s].pc \notin {"get_brain", "set_brain", "projection"}
         \/ job[s].pc \in {"get_brain", "set_brain", "projection"} /\ job'[s].op = job[s].op
  PROVE  MatrixInv'
<1>1. \A t \in Sessions \ {s} : job'[t] = job[t]
  BY DEF Become, TypeOK
<1>2. \A t \in Sessions \ {s} : Merged(job[t])'
  BY <1>1 DEF MatrixInv, Merged, Kept
<1> QED BY <1>1 DEF MatrixInv, RecoverableProjection, Merged, Kept

LEMMA MatrixStore ==
  ASSUME EditInv, MatrixInv, NEW s \in Sessions, StoreMatrix(s) PROVE MatrixInv'
<1>0. TypeOK /\ job[s] \in Job /\ JobEdited(job[s]) /\ job[s].pc = "set_matrix" /\ matrix \in [Ids -> [Actors -> Nat]]
  BY DEF EditInv, TypeOK, StoreMatrix
<1>1. PICK o \in Op : o = job[s].op /\ o.id \in Ids
  BY <1>0 DEF Job, Op
<1>2. o.entry.txt # 0 /\ job[s].mx \in [Actors -> Nat]
  BY <1>0, <1>1 DEF JobEdited, OpPCs, Edited, Job
<1>3. PICK m \in [Actors -> Nat] : m = merge_foreign_operation(job[s].mx, o)
  BY <1>1, <1>2, MergeType
<1>4. read_memory(m) # {}
  BY <1>1, <1>2, <1>3, MergeEdited
<1>5. matrix' = [matrix EXCEPT ![o.id] = m] /\ proj' = proj
  BY <1>1, <1>3 DEF StoreMatrix, persist_shared_matrix
<1>6. Kept(o.id)' /\ \A i \in Ids : Kept(i) => Kept(i)'
  BY <1>0, <1>1, <1>4, <1>5 DEF Kept
<1>7. job'[s].pc = "next_op" \/ (job'[s].pc = "get_brain" /\ job'[s].op.id = o.id)
  <2>1. \/ Become(s, [job[s] EXCEPT !.pc = "next_op", !.mx = NoMatrix, !.op = NoOp])
        \/ \E e : Become(s, [job[s] EXCEPT !.pc = "get_brain", !.mx = NoMatrix, !.op.entry = e])
        \/ Become(s, [job[s] EXCEPT !.pc = "get_brain", !.mx = NoMatrix])
    BY DEF StoreMatrix
  <2>2. ASSUME NEW e, Become(s, [job[s] EXCEPT !.pc = "get_brain", !.mx = NoMatrix, !.op.entry = e])
        PROVE  job'[s].pc = "get_brain" /\ job'[s].op.id = o.id
    <3>0. job'[s] = [job[s] EXCEPT !.pc = "get_brain", !.mx = NoMatrix, !.op.entry = e]
      BY <1>0, <2>2, BecomeJob
    <3>1. job'[s].op = [o EXCEPT !.entry = e] /\ job'[s].pc = "get_brain"
      BY <1>0, <1>1, <3>0 DEF Job
    <3> QED BY <3>1 DEF Op
  <2>3. ASSUME Become(s, [job[s] EXCEPT !.pc = "get_brain", !.mx = NoMatrix])
        PROVE  job'[s].pc = "get_brain" /\ job'[s].op.id = o.id
    <3>0. job'[s] = [job[s] EXCEPT !.pc = "get_brain", !.mx = NoMatrix]
      BY <1>0, <2>3, BecomeJob
    <3> QED BY <1>0, <1>1, <3>0 DEF Job
  <2>4. ASSUME Become(s, [job[s] EXCEPT !.pc = "next_op", !.mx = NoMatrix, !.op = NoOp])
        PROVE  job'[s].pc = "next_op"
    <3>0. job'[s] = [job[s] EXCEPT !.pc = "next_op", !.mx = NoMatrix, !.op = NoOp]
      BY <1>0, <2>4, BecomeJob
    <3> QED BY <1>0, <3>0 DEF Job
  <2> QED BY <2>1, <2>2, <2>3, <2>4
<1>8. \A t \in Sessions \ {s} : job'[t] = job[t] /\ job[t].op.id \in Ids
  <2>1. Become(s, job'[s])
    BY <1>0, StepOfOne DEF SyncStep
  <2>2. \A t \in Sessions : job[t].op.id \in Ids
    BY <1>0 DEF TypeOK, Job, Op
  <2> QED BY <1>0, <2>1, <2>2 DEF Become, TypeOK
<1>9. RecoverableProjection'
  BY <1>5, <1>6 DEF MatrixInv, RecoverableProjection, Kept, Present
<1>10. \A t \in Sessions \ {s} : Merged(job[t])'
  BY <1>6, <1>8 DEF MatrixInv, Merged
<1>11. Merged(job[s])'
  BY <1>6, <1>7 DEF Merged
<1> QED BY <1>9, <1>10, <1>11 DEF MatrixInv

LEMMA MatrixProject ==
  ASSUME TypeOK, MatrixInv, NEW s \in Sessions, StoreProjection(s) PROVE MatrixInv'
<1>1. job[s] \in Job /\ job \in [Sessions -> Job] /\ job[s].pc = "projection" /\ proj \in [Ids -> Entry]
  BY DEF TypeOK, StoreProjection
<1>2. Kept(job[s].op.id) /\ matrix' = matrix
  BY <1>1 DEF MatrixInv, Merged, StoreProjection
<1>3. \A i \in Ids : proj'[i].at # 0 => proj[i].at # 0 \/ i = job[s].op.id
  BY <1>1 DEF StoreProjection
<1>4. RecoverableProjection'
  BY <1>2, <1>3 DEF MatrixInv, RecoverableProjection, Kept, Present
<1>5. job'[s].pc \notin {"get_brain", "set_brain", "projection"}
  BY <1>1 DEF StoreProjection, Become, Job
<1>6. \A t \in Sessions \ {s} : job'[t] = job[t]
  BY <1>1 DEF StoreProjection, Become
<1> QED BY <1>2, <1>4, <1>5, <1>6 DEF MatrixInv, Merged, Kept

LEMMA MatrixStep == EditInv /\ MatrixInv /\ [Next]_vars => MatrixInv'
<1> SUFFICES ASSUME EditInv, MatrixInv, [Next]_vars PROVE MatrixInv'
  OBVIOUS
<1>0. TypeOK
  BY DEF EditInv
<1>1. CASE UNCHANGED <<matrix, proj, job>>
  BY <1>1 DEF MatrixInv, RecoverableProjection, Merged, Kept
<1>2. ASSUME NEW s \in Sessions, SyncStep(s) PROVE MatrixInv'
  <2>1. Become(s, job'[s]) /\ job[s] \in Job /\ job \in [Sessions -> Job]
    BY <1>0, <1>2, StepOfOne DEF TypeOK
  <2>f. Flows(job[s].pc, job'[s].pc)
    BY <1>0, <1>2, FlowStep DEF Follows
  <2>2. CASE PublishDone(s) \/ AllocateSequence(s) \/ PushOperation(s) \/ RecordFingerprint(s) \/ LoadMatrix(s)
             \/ TrimOperations(s) \/ ReadCursor(s) \/ ReadSequence(s) \/ ReadLength(s)
    <3>1. job'[s].pc \notin {"get_brain", "set_brain", "projection"}
      BY <2>f, <2>2 DEF PublishDone, AllocateSequence, PushOperation, RecordFingerprint, LoadMatrix, TrimOperations,
                        ReadCursor, ReadSequence, ReadLength, Flows
    <3>2. UNCHANGED <<matrix, proj>>
      BY <2>2 DEF PublishDone, AllocateSequence, PushOperation, RecordFingerprint, LoadMatrix, TrimOperations,
                  ReadCursor, ReadSequence, ReadLength, redisVars
    <3> QED BY <1>0, <2>1, <3>1, <3>2, MatrixKeeps
  <2>3. CASE CheckFingerprint(s) \/ ReadRange(s) \/ RecoverProjections(s) \/ RecoverState(s) \/ NextOperation(s)
             \/ BatchDone(s) \/ StoreCursor(s) \/ MergeEntry(s) \/ MergeDone(s) \/ PullBack(s)
    <3>1. job'[s].pc \notin {"get_brain", "set_brain", "projection"}
      BY <2>f, <2>3 DEF CheckFingerprint, ReadRange, RecoverProjections, RecoverState, NextOperation, BatchDone,
                        StoreCursor, MergeEntry, MergeDone, PullBack, Flows
    <3>2. UNCHANGED <<matrix, proj>>
      BY <2>3 DEF CheckFingerprint, ReadRange, RecoverProjections, RecoverState, NextOperation, BatchDone, StoreCursor,
                  MergeEntry, MergeDone, PullBack, redisVars
    <3> QED BY <1>0, <2>1, <3>1, <3>2, MatrixKeeps
  <2>4. CASE LoadBrain(s) \/ StoreBrain(s)
    <3>1. /\ job[s].pc \in {"get_brain", "set_brain", "projection"} /\ job'[s].op = job[s].op
          /\ UNCHANGED <<matrix, proj>>
      BY <2>1, <2>4 DEF LoadBrain, StoreBrain, Become, Job, redisVars
    <3> QED BY <1>0, <2>1, <3>1, MatrixKeeps
  <2> QED BY <1>0, <1>2, <2>2, <2>3, <2>4, MatrixStore, MatrixProject DEF SyncStep
<1>3. ASSUME NEW s \in Sessions, StartSync(s) \/ FailSync(s) \/ DropOperation(s) PROVE MatrixInv'
  <2>1. job'[s].pc \notin {"get_brain", "set_brain", "projection"} /\ Become(s, job'[s])
    <3>1. CASE StartSync(s)
      BY <1>0, <3>1 DEF StartSync, Idle, Become, TypeOK
    <3>2. CASE FailSync(s)
      BY <1>0, <3>2 DEF FailSync, Idle, Become, TypeOK
    <3>3. CASE DropOperation(s)
      <4>1. job[s] \in Job /\ job \in [Sessions -> Job] /\ Become(s, job'[s])
        BY <1>0, <3>3, StepOfOne DEF TypeOK
      <4>2. job[s].pc = "set_matrix" /\ job'[s] = [job[s] EXCEPT !.pc = "next_op", !.mx = NoMatrix, !.op = NoOp]
        BY <3>3, <4>1 DEF DropOperation, Become
      <4> QED BY <4>1, <4>2 DEF Job
    <3> QED BY <1>3, <3>1, <3>2, <3>3
  <2>2. UNCHANGED <<matrix, proj>>
    BY <1>3 DEF StartSync, FailSync, DropOperation, redisVars
  <2> QED BY <1>0, <2>1, <2>2, MatrixKeeps
<1>4. ASSUME NEW s \in Sessions, MissRead(s) PROVE MatrixInv'
  <2>1. job[s] \in Job /\ Become(s, job'[s]) /\ job \in [Sessions -> Job]
    BY <1>0, <1>4, StepOfOne DEF TypeOK
  <2>2. \/ job'[s].pc \notin {"get_brain", "set_brain", "projection"}
        \/ job[s].pc = "get_brain" /\ job'[s].op = job[s].op
    <3>1. CASE job[s].pc = "get_brain"
      <4>1. Become(s, [job[s] EXCEPT !.br = {}, !.pc = "set_brain"])
        BY <1>4, <3>1 DEF MissRead
      <4> QED BY <1>0, <2>1, <3>1, <4>1 DEF Become, Job
    <3>2. CASE job[s].pc # "get_brain"
      <4>1. job[s].pc \in {"fingerprint", "get_matrix", "get_cursor", "get_seq", "llen", "recover", "recover_state"}
        BY <1>4, <3>2 DEF MissRead
      <4> QED BY <1>0, <1>4, <4>1, FlowStep DEF Follows, Flows
    <3> QED BY <3>1, <3>2
  <2>3. UNCHANGED <<matrix, proj>>
    BY <1>4 DEF MissRead, redisVars
  <2> QED BY <1>0, <2>1, <2>2, <2>3, MatrixKeeps
<1>5. ASSUME NEW a \in Actors, Crash(a) PROVE MatrixInv'
  <2>1. UNCHANGED <<matrix, proj>> /\ \A t \in Sessions : job'[t] = Idle \/ job'[t] = job[t]
    BY <1>5 DEF Crash, redisVars
  <2>2. Idle.pc = "idle"
    BY DEF Idle
  <2> QED BY <2>1, <2>2 DEF MatrixInv, RecoverableProjection, Merged, Kept
<1>6. ASSUME NEW a \in Actors, (\E id \in Ids : Edit(a, id)) \/ Land(a) \/ ExpireCache(a) PROVE MatrixInv'
  BY <1>1, <1>6 DEF Edit, Land, ExpireCache, redisVars
<1>7. CASE UNCHANGED vars
  BY <1>1, <1>7 DEF vars, redisVars
<1> QED BY <1>2, <1>3, <1>4, <1>5, <1>6, <1>7 DEF Next

LEMMA MatrixInit == Init => MatrixInv
<1> SUFFICES ASSUME Init PROVE MatrixInv
  OBVIOUS
<1>1. proj = NoEntries /\ \A s \in Sessions : job[s].pc = "idle"
  BY DEF Init, Idle
<1> QED BY <1>1, NoneEdited DEF MatrixInv, RecoverableProjection, Merged

(* However many syncs overlap, fail, miss a read or crash: an entry that   *)
(* has a projection has a matrix with a text, so                           *)
(* recover_entries_from_shared_state drops none.                           *)
THEOREM RecoverableProjectionHolds == Spec => []RecoverableProjection
<1>1. EditInv /\ [Next]_vars => EditInv'
  BY EditStep
<1>2. EditInv /\ MatrixInv /\ [Next]_vars => MatrixInv'
  BY MatrixStep
<1>3. MatrixInv => RecoverableProjection
  BY DEF MatrixInv
<1> QED BY <1>1, <1>2, <1>3, EditInit, MatrixInit, PTL DEF Spec

-----------------------------------------------------------------------------
(* Syncs that take turns: at most one runs, and while it runs no write is  *)
(* on its way to Redis.                                                    *)

Running(s) == job[s].pc # "idle"

TurnInv ==
  /\ \A s, t \in Sessions : Running(s) /\ Running(t) => s = t
  /\ \A s \in Sessions : Running(s) => \A a \in Actors : inflight[a] = {}

\* A step of a running sync.
Works(s) == SyncStep(s) \/ DropOperation(s) \/ MissRead(s)

\* The other syncs are idle, before and after the step of one.
LEMMA OthersIdle ==
  ASSUME TypeOK, NEW s \in Sessions, Become(s, job'[s]), (TurnInv /\ Running(s)) \/ Quiet
  PROVE  \A t \in Sessions \ {s} : job'[t] = job[t] /\ job[t].pc = "idle"
BY DEF TypeOK, Become, TurnInv, Running, Quiet

LEMMA TurnStep ==
  ASSUME Turns = TRUE, TypeOK, TurnInv, [Next]_vars PROVE TurnInv'
<1>1. ASSUME NEW s \in Sessions, Works(s) \/ FailSync(s) PROVE TurnInv'
  <2>1. Running(s) /\ Become(s, job'[s]) /\ UNCHANGED inflight
    BY <1>1, StepOfOne DEF Works, Running
  <2>2. \A t \in Sessions \ {s} : job'[t].pc = "idle"
    BY <2>1, OthersIdle
  <2> QED BY <2>1, <2>2 DEF TurnInv, Running
<1>2. ASSUME NEW s \in Sessions, StartSync(s) PROVE TurnInv'
  <2>1. Quiet /\ Become(s, job'[s]) /\ UNCHANGED inflight
    <3>1. PICK j : Become(s, j)
      BY <1>2 DEF StartSync
    <3> QED BY <1>2, <3>1 DEF StartSync, Become, TypeOK
  <2>2. \A t \in Sessions \ {s} : job'[t].pc = "idle"
    BY <2>1, OthersIdle
  <2> QED BY <2>1, <2>2 DEF TurnInv, Running, Quiet
<1>3. ASSUME NEW a \in Actors, NEW i \in Ids, Edit(a, i) PROVE TurnInv'
  BY <1>3 DEF Edit, Quiet, TurnInv, Running
<1>4. ASSUME NEW a \in Actors, Land(a) PROVE TurnInv'
  <2>1. inflight[a] # {} /\ UNCHANGED job
    BY <1>4 DEF Land
  <2> QED BY <2>1 DEF TurnInv, Running
<1>5. ASSUME NEW a \in Actors, ExpireCache(a) PROVE TurnInv'
  BY <1>5 DEF ExpireCache, TurnInv, Running
<1>6. ASSUME NEW a \in Actors, Crash(a) PROVE TurnInv'
  <2>1. \A t \in Sessions : job'[t] = job[t] \/ job'[t] = Idle
    BY <1>6 DEF Crash
  <2>2. \A t \in Sessions : Running(t)' => Running(t)
    BY <2>1 DEF Running, Idle
  <2>3. \A b \in Actors : inflight[b] = {} => inflight'[b] = {}
    BY <1>6 DEF Crash, TypeOK
  <2> QED BY <2>2, <2>3 DEF TurnInv
<1>7. CASE UNCHANGED vars
  BY <1>7 DEF vars, localVars, TurnInv, Running
<1> QED BY <1>1, <1>2, <1>3, <1>4, <1>5, <1>6, <1>7 DEF Next, Works

LEMMA TurnInit == Init => TurnInv
BY DEF Init, TurnInv, Running, Idle

-----------------------------------------------------------------------------
(* In turns, the copy of the hash a sync compares with is the hash itself, *)
(* for every entry it has still to merge.                                  *)

Compares(j) ==
  /\ j.pc \notin {"idle", "pull_back", "merge"} => j.snap = hash
  /\ j.pc = "merge" => \A i \in j.todo : j.snap[i] = hash[i]
MergeInv == TypeOK /\ TurnInv /\ \A s \in Sessions : Compares(job[s])

\* One merged entry: what its sync and the hash become.
LEMMA MergeEntryStep ==
  ASSUME TypeOK, NEW s \in Sessions, MergeEntry(s)
  PROVE  \E id \in job[s].todo :
           /\ job[s].pc = "merge"
           /\ job'[s].pc = "merge" /\ job'[s].snap = job[s].snap /\ job'[s].todo = job[s].todo \ {id}
           /\ \/ hash' = hash
              \/ job[s].snap[id].at <= job[s].got[id].at /\ hash' = [hash EXCEPT ![id] = job[s].got[id]]
<1>1. PICK id \in job[s].todo :
        /\ Become(s, [job[s] EXCEPT !.todo = @ \ {id}])
        /\ \/ /\ ShouldApply(job[s].snap[id], job[s].got[id])
              /\ redis_upsert(ActorOf(s), id, job[s].got[id])
           \/ hash' = hash
  BY DEF MergeEntry
<1>2. job[s] \in Job /\ job \in [Sessions -> Job] /\ job[s].pc = "merge"
  BY DEF TypeOK, MergeEntry
<1>3. job'[s].pc = "merge" /\ job'[s].snap = job[s].snap /\ job'[s].todo = job[s].todo \ {id}
  BY <1>1, <1>2 DEF Become, Job
<1> QED BY <1>1, <1>2, <1>3 DEF ShouldApply, redis_upsert

\* Only a merge and a landing write change the hash.
LEMMA HashKept ==
  ASSUME NEW s \in Sessions, Works(s), ~MergeEntry(s) PROVE UNCHANGED hash
<1>1. CASE DropOperation(s) \/ MissRead(s)
  BY <1>1 DEF DropOperation, MissRead, localVars
<1>2. CASE SyncStep(s)
  BY <1>2
     DEF SyncStep, CheckFingerprint, PublishDone, AllocateSequence, PushOperation, RecordFingerprint, LoadMatrix,
         StoreMatrix, LoadBrain, StoreBrain, StoreProjection, TrimOperations, ReadCursor, ReadSequence, ReadLength,
         ReadRange, RecoverProjections, RecoverState, NextOperation, BatchDone, StoreCursor, MergeDone,
         PullBack, localVars
<1> QED BY <1>1, <1>2 DEF Works

\* Of the steps of a sync only MergeEntry stays at the merge.
LEMMA MergeStays ==
  ASSUME TypeOK, NEW s \in Sessions, Works(s), ~MergeEntry(s) PROVE job[s].pc = "merge" => job'[s].pc # "merge"
<1>1. CASE MergeDone(s)
  BY <1>1 DEF MergeDone, Become, Idle, TypeOK
<1>2. CASE ~MergeDone(s)
  BY <1>2
     DEF Works, SyncStep, CheckFingerprint, PublishDone, AllocateSequence, PushOperation, RecordFingerprint, LoadMatrix,
         StoreMatrix, LoadBrain, StoreBrain, StoreProjection, TrimOperations, ReadCursor, ReadSequence, ReadLength,
         ReadRange, RecoverProjections, RecoverState, NextOperation, BatchDone, StoreCursor, PullBack, DropOperation,
         MissRead
<1> QED BY <1>1, <1>2

LEMMA MergeStep ==
  ASSUME Turns = TRUE, MergeInv, [Next]_vars PROVE MergeInv'
<1>0. TypeOK /\ TurnInv /\ TypeOK' /\ TurnInv'
  BY TypeStep, TurnStep DEF MergeInv
<1>1. ASSUME NEW s \in Sessions, Works(s) \/ FailSync(s) PROVE \A t \in Sessions : Compares(job[t])'
  <2>1. \A t \in Sessions \ {s} : job'[t].pc = "idle"
    BY <1>0, <1>1, StepOfOne, OthersIdle DEF Works, Running
  <2>2. CASE FailSync(s)
    BY <1>0, <2>1, <2>2, BecomeJob DEF FailSync, Idle, Compares
  <2>3. CASE Works(s) /\ ~MergeEntry(s)
    <3>1. hash' = hash /\ Follows(job[s], job'[s]) /\ (job[s].pc = "merge" => job'[s].pc # "merge")
      BY <1>0, <2>3, HashKept, FlowStep, MergeStays DEF Works
    <3>2. Compares(job[s])
      BY DEF MergeInv
    <3>3. job'[s].pc \notin {"idle", "pull_back"} => job'[s].snap = hash
      BY <3>1, <3>2 DEF Follows, Flows, Carries, Compares
    <3> QED BY <2>1, <3>1, <3>3 DEF Compares
  <2>4. CASE MergeEntry(s)
    <3>1. PICK id \in job[s].todo :
           /\ job[s].pc = "merge"
           /\ job'[s].pc = "merge" /\ job'[s].snap = job[s].snap /\ job'[s].todo = job[s].todo \ {id}
           /\ hash' = hash \/ hash' = [hash EXCEPT ![id] = job[s].got[id]]
      BY <1>0, <2>4, MergeEntryStep
    <3>2. Compares(job[s]) /\ hash \in [Ids -> Entry] /\ job[s].todo \in SUBSET Ids
      BY <1>0 DEF MergeInv, TypeOK, Job
    <3>3. \A i \in job'[s].todo : hash'[i] = hash[i]
      BY <3>1, <3>2
    <3> QED BY <2>1, <3>1, <3>2, <3>3 DEF Compares
  <2> QED BY <1>1, <2>2, <2>3, <2>4
<1>2. ASSUME NEW s \in Sessions, StartSync(s) PROVE \A t \in Sessions : Compares(job[t])'
  <2>1. Quiet /\ hash' = hash /\ Become(s, [Idle EXCEPT !.pc = "fingerprint", !.snap = hash, !.todo = Present(hash)])
    BY <1>2 DEF StartSync
  <2>2. job'[s].pc = "fingerprint" /\ job'[s].snap = hash
    <3>1. job'[s] = [Idle EXCEPT !.pc = "fingerprint", !.snap = hash, !.todo = Present(hash)]
      BY <1>0, <2>1, BecomeJob
    <3> QED BY <3>1, IdleType DEF Job
  <2>3. \A t \in Sessions \ {s} : job'[t].pc = "idle"
    BY <1>0, <2>1, BecomeJob DEF Quiet
  <2> QED BY <2>1, <2>2, <2>3 DEF Compares
<1>3. ASSUME NEW a \in Actors, Land(a) PROVE \A t \in Sessions : Compares(job[t])'
  <2>1. inflight[a] # {} /\ job' = job
    BY <1>3 DEF Land
  <2> QED BY <1>0, <2>1 DEF TurnInv, Running, Compares
<1>4. ASSUME NEW a \in Actors, Crash(a) PROVE \A t \in Sessions : Compares(job[t])'
  <2>1. hash' = hash /\ \A t \in Sessions : job'[t] = job[t] \/ job'[t] = Idle
    BY <1>4 DEF Crash
  <2> QED BY <2>1 DEF MergeInv, Compares, Idle
<1>5. ASSUME NEW a \in Actors, (\E i \in Ids : Edit(a, i)) \/ ExpireCache(a) PROVE \A t \in Sessions : Compares(job[t])'
  BY <1>5 DEF Edit, ExpireCache, MergeInv, Compares
<1>6. CASE UNCHANGED vars
  <2>1. hash' = hash /\ job' = job
    BY <1>6 DEF vars, localVars
  <2> QED BY <1>0, <2>1 DEF MergeInv, Compares
<1> QED BY <1>0, <1>1, <1>2, <1>3, <1>4, <1>5, <1>6 DEF Next, MergeInv, Works

(* As long as syncs and edits take turns, the merge of a sync never puts   *)
(* an older entry into the project's hash, whatever commands fail or are   *)
(* taken for empty, and whoever crashes.                                   *)
THEOREM MergeKeepsNewerInTurns ==
  ASSUME Turns = TRUE PROVE Spec => MergeKeepsNewer
<1>1. MergeInv /\ [Next]_vars => MergeInv'
  BY MergeStep
<1>2. Init => MergeInv
  <2>1. Init => \A s \in Sessions : Compares(job[s])
    BY DEF Init, Compares, Idle
  <2> QED BY <2>1, InitType, TurnInit DEF MergeInv
<1>3. ASSUME MergeInv, [Next]_vars
      PROVE  [\A s \in Sessions : MergeEntry(s) => \A i \in Ids : hash'[i].at >= hash[i].at]_vars
  <2>1. ASSUME NEW s \in Sessions, MergeEntry(s), NEW i \in Ids PROVE hash'[i].at >= hash[i].at
    <3>1. PICK id \in job[s].todo :
           /\ job[s].pc = "merge"
           /\ \/ hash' = hash
              \/ job[s].snap[id].at <= job[s].got[id].at /\ hash' = [hash EXCEPT ![id] = job[s].got[id]]
      BY <1>3, <2>1, MergeEntryStep DEF MergeInv
    <3>2. job[s].snap[id] = hash[id] /\ hash \in [Ids -> Entry] /\ job[s] \in Job
      BY <1>3, <3>1 DEF MergeInv, Compares, TypeOK
    <3>3. hash[i].at \in Nat /\ job[s].got \in [Ids -> Entry] /\ id \in Ids
      BY <3>2 DEF Job, Entry
    <3> QED BY <3>1, <3>2, <3>3 DEF Entry
  <2> QED BY <2>1
<1> QED BY <1>1, <1>2, <1>3, PTL DEF Spec, MergeKeepsNewer

-----------------------------------------------------------------------------
(* In turns the brain a sync writes back is the brain with its entry, so   *)
(* no decision of another sync is overwritten.                             *)

Remembers(j) ==
  /\ j.pc = "set_brain" => j.br = brain
  /\ j.pc = "projection" => j.op.id \in brain
BrainInv == TypeOK /\ TurnInv /\ BrainKeepsDecisions /\ \A s \in Sessions : Remembers(job[s])

LEMMA BrainWork ==
  ASSUME MissedReads = FALSE, BrainInv, NEW s \in Sessions, Works(s)
  PROVE  BrainKeepsDecisions' /\ Remembers(job[s])'
<1>0. /\ TypeOK /\ job[s] \in Job /\ job \in [Sessions -> Job] /\ BrainKeepsDecisions /\ Remembers(job[s])
      /\ brain \in SUBSET Ids /\ proj \in [Ids -> Entry]
  BY DEF BrainInv, TypeOK
<1>1. CASE LoadBrain(s)
  <2>1. job'[s].pc = "set_brain" /\ job'[s].br = brain
    BY <1>0, <1>1 DEF LoadBrain, Become, Job
  <2> QED BY <1>0, <1>1, <2>1 DEF LoadBrain, redisVars, BrainKeepsDecisions, Present, Remembers
<1>2. CASE StoreBrain(s)
  <2>1. job'[s].pc = "projection" /\ job'[s].op = job[s].op /\ job[s].pc = "set_brain"
    BY <1>0, <1>2 DEF StoreBrain, Become, Job
  <2>2. PICK i \in Ids : i = job[s].op.id
    BY <1>0 DEF Job, Op
  <2>3. brain' = brain \cup {i} /\ proj' = proj
    BY <1>0, <1>2, <2>1, <2>2 DEF StoreBrain, update_team_brain_from_entry, Remembers
  <2>4. job'[s].op.id \in brain'
    BY <2>1, <2>2, <2>3
  <2> QED BY <1>0, <2>1, <2>3, <2>4 DEF BrainKeepsDecisions, Present, Remembers
<1>3. CASE StoreProjection(s)
  <2>1. PICK i \in Ids : i = job[s].op.id
    BY <1>0 DEF Job, Op
  <2>2. job[s].pc = "projection" /\ i \in brain /\ brain' = brain
    BY <1>0, <1>3, <2>1 DEF StoreProjection, Remembers
  <2>3. job'[s].pc \in {"next_op", "fingerprint"}
    BY <1>0, <1>3 DEF StoreProjection, Become, Job
  <2>4. \A k \in Ids : proj'[k].at # 0 => proj[k].at # 0 \/ k = i
    BY <1>0, <1>3, <2>1 DEF StoreProjection
  <2> QED BY <1>0, <2>2, <2>3, <2>4 DEF BrainKeepsDecisions, Present, Remembers
<1>4. CASE ~LoadBrain(s) /\ ~StoreBrain(s) /\ ~StoreProjection(s)
  <2>1. UNCHANGED <<brain, proj>>
    BY <1>4
       DEF Works, SyncStep, CheckFingerprint, PublishDone, AllocateSequence, PushOperation, RecordFingerprint,
           LoadMatrix, StoreMatrix, TrimOperations, ReadCursor, ReadSequence, ReadLength, ReadRange,
           RecoverProjections, RecoverState, NextOperation, BatchDone, StoreCursor, MergeEntry, MergeDone, PullBack,
           DropOperation, MissRead, redisVars
  <2>2. job[s].pc \notin {"get_brain", "set_brain", "projection"}
    BY <1>4
       DEF Works, SyncStep, CheckFingerprint, PublishDone, AllocateSequence, PushOperation, RecordFingerprint,
           LoadMatrix, StoreMatrix, TrimOperations, ReadCursor, ReadSequence, ReadLength, ReadRange,
           RecoverProjections, RecoverState, NextOperation, BatchDone, StoreCursor, MergeEntry, MergeDone, PullBack,
           DropOperation, MissRead
  <2>3. job'[s].pc \notin {"set_brain", "projection"}
    BY <1>0, <2>2, FlowStep DEF Works, Follows, Flows
  <2> QED BY <1>0, <2>1, <2>3 DEF BrainKeepsDecisions, Present, Remembers
<1> QED BY <1>1, <1>2, <1>3, <1>4

LEMMA BrainStep ==
  ASSUME Turns = TRUE, MissedReads = FALSE, BrainInv, [Next]_vars PROVE BrainInv'
<1>0. TypeOK /\ TurnInv /\ TypeOK' /\ TurnInv'
  BY TypeStep, TurnStep DEF BrainInv
<1>1. ASSUME NEW s \in Sessions, Works(s)
      PROVE  BrainKeepsDecisions' /\ \A t \in Sessions : Remembers(job[t])'
  <2>1. \A t \in Sessions \ {s} : job'[t].pc = "idle"
    BY <1>0, <1>1, StepOfOne, OthersIdle DEF Works, Running
  <2> QED BY <1>1, <2>1, BrainWork DEF Remembers
<1>2. ASSUME UNCHANGED <<brain, proj>>,
             \A t \in Sessions : job'[t] = job[t] \/ job'[t].pc \in {"idle", "fingerprint"}
      PROVE  BrainKeepsDecisions' /\ \A t \in Sessions : Remembers(job[t])'
  BY <1>2 DEF BrainInv, BrainKeepsDecisions, Present, Remembers
<1>3. ASSUME NEW s \in Sessions, FailSync(s) \/ StartSync(s)
      PROVE  BrainKeepsDecisions' /\ \A t \in Sessions : Remembers(job[t])'
  <2>1. UNCHANGED <<brain, proj>>
    BY <1>3 DEF FailSync, StartSync, redisVars
  <2>2. \E j : Become(s, j) /\ j.pc \in {"idle", "fingerprint"}
    <3>1. CASE FailSync(s)
      BY <3>1 DEF FailSync, Idle
    <3>2. CASE StartSync(s)
      <4>1. PICK snap, todo : Become(s, [Idle EXCEPT !.pc = "fingerprint", !.snap = snap, !.todo = todo])
        BY <3>2 DEF StartSync
      <4>2. [Idle EXCEPT !.pc = "fingerprint", !.snap = snap, !.todo = todo].pc = "fingerprint"
        BY IdleType DEF Job
      <4> QED BY <4>1, <4>2
    <3> QED BY <1>3, <3>1, <3>2
  <2> QED BY <1>0, <1>2, <2>1, <2>2, BecomeJob
<1>4. ASSUME NEW a \in Actors, Crash(a)
      PROVE  BrainKeepsDecisions' /\ \A t \in Sessions : Remembers(job[t])'
  <2>1. UNCHANGED <<brain, proj>> /\ \A t \in Sessions : job'[t] = job[t] \/ job'[t] = Idle
    BY <1>4 DEF Crash, redisVars
  <2>2. Idle.pc = "idle"
    BY DEF Idle
  <2> QED BY <1>2, <2>1, <2>2
<1>5. ASSUME NEW a \in Actors, (\E i \in Ids : Edit(a, i)) \/ Land(a) \/ ExpireCache(a)
      PROVE  BrainKeepsDecisions' /\ \A t \in Sessions : Remembers(job[t])'
  <2>1. UNCHANGED <<brain, proj, job>>
    BY <1>5 DEF Edit, Land, ExpireCache, redisVars
  <2> QED BY <1>2, <2>1
<1>6. ASSUME UNCHANGED vars PROVE BrainKeepsDecisions' /\ \A t \in Sessions : Remembers(job[t])'
  <2>1. UNCHANGED <<brain, proj, job>>
    BY <1>6 DEF vars, redisVars
  <2> QED BY <1>2, <2>1
<1>7. BrainKeepsDecisions' /\ \A t \in Sessions : Remembers(job[t])'
  BY <1>1, <1>3, <1>4, <1>5, <1>6 DEF Next, Works
<1> QED BY <1>0, <1>7 DEF BrainInv

(* As long as syncs take turns and no failed read passes for an empty      *)
(* brain, every projected decision stays in the team brain, although every *)
(* sync reads the brain, adds to it and writes it back as a whole, and may *)
(* fail or crash in between.                                               *)
THEOREM BrainKeepsDecisionsInTurns ==
  ASSUME Turns = TRUE, MissedReads = FALSE PROVE Spec => []BrainKeepsDecisions
<1>1. BrainInv /\ [Next]_vars => BrainInv'
  BY BrainStep
<1>2. Init => BrainInv
  <2>1. Init => BrainKeepsDecisions
    BY NoneEdited DEF Init, BrainKeepsDecisions
  <2>2. Init => \A s \in Sessions : Remembers(job[s])
    BY DEF Init, Remembers, Idle
  <2> QED BY <2>1, <2>2, InitType, TurnInit DEF BrainInv
<1>3. BrainInv => BrainKeepsDecisions
  BY DEF BrainInv
<1> QED BY <1>1, <1>2, <1>3, PTL DEF Spec

-----------------------------------------------------------------------------
(* The operation list when syncs take turns and nothing fails.  Its        *)
(* numbers are consecutive and end with the number pushed last, which is   *)
(* the counter unless a sync holds a number it has still to push.          *)

Top == IF \E s \in Sessions : Pushing(s) THEN seq - 1 ELSE seq

ListInv ==
  /\ Len(ops) <= Top /\ (Len(ops) = 0 => Top = 0)
  /\ \A k \in DOMAIN ops : ops[k].seq + Len(ops) = Top + k /\ ops[k] \in pushed
  /\ \A o \in pushed : o.seq <= Top
  /\ \A a \in Actors : cursor[a] <= Top
  /\ \A s \in Sessions : Pushing(s) => seq # 0 /\ job[s].op.seq = seq

\* The number pushed last, while sync s runs.
LEMMA TopRunning ==
  ASSUME TurnInv, NEW s \in Sessions, Running(s)
  PROVE  Top = IF Pushing(s) THEN seq - 1 ELSE seq
BY DEF TurnInv, Running, Pushing, Top

LEMMA TopQuiet == (\A s \in Sessions : ~Pushing(s)) => Top = seq
BY DEF Top

\* Without faults a sync only takes its own steps.
LEMMA NoFaults ==
  ASSUME MaxFaults = 0, TypeOK
  PROVE  /\ \A s \in Sessions : ~FailSync(s) /\ ~DropOperation(s) /\ ~MissRead(s)
         /\ \A a \in Actors : ~Crash(a)
<1>1. ~(faults < MaxFaults)
  BY DEF TypeOK
<1> QED BY <1>1 DEF FailSync, DropOperation, MissRead, Crash

LEMMA ListNumbers == TypeOK => Len(ops) \in Nat /\ \A k \in DOMAIN ops : k \in Nat /\ ops[k] \in Op /\ ops[k].seq \in Nat
<1>1. ops \in Seq(Op) => Len(ops) \in Nat /\ \A k \in DOMAIN ops : k \in Nat /\ ops[k] \in Op
  OBVIOUS
<1>2. \A o \in Op : o.seq \in Nat
  BY DEF Op
<1> QED BY <1>1, <1>2 DEF TypeOK

LogBase == NumberInv /\ EditInv /\ TurnInv

LEMMA BaseStep ==
  ASSUME Turns = TRUE, LogBase, [Next]_vars PROVE LogBase'
BY NumberStep, EditStep, TurnStep DEF LogBase, EditInv

LEMMA BaseInit == Init => LogBase
BY NumberInit, EditInit, TurnInit DEF LogBase

LEMMA ListAllocate ==
  ASSUME LogBase, LogBase', ListInv, NEW s \in Sessions, AllocateSequence(s) PROVE ListInv'
<1>1. /\ TypeOK /\ job[s] \in Job /\ job \in [Sessions -> Job] /\ seq \in Nat /\ job[s].pc = "incr"
      /\ \A t \in Sessions : Running(t) => t = s
  BY DEF LogBase, EditInv, TypeOK, AllocateSequence, TurnInv, Running
<1>2. seq' = seq + 1 /\ UNCHANGED <<ops, pushed, cursor>>
  BY DEF AllocateSequence, incr, history
<1>3. job'[s].pc = "rpush" /\ job'[s].op.seq = seq + 1
  <2>1. PICK o : o = [job[s].op EXCEPT !.seq = seq + 1]
    OBVIOUS
  <2>2. o.seq = seq + 1
    BY <1>1, <2>1 DEF Job, Op
  <2>3. Become(s, [job[s] EXCEPT !.op = o, !.pc = "rpush"])
    BY <1>1, <2>1 DEF AllocateSequence, incr, Job
  <2> QED BY <1>1, <2>2, <2>3 DEF Become, Job
<1>4. Top = seq /\ Top' = seq' - 1 /\ Top' = Top
  <2>1. Top = seq
    BY <1>1, TopRunning DEF LogBase, Running, Pushing
  <2>2. Pushing(s)'
    BY <1>3 DEF Pushing
  <2>3. Top' = seq' - 1
    BY <2>2 DEF Top
  <2> QED BY <1>1, <1>2, <2>1, <2>3
<1>5. \A t \in Sessions : Pushing(t)' => t = s
  BY <1>1, <1>3 DEF LogBase, TurnInv, Running, Pushing
<1> QED BY <1>1, <1>2, <1>3, <1>4, <1>5 DEF ListInv

LEMMA ListPush ==
  ASSUME LogBase, LogBase', ListInv, NEW s \in Sessions, PushOperation(s) PROVE ListInv'
<1>1. /\ TypeOK /\ job[s] \in Job /\ job \in [Sessions -> Job] /\ seq \in Nat /\ Pushing(s) /\ Running(s)
      /\ ops \in Seq(Op) /\ job[s].op \in Op
  BY DEF LogBase, EditInv, TypeOK, PushOperation, Running, Pushing, Job
<1>2. PICK o \in Op : o = job[s].op
  BY <1>1
<1>3. ops' = Append(ops, o) /\ pushed' = pushed \cup {o} /\ seq' = seq /\ cursor' = cursor
  BY <1>2 DEF PushOperation
<1>4. o.seq = seq /\ seq # 0 /\ Top = seq - 1
  BY <1>1, <1>2, TopRunning DEF LogBase, ListInv
<1>5. job'[s].pc = "hset_fp" /\ Become(s, job'[s])
  BY <1>1 DEF PushOperation, Become, Job
<1>6. \A t \in Sessions : ~Pushing(t)'
  BY <1>1, <1>5, OthersIdle DEF LogBase, Pushing
<1>7. Top' = seq /\ Top' = Top + 1
  BY <1>1, <1>3, <1>4, <1>6 DEF Top
<1>8. Len(ops') = Len(ops) + 1 /\ Len(ops) \in Nat /\ DOMAIN ops = 1..Len(ops) /\ DOMAIN ops' = 1..(Len(ops) + 1)
  BY <1>1, <1>3
<1>9. \A k \in DOMAIN ops' : ops'[k] = IF k = Len(ops) + 1 THEN o ELSE ops[k]
  BY <1>1, <1>3, <1>8
<1>10. Len(ops') <= Top' /\ Len(ops') # 0
  BY <1>1, <1>4, <1>7, <1>8 DEF ListInv
<1>11. ASSUME NEW k \in DOMAIN ops' PROVE ops'[k].seq + Len(ops') = Top' + k /\ ops'[k] \in pushed'
  <2>1. CASE k = Len(ops) + 1
    BY <1>1, <1>3, <1>4, <1>7, <1>8, <1>9, <2>1
  <2>2. CASE k \in DOMAIN ops
    <3>1. ops[k].seq + Len(ops) = Top + k /\ ops[k] \in pushed
      BY <2>2 DEF ListInv
    <3>2. ops[k].seq \in Nat /\ k \in Nat /\ k # Len(ops) + 1
      BY <1>1, <1>8, <2>2, ListNumbers
    <3>3. ops'[k] = ops[k]
      BY <1>9, <1>11, <3>2
    <3> QED BY <1>1, <1>3, <1>4, <1>7, <1>8, <1>11, <3>1, <3>2, <3>3
  <2> QED BY <1>8, <1>11, <2>1, <2>2
<1>12. \A p \in pushed' : p.seq <= Top'
  <2>1. \A p \in pushed : p.seq \in Nat
    BY <1>1 DEF TypeOK, Op
  <2> QED BY <1>1, <1>3, <1>4, <1>7, <2>1 DEF ListInv
<1>13. \A a \in Actors : cursor'[a] <= Top'
  BY <1>1, <1>3, <1>4, <1>7 DEF ListInv, TypeOK
<1> QED BY <1>6, <1>10, <1>11, <1>12, <1>13 DEF ListInv

LEMMA ListTrim ==
  ASSUME LogBase, LogBase', ListInv, NEW s \in Sessions, TrimOperations(s) PROVE ListInv'
<1>1. /\ TypeOK /\ job[s] \in Job /\ job \in [Sessions -> Job] /\ seq \in Nat /\ Running(s) /\ ~Pushing(s)
      /\ ops \in Seq(Op) /\ OpsCap \in Nat /\ OpsCap # 0
  BY ConstantsAssumption DEF LogBase, EditInv, TypeOK, TrimOperations, Running, Pushing, Job
<1>2. UNCHANGED <<seq, cursor, pushed>> /\ job'[s].pc = "get_cursor" /\ Become(s, job'[s])
  BY <1>1 DEF TrimOperations, Become, Job, history
<1>3. \A t \in Sessions : ~Pushing(t)'
  BY <1>1, <1>2, OthersIdle DEF LogBase, Pushing
<1>4. Top = seq /\ Top' = Top
  BY <1>1, <1>2, <1>3, TopRunning DEF LogBase, Top
<1>5. CASE Len(ops) <= OpsCap
  <2>1. ops' = ops
    BY <1>1, <1>5 DEF TrimOperations
  <2> QED BY <1>2, <1>3, <1>4, <2>1 DEF ListInv
<1>6. CASE Len(ops) > OpsCap
  <2>0. Len(ops) - OpsCap \in Nat /\ Len(ops) - OpsCap < Len(ops)
    BY <1>1, <1>6, ListNumbers
  <2>1. PICK start \in Nat : start = Len(ops) - OpsCap /\ start < Len(ops)
    BY <2>0
  <2>2. ops' = SubSeq(ops, start + 1, Len(ops))
    BY <1>6, <2>1 DEF TrimOperations, lrange
  <2>3. Len(ops') = OpsCap /\ DOMAIN ops' = 1..OpsCap
    BY <1>1, <1>6, <2>1, <2>2
  <2>4. \A k \in 1..OpsCap : ops'[k] = ops[k + start] /\ k + start \in DOMAIN ops
    BY <1>1, <1>6, <2>1, <2>2, <2>3
  <2>5. ASSUME NEW k \in DOMAIN ops' PROVE ops'[k].seq + Len(ops') = Top' + k /\ ops'[k] \in pushed'
    <3>1. k \in Nat /\ k + start \in DOMAIN ops /\ ops'[k] = ops[k + start]
      BY <1>1, <2>3, <2>4, <2>5
    <3>2. ops[k + start].seq + Len(ops) = Top + (k + start) /\ ops[k + start] \in pushed
      BY <3>1 DEF ListInv
    <3>3. ops[k + start].seq \in Nat
      BY <1>1, <3>1, ListNumbers
    <3> QED BY <1>1, <1>2, <1>4, <2>1, <2>3, <3>1, <3>2, <3>3
  <2>6. Len(ops') <= Top' /\ Len(ops') # 0
    BY <1>1, <1>4, <1>6, <2>3 DEF ListInv
  <2> QED BY <1>2, <1>3, <1>4, <2>5, <2>6 DEF ListInv
<1> QED BY <1>1, <1>5, <1>6

LEMMA ListStoreCursor ==
  ASSUME LogBase, LogBase', ListInv, NEW s \in Sessions, StoreCursor(s) PROVE ListInv'
<1>1. TypeOK /\ job[s] \in Job /\ job \in [Sessions -> Job] /\ Running(s) /\ ~Pushing(s)
  BY DEF LogBase, EditInv, TypeOK, StoreCursor, Running, Pushing
<1>2. UNCHANGED <<seq, ops, pushed>> /\ job'[s].pc = "merge" /\ Become(s, job'[s])
  BY <1>1 DEF StoreCursor, Become, Job, history
<1>3. \A t \in Sessions : ~Pushing(t)'
  BY <1>1, <1>2, OthersIdle DEF LogBase, Pushing
<1>4. Top = seq /\ Top' = Top
  BY <1>1, <1>2, <1>3, TopRunning DEF LogBase, Top
<1>5. \A a \in Actors : cursor'[a] <= seq
  BY <1>2 DEF LogBase, NumberInv, CounterBounds, CursorBehindCounter
<1> QED BY <1>2, <1>3, <1>4, <1>5 DEF ListInv

\* What the list, its numbers and the cursors are made of.
LEMMA ListKeeps ==
  ASSUME ListInv, UNCHANGED <<seq, ops, pushed, cursor>>, \A t \in Sessions : ~Pushing(t) /\ ~Pushing(t)'
  PROVE  ListInv'
<1>1. Top' = Top
  BY DEF Top
<1> QED BY <1>1 DEF ListInv

LEMMA ListStep ==
  ASSUME Turns = TRUE, MaxFaults = 0, LogBase, LogBase', ListInv, [Next]_vars PROVE ListInv'
<1>0. TypeOK /\ TurnInv
  BY DEF LogBase, EditInv
<1>1. ASSUME NEW s \in Sessions, SyncStep(s), ~AllocateSequence(s), ~PushOperation(s), ~TrimOperations(s),
             ~StoreCursor(s)
      PROVE  ListInv'
  <2>1. UNCHANGED <<seq, ops, pushed, cursor>> /\ job[s].pc \notin {"incr", "rpush"}
    BY <1>1
       DEF SyncStep, CheckFingerprint, PublishDone, RecordFingerprint, LoadMatrix, StoreMatrix, LoadBrain, StoreBrain,
           StoreProjection, ReadCursor, ReadSequence, ReadLength, ReadRange, RecoverProjections, RecoverState,
           NextOperation, BatchDone, MergeEntry, MergeDone, PullBack, redisVars, history
  <2>2. job'[s].pc # "rpush"
    BY <1>0, <1>1, <2>1, FlowStep DEF Follows, Flows
  <2>3. Running(s) /\ Become(s, job'[s])
    BY <1>0, <1>1, StepOfOne DEF Running
  <2>4. \A t \in Sessions : ~Pushing(t) /\ ~Pushing(t)'
    BY <1>0, <2>1, <2>2, <2>3, OthersIdle DEF Pushing
  <2> QED BY <2>1, <2>4, ListKeeps
<1>2. ASSUME NEW s \in Sessions, StartSync(s) PROVE ListInv'
  <2>1. UNCHANGED <<seq, ops, pushed, cursor>> /\ Quiet
    BY <1>2 DEF StartSync, redisVars, history
  <2>2. PICK snap, todo : Become(s, [Idle EXCEPT !.pc = "fingerprint", !.snap = snap, !.todo = todo])
    BY <1>2 DEF StartSync
  <2>3. [Idle EXCEPT !.pc = "fingerprint", !.snap = snap, !.todo = todo].pc = "fingerprint"
    BY IdleType DEF Job
  <2>4. \A t \in Sessions : ~Pushing(t) /\ ~Pushing(t)'
    BY <1>0, <2>1, <2>2, <2>3, BecomeJob DEF Quiet, Pushing
  <2> QED BY <2>1, <2>4, ListKeeps
<1>3. ASSUME UNCHANGED <<seq, ops, pushed, cursor, job>> PROVE ListInv'
  <2>1. Top' = Top /\ \A t \in Sessions : Pushing(t)' <=> Pushing(t)
    BY <1>3 DEF Top, Pushing
  <2> QED BY <1>3, <2>1 DEF ListInv
<1>4. ASSUME NEW a \in Actors, (\E i \in Ids : Edit(a, i)) \/ Land(a) \/ ExpireCache(a) PROVE ListInv'
  BY <1>3, <1>4 DEF Edit, Land, ExpireCache, redisVars, history
<1>5. ASSUME UNCHANGED vars PROVE ListInv'
  BY <1>3, <1>5 DEF vars, redisVars, history
<1> QED BY <1>0, <1>1, <1>2, <1>4, <1>5, NoFaults, ListAllocate, ListPush, ListTrim, ListStoreCursor DEF Next

-----------------------------------------------------------------------------
(* Which steps of a sync belong to publishing and which to pulling.        *)

Phased(j) ==
  /\ j.pc \in {"fingerprint", "incr", "rpush", "hset_fp", "ltrim", "get_cursor"} => ~j.pull
  /\ j.pc \in {"get_seq", "llen", "lrange", "recover", "recover_state", "next_op", "set_cursor"} => j.pull

LEMMA PullFlag ==
  ASSUME TypeOK, NEW s \in Sessions, SyncStep(s)
  PROVE  /\ job[s].pc \in {"set_matrix", "projection"} /\ job'[s].pc = "next_op" => job[s].pull
         /\ job[s].pc = "projection" /\ job'[s].pc = "fingerprint" => ~job[s].pull
<1>0. job[s] \in Job /\ job \in [Sessions -> Job]
  BY DEF TypeOK
<1>1. CASE StoreMatrix(s)
  <2>1. job[s].pc = "set_matrix"
    BY <1>1 DEF StoreMatrix
  <2>2. ASSUME ~job[s].pull PROVE job'[s].pc = "get_brain"
    <3>1. Become(s, [job[s] EXCEPT !.pc = "get_brain", !.mx = NoMatrix])
      BY <1>1, <2>2 DEF StoreMatrix
    <3> QED BY <1>0, <3>1 DEF Become, Job
  <2> QED BY <2>1, <2>2
<1>2. CASE StoreProjection(s)
  <2>1. job'[s].pc = IF job[s].pull THEN "next_op" ELSE "fingerprint"
    BY <1>0, <1>2 DEF StoreProjection, Become, Job
  <2> QED BY <1>2, <2>1 DEF StoreProjection
<1>3. CASE ~StoreMatrix(s) /\ ~StoreProjection(s)
  BY <1>3 DEF SyncStep, CheckFingerprint, PublishDone, AllocateSequence, PushOperation, RecordFingerprint, LoadMatrix,
              LoadBrain, StoreBrain, TrimOperations, ReadCursor, ReadSequence, ReadLength, ReadRange,
              RecoverProjections, RecoverState, NextOperation, BatchDone, StoreCursor, MergeEntry, MergeDone, PullBack
<1> QED BY <1>1, <1>2, <1>3

LEMMA PhaseWork ==
  ASSUME TypeOK, NEW s \in Sessions, SyncStep(s), Phased(job[s]) PROVE Phased(job'[s])
<1>1. Follows(job[s], job'[s])
  BY FlowStep
<1>2. CASE job[s].pc \in {"fingerprint", "incr", "rpush", "hset_fp", "get_matrix", "get_brain", "set_brain"}
  BY <1>1, <1>2 DEF Follows, Flows, Carries, Phased
<1>3. CASE job[s].pc \in {"ltrim", "get_cursor", "get_seq", "llen", "lrange", "recover", "recover_state"}
  BY <1>1, <1>3 DEF Follows, Flows, Carries, Phased
<1>4. CASE job[s].pc \in {"set_matrix", "projection"}
  BY <1>1, <1>4, PullFlag DEF Follows, Flows, Carries, Phased
<1>5. CASE job[s].pc \in {"next_op", "set_cursor", "merge", "pull_back"}
  BY <1>1, <1>5 DEF Follows, Flows, Carries, Phased
<1> QED BY <1>1, <1>2, <1>3, <1>4, <1>5 DEF Follows, Flows

-----------------------------------------------------------------------------
(* What a sync has read is what Redis still holds, and from the moment it  *)
(* has fetched the operations its daemon knows every operation there is.   *)

Publishing(j) ==
  ~j.pull /\ j.pc \in {"hset_fp", "get_matrix", "set_matrix", "get_brain", "set_brain", "projection"}
Fetched(j) ==
  j.pull /\ j.pc \in {"next_op", "get_matrix", "set_matrix", "get_brain", "set_brain", "projection", "set_cursor"}

AllSeen(a) == \A o \in pushed : o.seq \in seen[a]

Reads(j, a) ==
  /\ j.pc \in {"get_seq", "llen", "lrange"} => j.cur = cursor[a]
  /\ j.pc \in {"llen", "lrange", "recover", "recover_state"} => j.current = seq
  /\ j.pc = "lrange" => j.len = Len(ops)
  /\ j.pc = "recover_state" => j.got = proj
  /\ Fetched(j) => cursor[a] <= j.next /\ AllSeen(a)

(* Every operation pushed is projected, but for the one whose publishing   *)
(* is under way.                                                           *)
ProjectedInv ==
  \A o \in pushed : \/ proj[o.id].at # 0
                    \/ \E s \in Sessions : Publishing(job[s]) /\ job[s].op.id = o.id

SeenInv == \A a \in Actors : \A n \in seen[a] : \E o \in pushed : o.seq = n

ReadInv ==
  /\ \A s \in Sessions : Phased(job[s]) /\ Reads(job[s], ActorOf(s))
  /\ ProjectedInv /\ SeenInv /\ NoSkippedOperation

\* A step that publishes.
LEMMA ReadsPublish ==
  ASSUME TypeOK, NEW s \in Sessions, Phased(job[s]),
         CheckFingerprint(s) \/ PublishDone(s) \/ AllocateSequence(s) \/ PushOperation(s) \/ RecordFingerprint(s)
         \/ TrimOperations(s)
  PROVE  Reads(job[s], ActorOf(s))'
<1>1. Follows(job[s], job'[s])
  BY FlowStep DEF SyncStep
<1>2. job[s].pc \in {"fingerprint", "incr", "rpush", "hset_fp", "ltrim"}
  BY DEF CheckFingerprint, PublishDone, AllocateSequence, PushOperation, RecordFingerprint, TrimOperations
<1>3. job'[s].pc \in {"fingerprint", "incr", "rpush", "hset_fp", "ltrim", "get_cursor", "get_matrix"}
  BY <1>1, <1>2 DEF Follows, Flows
<1>4. ~job'[s].pull
  BY <1>1, <1>2, <1>3 DEF Follows, Carries, Phased
<1> QED BY <1>3, <1>4 DEF Reads, Fetched

\* A step that both publishing and pulling take, or a pull between operations.
LEMMA ReadsApply ==
  ASSUME TypeOK, NEW s \in Sessions, Phased(job[s]), Reads(job[s], ActorOf(s)),
         LoadMatrix(s) \/ StoreMatrix(s) \/ LoadBrain(s) \/ StoreBrain(s) \/ StoreProjection(s)
         \/ NextOperation(s) \/ BatchDone(s)
  PROVE  Reads(job[s], ActorOf(s))'
<1>0. TypeOK' /\ job[s] \in Job /\ job \in [Sessions -> Job]
  <2>1. [Next]_vars
    BY DEF Next, SyncStep
  <2> QED BY <2>1, TypeStep DEF TypeOK
<1>1. Follows(job[s], job'[s])
  BY FlowStep DEF SyncStep
<1>2. UNCHANGED <<cursor, pushed, seen>>
  BY DEF LoadMatrix, StoreMatrix, LoadBrain, StoreBrain, StoreProjection, NextOperation, BatchDone, redisVars, history
<1>3. job[s].pc \in {"get_matrix", "set_matrix", "get_brain", "set_brain", "projection", "next_op"}
  BY DEF LoadMatrix, StoreMatrix, LoadBrain, StoreBrain, StoreProjection, NextOperation, BatchDone
<1>4. job'[s].pc \in {"set_matrix", "get_brain", "next_op", "set_brain", "projection", "fingerprint", "get_matrix", "set_cursor"}
  BY <1>1, <1>3 DEF Follows, Flows
<1>5. job'[s].pull <=> job[s].pull
  BY <1>1, <1>3, <1>4 DEF Follows, Carries
<1>6. job[s].next <= job'[s].next
  <2>1. CASE NextOperation(s)
    <3>1. PICK o : o = Head(job[s].batch)
      OBVIOUS
    <3>2. o \in Op
      BY <1>0, <2>1, <3>1 DEF NextOperation, Job
    <3>3. job'[s].next = next_cursor(job[s].next, o)
      BY <1>0, <2>1, <3>1 DEF NextOperation, Become, Job
    <3> QED BY <1>0, <3>2, <3>3 DEF next_cursor, Job, Op
  <2>2. CASE StoreMatrix(s)
    <3>1. \/ Become(s, [job[s] EXCEPT !.pc = "next_op", !.mx = NoMatrix, !.op = NoOp])
          \/ \E e : Become(s, [job[s] EXCEPT !.pc = "get_brain", !.mx = NoMatrix, !.op.entry = e])
          \/ Become(s, [job[s] EXCEPT !.pc = "get_brain", !.mx = NoMatrix])
      BY <2>2 DEF StoreMatrix
    <3>2. CASE Become(s, [job[s] EXCEPT !.pc = "next_op", !.mx = NoMatrix, !.op = NoOp])
      BY <1>0, <3>2 DEF Become, Job
    <3>3. ASSUME NEW e, Become(s, [job[s] EXCEPT !.pc = "get_brain", !.mx = NoMatrix, !.op.entry = e])
          PROVE  job[s].next <= job'[s].next
      BY <1>0, <3>3 DEF Become, Job
    <3>4. CASE Become(s, [job[s] EXCEPT !.pc = "get_brain", !.mx = NoMatrix])
      BY <1>0, <3>4 DEF Become, Job
    <3> QED BY <3>1, <3>2, <3>3, <3>4
  <2>3. CASE LoadMatrix(s) \/ LoadBrain(s) \/ StoreBrain(s) \/ StoreProjection(s) \/ BatchDone(s)
    <3>1. job'[s].next = job[s].next
      <4>1. CASE LoadMatrix(s)
        BY <1>0, <4>1 DEF LoadMatrix, Become, Job
      <4>2. CASE LoadBrain(s)
        BY <1>0, <4>2 DEF LoadBrain, Become, Job
      <4>3. CASE StoreBrain(s)
        BY <1>0, <4>3 DEF StoreBrain, Become, Job
      <4>4. CASE StoreProjection(s)
        BY <1>0, <4>4 DEF StoreProjection, Become, Job
      <4>5. CASE BatchDone(s)
        BY <1>0, <4>5 DEF BatchDone, Become, Job
      <4> QED BY <2>3, <4>1, <4>2, <4>3, <4>4, <4>5
    <3> QED BY <1>0, <3>1 DEF Job
  <2> QED BY <2>1, <2>2, <2>3
<1>7. CASE Fetched(job'[s])
  <2>1. Fetched(job[s])
    BY <1>3, <1>5, <1>7 DEF Fetched
  <2>2. cursor[ActorOf(s)] \in Nat /\ job[s].next \in Nat /\ job'[s].next \in Nat
    BY <1>0, ActorOfSession DEF TypeOK, Job
  <2>3. cursor[ActorOf(s)] <= job[s].next /\ AllSeen(ActorOf(s))
    BY <2>1 DEF Reads
  <2> QED BY <1>2, <1>4, <1>6, <2>2, <2>3 DEF Reads, AllSeen
<1>8. CASE ~Fetched(job'[s])
  BY <1>4, <1>8 DEF Reads
<1> QED BY <1>7, <1>8

\* The reads of a pull, whose answers stay true while the sync runs alone.
LEMMA ReadsRead ==
  ASSUME TypeOK, NEW s \in Sessions, Reads(job[s], ActorOf(s)),
         ReadCursor(s) \/ ReadSequence(s) \/ ReadLength(s) \/ RecoverProjections(s)
  PROVE  Reads(job[s], ActorOf(s))'
<1>0. job[s] \in Job /\ job \in [Sessions -> Job]
  BY DEF TypeOK
<1>1. CASE ReadCursor(s)
  <2>1. job'[s].pc = "get_seq" /\ job'[s].cur = cursor[ActorOf(s)] /\ cursor' = cursor
    BY <1>0, <1>1 DEF ReadCursor, Become, Job, redisVars
  <2> QED BY <2>1 DEF Reads, Fetched
<1>2. CASE ReadSequence(s)
  <2>1. /\ job[s].pc = "get_seq" /\ job'[s].pc = "llen" /\ job'[s].cur = job[s].cur /\ job'[s].current = seq
        /\ seq' = seq /\ cursor' = cursor
    BY <1>0, <1>2 DEF ReadSequence, Become, Job, redisVars
  <2> QED BY <2>1 DEF Reads, Fetched
<1>3. CASE ReadLength(s)
  <2>1. /\ job[s].pc = "llen" /\ job'[s].pc = "lrange" /\ job'[s].cur = job[s].cur /\ job'[s].current = job[s].current
        /\ job'[s].len = Len(ops) /\ seq' = seq /\ cursor' = cursor /\ ops' = ops
    BY <1>0, <1>3 DEF ReadLength, Become, Job, redisVars
  <2> QED BY <2>1 DEF Reads, Fetched
<1>4. CASE RecoverProjections(s)
  <2>1. /\ job[s].pc = "recover" /\ job'[s].pc = "recover_state" /\ job'[s].current = job[s].current
        /\ job'[s].got = proj /\ seq' = seq /\ proj' = proj
    BY <1>0, <1>4 DEF RecoverProjections, Become, Job, redisVars
  <2> QED BY <2>1 DEF Reads, Fetched
<1> QED BY <1>1, <1>2, <1>3, <1>4

LEMMA ReadsMerge ==
  ASSUME TypeOK, NEW s \in Sessions, StoreCursor(s) \/ MergeEntry(s) \/ MergeDone(s) \/ PullBack(s)
  PROVE  Reads(job[s], ActorOf(s))'
<1>1. job[s].pc \in {"set_cursor", "merge", "pull_back"}
  BY DEF StoreCursor, MergeEntry, MergeDone, PullBack
<1>2. job'[s].pc \in {"merge", "pull_back", "idle"}
  BY <1>1, FlowStep DEF SyncStep, Follows, Flows
<1> QED BY <1>2 DEF Reads, Fetched

\* The numbers of a list are consecutive and end with n.
Consecutive(list, n) == Len(list) <= n /\ \A k \in DOMAIN list : list[k].seq + Len(list) = n + k

\* A list has every number above cur and up to n.
Covers(list, cur, n) == \A m \in Nat : cur < m /\ m <= n => \E k \in DOMAIN list : list[k].seq = m

\* LRANGE after no gap returns every number of the list above the cursor.
LEMMA RangeCovers ==
  ASSUME NEW cur \in Nat, NEW n \in Nat, NEW list \in Seq(Op), Consecutive(list, n), Len(list) # 0,
         ~has_gap(cur, n, Len(list))
  PROVE  Covers(lrange(list, range_start(cur, n, Len(list))), cur, n)
<1> SUFFICES ASSUME NEW m \in Nat, cur < m, m <= n
             PROVE  \E k \in DOMAIN lrange(list, range_start(cur, n, Len(list))) :
                      lrange(list, range_start(cur, n, Len(list)))[k].seq = m
  BY DEF Covers
<1>0. PICK len \in Nat : /\ len = Len(list) /\ len # 0 /\ len <= n /\ ~has_gap(cur, n, len)
                         /\ \A k \in 1..len : list[k].seq + len = n + k
  BY DEF Consecutive
<1>1. earliest_sequence(n, len) = n - len + 1
  BY <1>0 DEF earliest_sequence
<1>2. n - len + 1 <= cur + 1
  BY <1>0, <1>1 DEF has_gap
<1>3. PICK start \in Nat : start = range_start(cur, n, len)
  BY <1>0, RangeStartType
<1>4. start = IF cur < n - len + 1 THEN 0 ELSE cur - (n - len + 1) + 1
  BY <1>0, <1>1, <1>3 DEF range_start
<1>5. start = cur - (n - len) /\ start < len
  BY <1>0, <1>2, <1>4
<1>6. (m - cur) \in 1..(len - start) /\ (m - cur) + start \in 1..len
  BY <1>0, <1>2, <1>5
<1>7. lrange(list, start) = SubSeq(list, start + 1, len)
  BY <1>0 DEF lrange
<1>8. DOMAIN lrange(list, start) = 1..(len - start)
  BY <1>0, <1>5, <1>7
<1>9. lrange(list, start)[m - cur] = list[(m - cur) + start]
  <2>1. PICK k \in Nat : k = m - cur /\ k \in 1..(len - start)
    BY <1>0, <1>6
  <2>2. len = Len(list) /\ start + 1 \in Nat
    BY <1>0
  <2>3. SubSeq(list, start + 1, len)[k] = list[k + start]
    BY <1>5, <2>1, <2>2
  <2> QED BY <1>7, <2>1, <2>3
<1>10. list[(m - cur) + start].seq + len = n + ((m - cur) + start)
  BY <1>0, <1>6
<1>11. list[(m - cur) + start] \in Op
  BY <1>0, <1>6
<1>12. list[(m - cur) + start].seq = m
  BY <1>0, <1>5, <1>10, <1>11 DEF Op
<1> QED BY <1>0, <1>3, <1>6, <1>8, <1>9, <1>12

\* A step of a sync that is not pushing leaves the list as ListInv has it.
LEMMA ListAtRest ==
  ASSUME LogBase, ListInv, NEW s \in Sessions, Running(s), ~Pushing(s)
  PROVE  /\ Len(ops) <= seq /\ (Len(ops) = 0 => seq = 0)
         /\ \A k \in DOMAIN ops : ops[k].seq + Len(ops) = seq + k /\ ops[k] \in pushed
         /\ \A o \in pushed : o.seq <= seq
         /\ \A a \in Actors : cursor[a] <= seq
<1>1. Top = seq
  BY TopRunning DEF LogBase
<1> QED BY <1>1 DEF ListInv

LEMMA ReadsRange ==
  ASSUME LogBase, ListInv, NoSkippedOperation, NEW s \in Sessions, Phased(job[s]), Reads(job[s], ActorOf(s)), ReadRange(s)
  PROVE  Reads(job[s], ActorOf(s))'
<1> DEFINE a == ActorOf(s)
<1>0. TypeOK /\ job[s] \in Job /\ job \in [Sessions -> Job] /\ ops \in Seq(Op) /\ seq \in Nat /\ a \in Actors
      /\ seen \in [Actors -> SUBSET Nat] /\ cursor[a] \in Nat
  BY ActorOfSession DEF LogBase, EditInv, TypeOK
<1>1. /\ job[s].pc = "lrange" /\ job[s].cur = cursor[a] /\ job[s].current = seq /\ job[s].len = Len(ops)
      /\ UNCHANGED <<seq, ops, cursor, pushed>> /\ Running(s) /\ ~Pushing(s)
  BY DEF ReadRange, Reads, Running, Pushing, redisVars
<1> HIDE DEF a
<1>2. PICK cur \in Nat : cur = cursor[a]
  BY <1>0
<1>n. PICK n \in Nat : n = seq
  BY <1>0
<1>l. PICK len \in Nat : len = Len(ops)
  BY <1>0, ListNumbers
<1>3. CASE has_gap(cur, n, len)
  <2>1. Become(s, [job[s] EXCEPT !.len = 0, !.pc = "recover"])
    BY <1>1, <1>2, <1>n, <1>l, <1>3 DEF ReadRange, a
  <2>2. job'[s].pc = "recover" /\ job'[s].current = job[s].current
    BY <1>0, <2>1 DEF Become, Job
  <2> QED BY <1>1, <2>2 DEF Reads, Fetched
<1>4. CASE ~has_gap(cur, n, len)
  <2>1. PICK raw : raw = IF len > 0 THEN lrange(ops, range_start(cur, n, len)) ELSE <<>>
    OBVIOUS
  <2>2. /\ Become(s, [job[s] EXCEPT !.batch = raw, !.next = job[s].cur, !.current = 0, !.len = 0, !.pc = "next_op"])
        /\ seen' = [seen EXCEPT ![a] = @ \cup {raw[k].seq : k \in DOMAIN raw}]
    BY <1>1, <1>2, <1>n, <1>l, <1>4, <2>1 DEF ReadRange, a
  <2>3. job'[s].pc = "next_op" /\ job'[s].next = job[s].cur
    BY <1>0, <2>2 DEF Become, Job
  <2>4. seen'[a] = seen[a] \cup {raw[k].seq : k \in DOMAIN raw}
    BY <1>0, <2>2
  <2>5. ASSUME NEW o \in pushed PROVE o.seq \in seen'[a]
    <3>1. PICK m \in Nat : m = o.seq
      BY <1>0 DEF TypeOK, Op
    <3>2. m <= n /\ (len = 0 => n = 0) /\ len <= n /\ \A k \in 1..len : ops[k].seq + len = n + k
      BY <1>0, <1>1, <1>2, <1>n, <1>l, <3>1, ListAtRest
    <3>3. CASE m <= cur
      BY <1>0, <1>2, <1>n, <1>l, <2>4, <3>1, <3>3 DEF NoSkippedOperation
    <3>4. CASE cur < m
      <4>1. len # 0 /\ len > 0
        BY <3>2, <3>4
      <4>2. raw = lrange(ops, range_start(cur, n, len))
        BY <2>1, <4>1
      <4>3. Covers(raw, cur, n)
        <5>1. Consecutive(ops, n) /\ Len(ops) # 0 /\ ~has_gap(cur, n, Len(ops))
          BY <1>0, <1>l, <1>4, <3>2, <4>1 DEF Consecutive
        <5> QED BY <1>0, <1>l, <4>2, <5>1, RangeCovers
      <4>4. \E k \in DOMAIN raw : raw[k].seq = m
        BY <3>2, <3>4, <4>3 DEF Covers
      <4> QED BY <2>4, <3>1, <4>4
    <3> QED BY <3>3, <3>4
  <2>6. AllSeen(a)'
    BY <1>1, <2>5 DEF AllSeen, a
  <2>7. cursor'[a] <= job'[s].next
    BY <1>0, <1>1, <2>3
  <2> QED BY <2>3, <2>6, <2>7 DEF Reads, Fetched, a
<1> QED BY <1>3, <1>4

\* After a gap the projections stand for every operation, provided none of
\* them is older than an operation: an entry is edited once.
LEMMA ReadsRecover ==
  ASSUME LogBase, ListInv, ProjectedInv, NEW s \in Sessions, Phased(job[s]), Reads(job[s], ActorOf(s)), RecoverState(s),
         MaxEdits <= 1
  PROVE  Reads(job[s], ActorOf(s))'
<1> DEFINE a == ActorOf(s)
<1>0. TypeOK /\ job[s] \in Job /\ job \in [Sessions -> Job] /\ seq \in Nat /\ a \in Actors /\ MaxEdits \in Nat
      /\ seen \in [Actors -> SUBSET Nat] /\ proj \in [Ids -> Entry] /\ pushed \in SUBSET Op
  BY ActorOfSession, ConstantsAssumption DEF LogBase, EditInv, TypeOK
<1>1. /\ job[s].pc = "recover_state" /\ job[s].current = seq /\ job[s].got = proj
      /\ UNCHANGED <<seq, cursor, pushed>> /\ Running(s) /\ ~Pushing(s)
  BY DEF RecoverState, Reads, Running, Pushing, redisVars
<1> HIDE DEF a
<1>2. job'[s].pc = "set_cursor" /\ job'[s].next = seq
  <2>1. PICK got : Become(s, [job[s] EXCEPT !.got = got, !.next = job[s].current, !.current = 0, !.pc = "set_cursor"])
    BY DEF RecoverState
  <2> QED BY <1>0, <1>1, <2>1 DEF Become, Job
<1>3. seen' = [seen EXCEPT ![a] = @ \cup
        {o.seq : o \in {p \in pushed : p.seq <= seq /\ p.entry.at <= proj[p.id].at}}]
  BY <1>1 DEF RecoverState, a
<1>4. ASSUME NEW o \in pushed PROVE o.seq <= seq /\ o.entry.at <= proj[o.id].at
  <2>1. o.seq <= seq
    BY <1>0, <1>1, ListAtRest
  <2>2. Edited(o.entry) /\ o \in Op
    BY <1>0 DEF LogBase, EditInv, StoresEdited
  <2>3. \A t \in Sessions : ~Publishing(job[t])
    BY <1>1 DEF LogBase, TurnInv, Running, Publishing
  <2>4. proj[o.id].at # 0
    BY <2>3 DEF ProjectedInv
  <2>5. proj[o.id].at \in Nat /\ o.entry.at \in Nat
    BY <1>0, <2>2 DEF Op, Entry
  <2> QED BY <1>0, <2>1, <2>2, <2>4, <2>5 DEF Edited
<1>5. \A o \in pushed : o.seq \in seen'[a]
  BY <1>0, <1>3, <1>4
<1>6. AllSeen(a)'
  BY <1>1, <1>5 DEF AllSeen, a
<1>7. cursor'[a] <= job'[s].next
  BY <1>0, <1>1, <1>2, ListAtRest
<1> QED BY <1>2, <1>6, <1>7 DEF Reads, Fetched, a

-----------------------------------------------------------------------------
LEMMA PublishingOn ==
  ASSUME TypeOK, NEW s \in Sessions, SyncStep(s), Publishing(job[s]), job[s].pc # "projection"
  PROVE  Publishing(job'[s]) /\ job'[s].op = job[s].op /\ UNCHANGED <<proj, pushed>>
<1>0. job[s] \in Job /\ job \in [Sessions -> Job] /\ ~job[s].pull
      /\ job[s].pc \in {"hset_fp", "get_matrix", "set_matrix", "get_brain", "set_brain"}
  BY DEF TypeOK, Publishing
<1>1. Follows(job[s], job'[s])
  BY FlowStep
<1>2. CASE StoreMatrix(s)
  <2>1. Become(s, [job[s] EXCEPT !.pc = "get_brain", !.mx = NoMatrix])
    BY <1>0, <1>2 DEF StoreMatrix
  <2>2. job'[s].pc = "get_brain" /\ job'[s].op = job[s].op
    BY <1>0, <2>1 DEF Become, Job
  <2>3. ~job'[s].pull
    BY <1>0, <1>1, <2>2 DEF Follows, Carries
  <2> QED BY <1>2, <2>2, <2>3 DEF Publishing, StoreMatrix, history
<1>3. CASE RecordFingerprint(s) \/ LoadMatrix(s) \/ LoadBrain(s) \/ StoreBrain(s)
  <2>1. job'[s].op = job[s].op
    <3>1. CASE RecordFingerprint(s)
      BY <1>0, <3>1 DEF RecordFingerprint, Become, Job
    <3>2. CASE LoadMatrix(s)
      BY <1>0, <3>2 DEF LoadMatrix, Become, Job
    <3>3. CASE LoadBrain(s)
      BY <1>0, <3>3 DEF LoadBrain, Become, Job
    <3>4. CASE StoreBrain(s)
      BY <1>0, <3>4 DEF StoreBrain, Become, Job
    <3> QED BY <1>3, <3>1, <3>2, <3>3, <3>4
  <2>2. job'[s].pc \in {"get_matrix", "set_matrix", "set_brain", "projection"}
    <3>1. job[s].pc # "set_matrix"
      BY <1>3 DEF RecordFingerprint, LoadMatrix, LoadBrain, StoreBrain
    <3> QED BY <1>0, <1>1, <3>1 DEF Follows, Flows
  <2>3. ~job'[s].pull
    BY <1>0, <1>1, <2>2 DEF Follows, Carries
  <2> QED BY <1>3, <2>1, <2>2, <2>3 DEF Publishing, RecordFingerprint, LoadMatrix, LoadBrain, StoreBrain, redisVars, history
<1>4. StoreMatrix(s) \/ RecordFingerprint(s) \/ LoadMatrix(s) \/ LoadBrain(s) \/ StoreBrain(s)
  BY <1>0 DEF SyncStep, CheckFingerprint, PublishDone, AllocateSequence, PushOperation,
              StoreProjection, TrimOperations, ReadCursor, ReadSequence, ReadLength, ReadRange, RecoverProjections,
              RecoverState, NextOperation, BatchDone, StoreCursor, MergeEntry, MergeDone, PullBack
<1> QED BY <1>2, <1>3, <1>4

\* While no operation is being published, every one is projected.
LEMMA AllProjected ==
  ASSUME TurnInv, ProjectedInv, NEW s \in Sessions, Running(s), ~Publishing(job[s])
  PROVE  \A o \in pushed : proj[o.id].at # 0
<1>1. \A t \in Sessions : ~Publishing(job[t])
  BY DEF TurnInv, Running, Publishing
<1> QED BY <1>1 DEF ProjectedInv

LEMMA ProjectedWork ==
  ASSUME LogBase, ProjectedInv, NEW s \in Sessions, SyncStep(s), Phased(job[s])
  PROVE  ProjectedInv'
<1>0. /\ TypeOK /\ TurnInv /\ job[s] \in Job /\ job \in [Sessions -> Job] /\ Running(s)
      /\ proj \in [Ids -> Entry] /\ pushed \in SUBSET Op
  BY StepOfOne DEF LogBase, EditInv, TypeOK, Running
<1>1. PICK op \in Op : op = job[s].op
  BY <1>0 DEF Job
<1>2. CASE PushOperation(s)
  <2>1. job'[s].pc = "hset_fp" /\ job'[s].op = op /\ (job'[s].pull <=> job[s].pull) /\ job[s].pc = "rpush"
    BY <1>0, <1>1, <1>2 DEF PushOperation, Become, Job
  <2>2. Publishing(job'[s])
    BY <2>1 DEF Phased, Publishing
  <2>3. pushed' = pushed \cup {op} /\ proj' = proj
    BY <1>1, <1>2 DEF PushOperation
  <2>4. \A o \in pushed : proj[o.id].at # 0
    BY <1>0, <2>1, AllProjected DEF Publishing
  <2>5. ASSUME NEW o \in pushed'
        PROVE  proj'[o.id].at # 0 \/ (Publishing(job'[s]) /\ job'[s].op.id = o.id)
    BY <2>1, <2>2, <2>3, <2>4
  <2> QED BY <2>5 DEF ProjectedInv
<1>3. CASE StoreProjection(s)
  <2>1. proj' = [proj EXCEPT ![op.id] = op.entry] /\ pushed' = pushed /\ job[s].pc = "projection"
    BY <1>1, <1>3 DEF StoreProjection, history
  <2>2. op.entry.at # 0 /\ op.id \in Ids
    BY <1>1, <2>1 DEF LogBase, EditInv, JobEdited, OpPCs, Edited, Op
  <2>3. ASSUME NEW o \in pushed PROVE proj'[o.id].at # 0
    <3>1. o.id \in Ids
      BY <1>0 DEF Op
    <3>2. CASE o.id = op.id
      BY <1>0, <2>1, <2>2, <3>1, <3>2
    <3>3. CASE o.id # op.id
      <4>1. proj'[o.id] = proj[o.id]
        BY <1>0, <2>1, <3>1, <3>3
      <4>2. \A t \in Sessions : Publishing(job[t]) => job[t].op.id # o.id
        BY <1>0, <1>1, <3>3 DEF TurnInv, Running, Publishing
      <4> QED BY <4>1, <4>2 DEF ProjectedInv
    <3> QED BY <3>2, <3>3
  <2> QED BY <2>1, <2>3 DEF ProjectedInv
<1>4. CASE ~PushOperation(s) /\ ~StoreProjection(s)
  <2>1. UNCHANGED <<proj, pushed>>
    BY <1>4 DEF SyncStep, CheckFingerprint, PublishDone, AllocateSequence, RecordFingerprint, LoadMatrix, StoreMatrix,
                LoadBrain, StoreBrain, TrimOperations, ReadCursor, ReadSequence, ReadLength, ReadRange,
                RecoverProjections, RecoverState, NextOperation, BatchDone, StoreCursor, MergeEntry, MergeDone, PullBack,
                redisVars, history
  <2>2. CASE ~Publishing(job[s])
    BY <1>0, <2>1, <2>2, AllProjected DEF ProjectedInv
  <2>3. CASE Publishing(job[s])
    <3>1. job[s].pc # "projection"
      BY <1>4 DEF SyncStep, CheckFingerprint, PublishDone, AllocateSequence, RecordFingerprint, LoadMatrix, StoreMatrix,
                  LoadBrain, StoreBrain, TrimOperations, ReadCursor, ReadSequence, ReadLength, ReadRange,
                  RecoverProjections, RecoverState, NextOperation, BatchDone, StoreCursor, MergeEntry, MergeDone, PullBack
    <3>2. Publishing(job'[s]) /\ job'[s].op = op
      BY <1>0, <1>1, <2>3, <3>1, PublishingOn
    <3>3. ASSUME NEW o \in pushed PROVE proj[o.id].at # 0 \/ op.id = o.id
      BY <1>0, <1>1 DEF ProjectedInv, TurnInv, Running, Publishing
    <3>4. ASSUME NEW o \in pushed' PROVE proj'[o.id].at # 0 \/ (Publishing(job'[s]) /\ job'[s].op.id = o.id)
      BY <2>1, <3>2, <3>3
    <3> QED BY <3>4 DEF ProjectedInv
  <2> QED BY <2>2, <2>3
<1> QED BY <1>2, <1>3, <1>4

\* An operation is pushed above every cursor.
LEMMA PushAbove ==
  ASSUME LogBase, ListInv, NEW s \in Sessions, PushOperation(s)
  PROVE  /\ pushed' = pushed \cup {job[s].op} /\ UNCHANGED <<cursor, seen>>
         /\ \A a \in Actors : cursor[a] < job[s].op.seq
<1>1. TypeOK /\ seq \in Nat /\ Running(s) /\ Pushing(s)
  BY DEF LogBase, EditInv, TypeOK, PushOperation, Running, Pushing
<1>2. Top = seq - 1 /\ seq # 0 /\ job[s].op.seq = seq
  BY <1>1, TopRunning DEF LogBase, ListInv
<1>3. \A a \in Actors : cursor[a] <= Top /\ cursor[a] \in Nat
  BY <1>1 DEF ListInv, TypeOK
<1> QED BY <1>1, <1>2, <1>3 DEF PushOperation

\* The numbers a pull fetches or recovers are numbers of pushed operations.
LEMMA SeenGrows ==
  ASSUME LogBase, ListInv, NEW s \in Sessions, ReadRange(s) \/ RecoverState(s)
  PROVE  /\ UNCHANGED <<pushed, cursor>>
         /\ \E new : /\ seen' = [seen EXCEPT ![ActorOf(s)] = @ \cup new] \/ seen' = seen
                     /\ \A n \in new : \E o \in pushed : o.seq = n
<1>0. TypeOK /\ ops \in Seq(Op) /\ Running(s) /\ ~Pushing(s) /\ job[s] \in Job
  BY DEF LogBase, EditInv, TypeOK, ReadRange, RecoverState, Running, Pushing
<1>1. UNCHANGED <<pushed, cursor>>
  BY DEF ReadRange, RecoverState, redisVars
<1>2. CASE RecoverState(s)
  <2>1. PICK new : new = {o.seq : o \in {p \in pushed : /\ p.seq <= job[s].current
                                                        /\ p.entry.at <= job[s].got[p.id].at}}
    OBVIOUS
  <2>2. seen' = [seen EXCEPT ![ActorOf(s)] = @ \cup new]
    BY <1>2, <2>1 DEF RecoverState
  <2>3. \A n \in new : \E o \in pushed : o.seq = n
    BY <2>1
  <2> QED BY <1>1, <2>2, <2>3
<1>3. CASE ReadRange(s)
  <2>1. PICK raw : raw = IF job[s].len > 0 THEN lrange(ops, range_start(job[s].cur, job[s].current, job[s].len)) ELSE <<>>
    OBVIOUS
  <2>2. PICK new : new = {raw[k].seq : k \in DOMAIN raw}
    OBVIOUS
  <2>3. seen' = seen \/ seen' = [seen EXCEPT ![ActorOf(s)] = @ \cup new]
    BY <1>3, <2>1, <2>2 DEF ReadRange
  <2>4. \A k \in DOMAIN raw : \E l \in DOMAIN ops : raw[k] = ops[l]
    <3>1. range_start(job[s].cur, job[s].current, job[s].len) \in Nat
      BY <1>0, RangeStartType DEF Job
    <3>2. DOMAIN <<>> = {}
      OBVIOUS
    <3> QED BY <1>0, <2>1, <3>1, <3>2, LrangeType
  <2>5. \A n \in new : \E o \in pushed : o.seq = n
    <3>1. \A l \in DOMAIN ops : ops[l] \in pushed
      BY DEF ListInv
    <3> QED BY <2>2, <2>4, <3>1
  <2> QED BY <1>1, <2>3, <2>5
<1> QED BY <1>2, <1>3

LEMMA SeenWork ==
  ASSUME LogBase, ListInv, SeenInv, NoSkippedOperation, NEW s \in Sessions, SyncStep(s),
         Phased(job[s]), Reads(job[s], ActorOf(s))
  PROVE  SeenInv' /\ NoSkippedOperation'
<1>0. /\ TypeOK /\ ActorOf(s) \in Actors /\ seen \in [Actors -> SUBSET Nat] /\ cursor \in [Actors -> Nat]
      /\ pushed \in SUBSET Op
  BY ActorOfSession DEF LogBase, EditInv, TypeOK
<1>1. CASE PushOperation(s)
  <2>1. PICK op \in Op : op = job[s].op
    BY <1>0 DEF TypeOK, Job
  <2>2. /\ pushed' = pushed \cup {op} /\ UNCHANGED <<cursor, seen>>
        /\ \A a \in Actors : cursor[a] < op.seq
    BY <1>1, <2>1, PushAbove
  <2>3. SeenInv'
    BY <2>2 DEF SeenInv
  <2>4. ASSUME NEW a \in Actors, NEW o \in pushed', o.seq <= cursor'[a] PROVE o.seq \in seen'[a]
    <3>1. CASE o \in pushed
      BY <2>2, <2>4, <3>1 DEF NoSkippedOperation
    <3>2. o # op
      BY <1>0, <2>1, <2>2, <2>4 DEF Op
    <3> QED BY <2>2, <2>4, <3>1, <3>2
  <2> QED BY <2>3, <2>4 DEF NoSkippedOperation
<1>2. CASE StoreCursor(s)
  <2>1. UNCHANGED <<pushed, seen>> /\ job[s].pc = "set_cursor" /\ cursor' = [cursor EXCEPT ![ActorOf(s)] = job[s].next]
    BY <1>2 DEF StoreCursor, history
  <2>2. AllSeen(ActorOf(s))
    BY <2>1 DEF Phased, Reads, Fetched
  <2>3. ASSUME NEW a \in Actors, NEW o \in pushed, o.seq <= cursor'[a] PROVE o.seq \in seen[a]
    BY <1>0, <2>1, <2>2, <2>3 DEF AllSeen, NoSkippedOperation
  <2> QED BY <2>1, <2>3 DEF SeenInv, NoSkippedOperation
<1>3. CASE ReadRange(s) \/ RecoverState(s)
  <2>1. UNCHANGED <<pushed, cursor>>
    BY <1>3, SeenGrows
  <2>2. PICK new : /\ seen' = [seen EXCEPT ![ActorOf(s)] = @ \cup new] \/ seen' = seen
                   /\ \A n \in new : \E o \in pushed : o.seq = n
    BY <1>3, SeenGrows
  <2>3. \A a \in Actors : seen[a] \subseteq seen'[a] /\ seen'[a] \subseteq seen[a] \cup new
    BY <1>0, <2>2
  <2> QED BY <2>1, <2>2, <2>3 DEF SeenInv, NoSkippedOperation
<1>4. CASE ~PushOperation(s) /\ ~StoreCursor(s) /\ ~ReadRange(s) /\ ~RecoverState(s)
  <2>1. UNCHANGED <<pushed, cursor, seen>>
    BY <1>4 DEF SyncStep, CheckFingerprint, PublishDone, AllocateSequence, RecordFingerprint, LoadMatrix, StoreMatrix,
                LoadBrain, StoreBrain, StoreProjection, TrimOperations, ReadCursor, ReadSequence, ReadLength,
                RecoverProjections, NextOperation, BatchDone, MergeEntry, MergeDone, PullBack,
                redisVars, history
  <2> QED BY <2>1 DEF SeenInv, NoSkippedOperation
<1> QED BY <1>1, <1>2, <1>3, <1>4

-----------------------------------------------------------------------------
(* As long as no more operations are published than LTRIM keeps, the list  *)
(* holds them all, and no pull finds a gap.                                *)

Planned(j) ==
  j.pc = "fingerprint" \/ (~j.pull /\ j.pc \in OpPCs) =>
    seq + Cardinality(j.todo) + (IF j.pc = "incr" THEN 1 ELSE 0) <= MaxSeq

Untrimmed ==
  /\ seq <= MaxSeq /\ Len(ops) = Top
  /\ \A s \in Sessions : Planned(job[s]) /\ job[s].pc \notin {"recover", "recover_state"}

LEMMA TodoFinite ==
  ASSUME TypeOK
  PROVE  \A s \in Sessions : IsFiniteSet(job[s].todo) /\ Cardinality(job[s].todo) \in Nat
<1>1. \A s \in Sessions : job[s].todo \in SUBSET Ids
  BY DEF TypeOK, Job
<1> QED BY <1>1, ConstantsAssumption, FS_Subset, FS_CardinalityType

\* The entry checked leaves the entries still to check.
LEMMA PlanCheck ==
  ASSUME TypeOK, MaxSeq \in Nat, NEW s \in Sessions, CheckFingerprint(s), Planned(job[s]) PROVE Planned(job[s])'
<1>1. PICK id \in job[s].todo, pc \in {"fingerprint", "incr"} :
        Become(s, [job[s] EXCEPT !.todo = @ \ {id}, !.pc = pc,
                  !.op = [seq |-> 0, actor |-> ActorOf(s), id |-> id, entry |-> job[s].snap[id]]])
  BY CheckFingerprintJob
<1>2. job[s] \in Job /\ job \in [Sessions -> Job] /\ job[s].pc = "fingerprint" /\ seq \in Nat /\ seq' = seq
  BY DEF TypeOK, CheckFingerprint, redisVars
<1>3. job'[s].pc = pc /\ job'[s].todo = job[s].todo \ {id}
  BY <1>1, <1>2 DEF Become, Job
<1>4. Cardinality(job[s].todo \ {id}) = Cardinality(job[s].todo) - 1 /\ Cardinality(job[s].todo) \in Nat
  BY <1>1, TodoFinite, FS_RemoveElement
<1> QED BY <1>2, <1>3, <1>4 DEF Planned

LEMMA TodoKept ==
  ASSUME TypeOK, NEW s \in Sessions, SyncStep(s), job[s].pc \in OpPCs
  PROVE  job'[s].todo = job[s].todo
<1>0. job[s] \in Job /\ job \in [Sessions -> Job]
  BY DEF TypeOK
<1>1. CASE AllocateSequence(s)
  <2>1. PICK o : Become(s, [job[s] EXCEPT !.op = o, !.pc = "rpush"])
    BY <1>0, <1>1 DEF AllocateSequence, Job
  <2> QED BY <1>0, <2>1 DEF Become, Job
<1>2. CASE PushOperation(s) \/ RecordFingerprint(s)
  BY <1>0, <1>2 DEF PushOperation, RecordFingerprint, Become, Job
<1>3. CASE LoadMatrix(s)
  BY <1>0, <1>3 DEF LoadMatrix, Become, Job
<1>4. CASE StoreMatrix(s)
  <2>1. \/ Become(s, [job[s] EXCEPT !.pc = "next_op", !.mx = NoMatrix, !.op = NoOp])
        \/ \E e : Become(s, [job[s] EXCEPT !.pc = "get_brain", !.mx = NoMatrix, !.op.entry = e])
        \/ Become(s, [job[s] EXCEPT !.pc = "get_brain", !.mx = NoMatrix])
    BY <1>4 DEF StoreMatrix
  <2>2. CASE Become(s, [job[s] EXCEPT !.pc = "next_op", !.mx = NoMatrix, !.op = NoOp])
    BY <1>0, <2>2 DEF Become, Job
  <2>3. ASSUME NEW e, Become(s, [job[s] EXCEPT !.pc = "get_brain", !.mx = NoMatrix, !.op.entry = e])
        PROVE  job'[s].todo = job[s].todo
    BY <1>0, <2>3 DEF Become, Job
  <2>4. CASE Become(s, [job[s] EXCEPT !.pc = "get_brain", !.mx = NoMatrix])
    BY <1>0, <2>4 DEF Become, Job
  <2> QED BY <2>1, <2>2, <2>3, <2>4
<1>5. CASE LoadBrain(s)
  BY <1>0, <1>5 DEF LoadBrain, Become, Job
<1>6. CASE StoreBrain(s)
  BY <1>0, <1>6 DEF StoreBrain, Become, Job
<1>7. CASE StoreProjection(s)
  BY <1>0, <1>7 DEF StoreProjection, Become, Job
<1>8. \/ AllocateSequence(s) \/ PushOperation(s) \/ RecordFingerprint(s) \/ LoadMatrix(s) \/ StoreMatrix(s)
      \/ LoadBrain(s) \/ StoreBrain(s) \/ StoreProjection(s)
  BY DEF OpPCs, SyncStep, CheckFingerprint, PublishDone,
         TrimOperations, ReadCursor, ReadSequence, ReadLength, ReadRange, RecoverProjections,
         RecoverState, NextOperation, BatchDone, StoreCursor, MergeEntry, MergeDone, PullBack
<1> QED BY <1>1, <1>2, <1>3, <1>4, <1>5, <1>6, <1>7, <1>8

LEMMA PlanWork ==
  ASSUME TypeOK, MaxSeq \in Nat, NEW s \in Sessions, SyncStep(s), Phased(job[s]), Planned(job[s])
  PROVE  Planned(job[s])'
<1>0. /\ seq \in Nat /\ Follows(job[s], job'[s]) /\ IsFiniteSet(job[s].todo) /\ Cardinality(job[s].todo) \in Nat
  BY FlowStep, TodoFinite DEF TypeOK
<1>1. CASE CheckFingerprint(s)
  BY <1>1, PlanCheck
<1>2. CASE AllocateSequence(s)
  <2>1. /\ job[s].pc = "incr" /\ job'[s].pc = "rpush" /\ seq' = seq + 1
    BY <1>0, <1>2 DEF AllocateSequence, incr, Follows, Flows
  <2>2. job'[s].todo = job[s].todo
    BY <2>1, TodoKept DEF OpPCs
  <2>3. seq + Cardinality(job[s].todo) + 1 <= MaxSeq
    BY <2>1 DEF Phased, Planned, OpPCs
  <2> QED BY <1>0, <2>1, <2>2, <2>3 DEF Planned
<1>3. CASE ~CheckFingerprint(s) /\ ~AllocateSequence(s)
  <2>1. seq' = seq /\ (job[s].pc # "fingerprint" \/ job'[s].pc \in {"ltrim", "get_cursor"}) /\ job[s].pc # "incr"
    <3>1. CASE PublishDone(s)
      <4>1. job'[s].pc \in {"ltrim", "get_cursor"}
        BY <3>1 DEF PublishDone, Become, TypeOK, Job
      <4> QED BY <3>1, <4>1 DEF PublishDone, redisVars
    <3>2. CASE ~PublishDone(s)
      BY <1>3, <3>2
         DEF SyncStep, PushOperation, RecordFingerprint, LoadMatrix, StoreMatrix,
             LoadBrain, StoreBrain, StoreProjection, TrimOperations, ReadCursor, ReadSequence, ReadLength, ReadRange,
             RecoverProjections, RecoverState, NextOperation, BatchDone, StoreCursor, MergeEntry, MergeDone, PullBack,
             redisVars
    <3> QED BY <3>1, <3>2
  <2>2. CASE job[s].pc \in OpPCs /\ (job[s].pc = "projection" => ~job[s].pull \/ job'[s].pc = "next_op")
    <3>1. job'[s].todo = job[s].todo
      BY <2>2, TodoKept
    <3>2. job'[s].pc # "incr"
      BY <1>0, <2>1, <2>2 DEF Follows, Flows, OpPCs
    <3>3. job'[s].pc = "fingerprint" => ~job[s].pull
      BY <1>0, <2>1, <2>2 DEF Follows, Flows, OpPCs
    <3>4. ~job'[s].pull /\ job'[s].pc \in OpPCs => ~job[s].pull
      BY <1>0, <2>2 DEF Follows, Carries, OpPCs
    <3> QED BY <1>0, <2>1, <2>2, <3>1, <3>2, <3>3, <3>4 DEF Planned
  <2>3. CASE job[s].pc \notin OpPCs
    <3>1. job'[s].pc # "fingerprint"
      BY <1>0, <2>1, <2>3 DEF Follows, Flows, OpPCs
    <3>2. job'[s].pc \in OpPCs => job[s].pc = "next_op"
      BY <1>0, <2>1, <2>3 DEF Follows, Flows, OpPCs
    <3>3. job'[s].pc \in OpPCs => job'[s].pull
      BY <1>0, <3>2 DEF Follows, Carries, Phased, OpPCs
    <3> QED BY <3>1, <3>3 DEF Planned
  <2> QED BY <1>0, <2>2, <2>3, PullFlag DEF Follows, Flows
<1> QED BY <1>1, <1>2, <1>3

LEMMA UntrimmedStep ==
  ASSUME Turns = TRUE, MaxFaults = 0, OpsCap >= MaxSeq, LogBase, LogBase', ListInv, ReadInv, Untrimmed, [Next]_vars
  PROVE  Untrimmed'
<1>0. /\ TypeOK /\ TypeOK' /\ TurnInv /\ MaxSeq \in Nat /\ OpsCap \in Nat /\ seq \in Nat /\ Len(ops) \in Nat
  BY ListNumbers, ConstantsAssumption DEF LogBase, EditInv, TypeOK
<1>1. ASSUME NEW s \in Sessions, SyncStep(s) PROVE Untrimmed'
  <2>0. /\ Running(s) /\ Become(s, job'[s]) /\ Phased(job[s]) /\ Reads(job[s], ActorOf(s)) /\ Planned(job[s])
        /\ job[s] \in Job /\ job \in [Sessions -> Job] /\ Follows(job[s], job'[s])
        /\ job[s].pc \notin {"recover", "recover_state"}
    BY <1>0, <1>1, StepOfOne, FlowStep DEF ReadInv, Untrimmed, Running, TypeOK
  <2>1. \A t \in Sessions \ {s} : job'[t].pc = "idle" /\ job[t].pc = "idle"
    BY <1>0, <2>0, OthersIdle
  <2>2. Planned(job[s])'
    BY <1>0, <1>1, <2>0, PlanWork
  <2>3. \A t \in Sessions \ {s} : Planned(job[t])'
    BY <2>1 DEF Planned, OpPCs
  <2>4. job'[s].pc \notin {"recover", "recover_state"}
    <3>1. CASE ReadRange(s)
      <4>1. /\ job[s].pc = "lrange" /\ job[s].current = seq /\ job[s].len = Len(ops) /\ ~Pushing(s)
        BY <2>0, <3>1 DEF ReadRange, Reads, Pushing
      <4>2. Len(ops) = seq
        BY <1>0, <2>0, <4>1, TopRunning DEF Untrimmed
      <4>3. job[s].cur \in Nat
        BY <2>0 DEF Job
      <4>4. ~has_gap(job[s].cur, job[s].current, job[s].len)
        BY <1>0, <4>1, <4>2, <4>3 DEF has_gap, earliest_sequence
      <4>5. PICK raw : Become(s, [job[s] EXCEPT !.batch = raw, !.next = job[s].cur, !.current = 0,
                                               !.len = 0, !.pc = "next_op"])
        BY <3>1, <4>4 DEF ReadRange
      <4> QED BY <2>0, <4>5 DEF Become, Job
    <3>2. CASE ~ReadRange(s)
      <4>1. job[s].pc # "lrange"
        BY <1>1, <3>2
           DEF SyncStep, CheckFingerprint, PublishDone, AllocateSequence, PushOperation, RecordFingerprint, LoadMatrix,
               StoreMatrix, LoadBrain, StoreBrain, StoreProjection, TrimOperations, ReadCursor, ReadSequence, ReadLength,
               RecoverProjections, RecoverState, NextOperation, BatchDone, StoreCursor, MergeEntry, MergeDone, PullBack
      <4> QED BY <2>0, <4>1 DEF Follows, Flows
    <3> QED BY <3>1, <3>2
  <2>5. seq' <= MaxSeq /\ Len(ops') = Top'
    <3>1. CASE AllocateSequence(s)
      <4>1. job[s].pc = "incr" /\ job'[s].pc = "rpush" /\ seq' = seq + 1 /\ ops' = ops
        BY <2>0, <3>1 DEF AllocateSequence, incr, Follows, Flows
      <4>2. seq + 1 <= MaxSeq
        BY <1>0, <2>0, <4>1, TodoFinite DEF Phased, Planned, OpPCs
      <4>3. Top = seq /\ Top' = seq' - 1
        BY <1>0, <2>0, <4>1, TopRunning DEF Pushing, Top
      <4> QED BY <1>0, <4>1, <4>2, <4>3 DEF Untrimmed
    <3>2. CASE PushOperation(s)
      <4>1. job[s].pc = "rpush" /\ job'[s].pc = "hset_fp" /\ seq' = seq /\ ops' = Append(ops, job[s].op)
        BY <2>0, <3>2 DEF PushOperation, Follows, Flows
      <4>2. Top = seq - 1
        BY <1>0, <2>0, <4>1, TopRunning DEF Pushing
      <4>3. Top' = seq
        BY <2>1, <4>1 DEF Pushing, Top
      <4>4. Len(ops') = Len(ops) + 1
        BY <1>0, <2>0, <4>1 DEF TypeOK, Job
      <4> QED BY <1>0, <4>1, <4>2, <4>3, <4>4 DEF Untrimmed
    <3>3. CASE ~AllocateSequence(s) /\ ~PushOperation(s)
      <4>1. seq' = seq /\ job[s].pc \notin {"incr", "rpush"}
        BY <1>1, <3>3
           DEF SyncStep, CheckFingerprint, PublishDone, RecordFingerprint, LoadMatrix,
               StoreMatrix, LoadBrain, StoreBrain, StoreProjection, TrimOperations, ReadCursor, ReadSequence, ReadLength,
               ReadRange, RecoverProjections, RecoverState, NextOperation, BatchDone, StoreCursor, MergeEntry, MergeDone,
               PullBack, redisVars
      <4>2. job'[s].pc # "rpush"
        BY <2>0, <4>1 DEF Follows, Flows
      <4>3. Top = seq /\ Top' = seq
        BY <1>0, <2>0, <2>1, <4>1, <4>2, TopRunning DEF Pushing, Top
      <4>4. Len(ops) <= OpsCap
        BY <1>0, <4>3 DEF Untrimmed
      <4>5. ops' = ops
        <5>1. CASE TrimOperations(s)
          BY <1>0, <4>4, <5>1 DEF TrimOperations
        <5>2. CASE ~TrimOperations(s)
          BY <1>1, <3>3, <5>2
             DEF SyncStep, CheckFingerprint, PublishDone, RecordFingerprint, LoadMatrix,
                 StoreMatrix, LoadBrain, StoreBrain, StoreProjection, ReadCursor, ReadSequence, ReadLength,
                 ReadRange, RecoverProjections, RecoverState, NextOperation, BatchDone, StoreCursor, MergeEntry,
                 MergeDone, PullBack, redisVars
        <5> QED BY <5>1, <5>2
      <4> QED BY <4>1, <4>3, <4>5 DEF Untrimmed
    <3> QED BY <3>1, <3>2, <3>3
  <2> QED BY <2>1, <2>2, <2>3, <2>4, <2>5 DEF Untrimmed
<1>2. ASSUME NEW s \in Sessions, StartSync(s) PROVE Untrimmed'
  <2>1. PICK snap : /\ snap = hash
                    /\ Become(s, [Idle EXCEPT !.pc = "fingerprint", !.snap = snap, !.todo = Present(snap)])
    BY <1>2 DEF StartSync
  <2>2. seq + Cardinality(Ids) <= MaxSeq /\ UNCHANGED <<seq, ops>> /\ Quiet
    BY <1>2 DEF StartSync, redisVars
  <2>3. job'[s].pc = "fingerprint" /\ job'[s].todo = Present(snap)
    <3>1. job'[s] = [Idle EXCEPT !.pc = "fingerprint", !.snap = snap, !.todo = Present(snap)]
      BY <1>0, <2>1, BecomeJob
    <3> QED BY <3>1, IdleType DEF Job
  <2>4. Present(snap) \subseteq Ids /\ Cardinality(Present(snap)) <= Cardinality(Ids)
        /\ Cardinality(Present(snap)) \in Nat /\ Cardinality(Ids) \in Nat
    <3>1. Present(snap) \in SUBSET Ids
      BY <1>0, <2>1, PresentType DEF TypeOK
    <3> QED BY <3>1, ConstantsAssumption, FS_Subset, FS_CardinalityType
  <2>5. Planned(job[s])'
    BY <1>0, <2>2, <2>3, <2>4 DEF Planned
  <2>6. \A t \in Sessions \ {s} : job'[t].pc = "idle"
    BY <1>0, <2>1, <2>2, BecomeJob DEF Quiet
  <2>7. Top' = Top
    BY <2>2, <2>3, <2>6 DEF Top, Pushing, Quiet
  <2> QED BY <2>2, <2>3, <2>5, <2>6, <2>7 DEF Untrimmed, Planned, OpPCs
<1>3. ASSUME UNCHANGED <<seq, ops, job>> PROVE Untrimmed'
  <2>1. Top' = Top
    BY <1>3 DEF Top, Pushing
  <2> QED BY <1>3, <2>1 DEF Untrimmed, Planned
<1>4. ASSUME NEW a \in Actors, (\E i \in Ids : Edit(a, i)) \/ Land(a) \/ ExpireCache(a) PROVE Untrimmed'
  BY <1>3, <1>4 DEF Edit, Land, ExpireCache, redisVars
<1>5. ASSUME UNCHANGED vars PROVE Untrimmed'
  BY <1>3, <1>5 DEF vars, redisVars
<1> QED BY <1>0, <1>1, <1>2, <1>4, <1>5, NoFaults DEF Next

-----------------------------------------------------------------------------
(* The log of a team whose members take turns, without faults.  A recovery *)
(* after a gap stands for the operations trimmed away if an entry is       *)
(* edited once; with more edits the theorems ask that nothing is trimmed.  *)

LogAssumption ==
  /\ Turns = TRUE /\ MaxFaults = 0
  /\ MaxEdits <= 1 \/ OpsCap >= MaxSeq

LogInv ==
  /\ LogBase /\ ListInv /\ ReadInv
  /\ OpsCap >= MaxSeq => Untrimmed

LEMMA ReadWork ==
  ASSUME LogAssumption, LogInv, NEW s \in Sessions, SyncStep(s)
  PROVE  Reads(job[s], ActorOf(s))'
<1>0. /\ TypeOK /\ LogBase /\ ListInv /\ ProjectedInv /\ NoSkippedOperation
      /\ Phased(job[s]) /\ Reads(job[s], ActorOf(s))
  BY DEF LogInv, LogBase, EditInv, ReadInv
<1>1. CASE RecoverState(s)
  <2>1. MaxEdits <= 1
    BY <1>1 DEF LogAssumption, LogInv, Untrimmed, RecoverState
  <2> QED BY <1>0, <1>1, <2>1, ReadsRecover
<1>2. CASE ReadRange(s)
  BY <1>0, <1>2, ReadsRange
<1>3. CASE ~RecoverState(s) /\ ~ReadRange(s)
  BY <1>0, <1>3, ReadsPublish, ReadsApply, ReadsRead, ReadsMerge DEF SyncStep
<1> QED BY <1>1, <1>2, <1>3

\* A sync that starts, and everything that leaves the syncs alone.
LEMMA ReadKeeps ==
  ASSUME ReadInv, UNCHANGED <<seq, ops, cursor, proj, pushed, seen>>,
         \/ UNCHANGED job
         \/ Quiet /\ \A t \in Sessions : job'[t].pc = "idle" \/ (job'[t].pc = "fingerprint" /\ ~job'[t].pull)
  PROVE  ReadInv'
<1>1. (SeenInv /\ NoSkippedOperation)'
  BY DEF ReadInv, SeenInv, NoSkippedOperation
<1>2. CASE UNCHANGED job
  BY <1>1, <1>2 DEF ReadInv, Reads, AllSeen, ProjectedInv
<1>3. CASE Quiet /\ \A t \in Sessions : job'[t].pc = "idle" \/ (job'[t].pc = "fingerprint" /\ ~job'[t].pull)
  <2>1. \A t \in Sessions : Phased(job'[t])
    BY <1>3 DEF Phased
  <2>2. \A t \in Sessions : Reads(job[t], ActorOf(t))'
    BY <1>3 DEF Reads, Fetched
  <2>3. \A o \in pushed : proj[o.id].at # 0
    BY <1>3 DEF ReadInv, ProjectedInv, Quiet, Publishing
  <2>4. ProjectedInv'
    BY <2>3 DEF ProjectedInv
  <2> QED BY <1>1, <2>1, <2>2, <2>4 DEF ReadInv
<1> QED BY <1>2, <1>3

LEMMA ReadStep ==
  ASSUME LogAssumption, LogInv, [Next]_vars PROVE ReadInv'
<1>0. /\ TypeOK /\ TurnInv /\ LogBase /\ ListInv /\ ReadInv /\ Turns = TRUE /\ MaxFaults = 0
  BY DEF LogInv, LogBase, EditInv, LogAssumption
<1>1. ASSUME NEW s \in Sessions, SyncStep(s) PROVE ReadInv'
  <2>1. \A t \in Sessions \ {s} : job'[t].pc = "idle"
    BY <1>0, <1>1, StepOfOne, OthersIdle DEF Running
  <2>2. Phased(job[s]) /\ Reads(job[s], ActorOf(s)) /\ ProjectedInv /\ SeenInv /\ NoSkippedOperation
    BY <1>0 DEF ReadInv
  <2>3. Phased(job'[s])
    BY <1>0, <1>1, <2>2, PhaseWork
  <2>4. Reads(job[s], ActorOf(s))'
    BY <1>1, ReadWork
  <2>5. ProjectedInv'
    BY <1>0, <1>1, <2>2, ProjectedWork
  <2>6. SeenInv' /\ NoSkippedOperation'
    BY <1>0, <1>1, <2>2, SeenWork
  <2>7. \A t \in Sessions \ {s} : Phased(job'[t]) /\ Reads(job[t], ActorOf(t))'
    BY <2>1 DEF Phased, Reads, Fetched
  <2> QED BY <2>3, <2>4, <2>5, <2>6, <2>7 DEF ReadInv
<1>2. ASSUME NEW s \in Sessions, StartSync(s) PROVE ReadInv'
  <2>1. UNCHANGED <<seq, ops, cursor, proj, pushed, seen>> /\ Quiet
    BY <1>0, <1>2 DEF StartSync, redisVars, history
  <2>2. PICK snap, todo : Become(s, [Idle EXCEPT !.pc = "fingerprint", !.snap = snap, !.todo = todo])
    BY <1>2 DEF StartSync
  <2>3. job'[s].pc = "fingerprint" /\ ~job'[s].pull
    <3>1. job'[s] = [Idle EXCEPT !.pc = "fingerprint", !.snap = snap, !.todo = todo]
      BY <1>0, <2>2, BecomeJob
    <3>2. Idle \in Job /\ ~Idle.pull
      BY IdleType DEF Idle
    <3> QED BY <3>1, <3>2 DEF Job
  <2>4. \A t \in Sessions \ {s} : job'[t].pc = "idle"
    BY <1>0, <2>1, <2>2, BecomeJob DEF Quiet
  <2> QED BY <1>0, <2>1, <2>3, <2>4, ReadKeeps
<1>3. ASSUME NEW a \in Actors, (\E i \in Ids : Edit(a, i)) \/ Land(a) \/ ExpireCache(a) PROVE ReadInv'
  <2>1. UNCHANGED <<seq, ops, cursor, proj, pushed, seen, job>>
    BY <1>3 DEF Edit, Land, ExpireCache, redisVars, history
  <2> QED BY <1>0, <2>1, ReadKeeps
<1>4. ASSUME UNCHANGED vars PROVE ReadInv'
  <2>1. UNCHANGED <<seq, ops, cursor, proj, pushed, seen, job>>
    BY <1>4 DEF vars, redisVars, history
  <2> QED BY <1>0, <2>1, ReadKeeps
<1> QED BY <1>0, <1>1, <1>2, <1>3, <1>4, NoFaults DEF Next

LEMMA LogStep ==
  ASSUME LogAssumption, LogInv, [Next]_vars PROVE LogInv'
<1>1. LogBase' /\ LogBase /\ ListInv /\ ReadInv /\ Turns = TRUE /\ MaxFaults = 0
  BY BaseStep DEF LogInv, LogAssumption
<1>2. ListInv'
  BY <1>1, ListStep
<1>3. ReadInv'
  BY ReadStep
<1>4. OpsCap >= MaxSeq => Untrimmed'
  BY <1>1, UntrimmedStep DEF LogInv
<1> QED BY <1>1, <1>2, <1>3, <1>4 DEF LogInv

LEMMA LogInit == Init => LogInv
<1> SUFFICES ASSUME Init PROVE LogInv
  OBVIOUS
<1>1. /\ seq = 0 /\ Len(ops) = 0 /\ DOMAIN ops = {} /\ pushed = {} /\ \A a \in Actors : cursor[a] = 0 /\ seen[a] = {}
  BY DEF Init
<1>2. \A s \in Sessions : job[s].pc = "idle"
  BY DEF Init, Idle
<1>3. Top = 0
  BY <1>1, <1>2 DEF Top, Pushing
<1>4. ListInv
  BY <1>1, <1>2, <1>3 DEF ListInv, Pushing
<1>5. ReadInv
  BY <1>1, <1>2 DEF ReadInv, Phased, Reads, Fetched, ProjectedInv, SeenInv, NoSkippedOperation
<1>6. Untrimmed
  BY <1>1, <1>2, <1>3, ConstantsAssumption DEF Untrimmed, Planned, OpPCs
<1> QED BY <1>4, <1>5, <1>6, BaseInit DEF LogInv

(* As long as members take turns and no command fails, a pull skips no     *)
(* operation: whatever a stored cursor has passed was fetched, or          *)
(* recovered after LTRIM dropped it.                                       *)
THEOREM NoSkippedOperationInTurns ==
  ASSUME LogAssumption PROVE Spec => []NoSkippedOperation
<1>1. LogInv /\ [Next]_vars => LogInv'
  BY LogStep
<1>2. LogInv => NoSkippedOperation
  BY DEF LogInv, ReadInv
<1> QED BY <1>1, <1>2, LogInit, PTL DEF Spec

-----------------------------------------------------------------------------
(* Refinement: each step of a sync is a step of the log, or none.          *)

LEMMA LogWork ==
  ASSUME LogAssumption, LogInv, NEW s \in Sessions, SyncStep(s)
  PROVE  Log!Next \/ UNCHANGED <<{o.seq : o \in pushed}, cursor, seen>>
<1> DEFINE a == ActorOf(s)
<1>0. /\ TypeOK /\ LogBase /\ ListInv /\ ReadInv /\ a \in Actors /\ seen \in [Actors -> SUBSET Nat]
      /\ cursor \in [Actors -> Nat] /\ pushed \in SUBSET Op /\ seq \in Nat
  BY ActorOfSession DEF LogInv, LogBase, EditInv, TypeOK
<1> HIDE DEF a
<1>1. CASE PushOperation(s)
  <2>1. PICK op \in Op : op = job[s].op
    BY <1>0 DEF TypeOK, Job
  <2>2. /\ pushed' = pushed \cup {op} /\ UNCHANGED <<cursor, seen>>
        /\ \A b \in Actors : cursor[b] < op.seq
    BY <1>0, <1>1, <2>1, PushAbove
  <2>3. {o.seq : o \in pushed'} = {o.seq : o \in pushed} \cup {op.seq} /\ op.seq \in {o.seq : o \in pushed'}
        /\ op.seq \in Nat
    BY <2>1, <2>2 DEF Op
  <2> QED BY <2>2, <2>3 DEF Log!Next, Log!Publish
<1>2. CASE StoreCursor(s)
  <2>1. UNCHANGED <<pushed, seen>> /\ job[s].pc = "set_cursor" /\ cursor' = [cursor EXCEPT ![a] = job[s].next]
    BY <1>2 DEF StoreCursor, history, a
  <2>2. AllSeen(a) /\ cursor[a] <= job[s].next
    BY <1>0, <2>1 DEF ReadInv, Phased, Reads, Fetched, a
  <2>3. cursor'[a] = job[s].next /\ cursor' = [cursor EXCEPT ![a] = cursor'[a]] /\ job[s].next \in Nat
    BY <1>0, <2>1 DEF TypeOK, Job
  <2>4. cursor'[a] \in Nat /\ cursor'[a] >= cursor[a]
    BY <1>0, <2>2, <2>3
  <2>5. \A n \in {o.seq : o \in pushed} : n <= cursor'[a] => n \in seen[a]
    BY <2>2 DEF AllSeen
  <2>6. Log!Acknowledge(a)
    BY <2>1, <2>3, <2>4, <2>5 DEF Log!Acknowledge
  <2> QED BY <1>0, <2>6 DEF Log!Next
<1>3. CASE ReadRange(s) \/ RecoverState(s)
  <2>1. UNCHANGED <<pushed, cursor>>
    BY <1>0, <1>3, SeenGrows
  <2>2. PICK new : /\ seen' = [seen EXCEPT ![a] = @ \cup new] \/ seen' = seen
                   /\ \A n \in new : \E o \in pushed : o.seq = n
    BY <1>0, <1>3, SeenGrows DEF a
  <2>3. seen[a] \subseteq seen'[a] /\ seen'[a] \subseteq seen[a] \cup new
    BY <1>0, <2>2
  <2>4. \A n \in seen[a] : \E o \in pushed : o.seq = n
    BY <1>0 DEF ReadInv, SeenInv
  <2>5. seen'[a] \subseteq {o.seq : o \in pushed}
    BY <2>2, <2>3, <2>4
  <2>6. seen' = [seen EXCEPT ![a] = seen'[a]]
    BY <1>0, <2>2
  <2>7. Log!Learn(a)
    BY <2>1, <2>3, <2>5, <2>6 DEF Log!Learn
  <2> QED BY <1>0, <2>7 DEF Log!Next
<1>4. CASE ~PushOperation(s) /\ ~StoreCursor(s) /\ ~ReadRange(s) /\ ~RecoverState(s)
  <2>1. UNCHANGED <<pushed, cursor, seen>>
    BY <1>4 DEF SyncStep, CheckFingerprint, PublishDone, AllocateSequence, RecordFingerprint, LoadMatrix, StoreMatrix,
                LoadBrain, StoreBrain, StoreProjection, TrimOperations, ReadCursor, ReadSequence, ReadLength,
                RecoverProjections, NextOperation, BatchDone, MergeEntry, MergeDone, PullBack,
                redisVars, history
  <2> QED BY <2>1
<1> QED BY <1>1, <1>2, <1>3, <1>4

(* Under the same assumptions publish_entries and pull_operations          *)
(* implement the log: nothing is published at or below an acknowledged     *)
(* number, and nothing is acknowledged unseen.                             *)
THEOREM ImplementsLogInTurns ==
  ASSUME LogAssumption PROVE Spec => ImplementsLog
<1>1. LogInv /\ [Next]_vars => LogInv'
  BY LogStep
<1>2. Init => Log!Init
  BY DEF Init, Log!Init
<1>3. ASSUME LogInv, [Next]_vars
      PROVE  Log!Next \/ UNCHANGED <<{o.seq : o \in pushed}, cursor, seen>>
  <2>1. MaxFaults = 0 /\ TypeOK
    BY <1>3 DEF LogAssumption, LogInv, LogBase, EditInv
  <2>2. ASSUME UNCHANGED <<pushed, cursor, seen>> PROVE UNCHANGED <<{o.seq : o \in pushed}, cursor, seen>>
    BY <2>2
  <2>3. ASSUME NEW s \in Sessions, StartSync(s) PROVE UNCHANGED <<pushed, cursor, seen>>
    BY <2>3 DEF StartSync, redisVars, history
  <2>4. ASSUME NEW a \in Actors, (\E i \in Ids : Edit(a, i)) \/ Land(a) \/ ExpireCache(a)
        PROVE  UNCHANGED <<pushed, cursor, seen>>
    BY <2>4 DEF Edit, Land, ExpireCache, redisVars, history
  <2>5. ASSUME UNCHANGED vars PROVE UNCHANGED <<pushed, cursor, seen>>
    BY <2>5 DEF vars, redisVars, history
  <2> QED BY <1>3, <2>1, <2>2, <2>3, <2>4, <2>5, LogWork, NoFaults DEF Next
<1> QED BY <1>1, <1>2, <1>3, LogInit, PTL DEF Spec, ImplementsLog, Log!Spec

(* What TeamLog promises the readers of a list: an acknowledged number      *)
(* hides no operation, whichever way pull_operations came to know it.      *)
THEOREM NothingMissingInLog == Log!Spec => []Log!NothingMissing
<1> DEFINE numbers == {o.seq : o \in pushed}
           I == /\ numbers \subseteq Nat /\ cursor \in [Actors -> Nat]
                /\ seen = [a \in Actors |-> seen[a]]
                /\ \A a \in Actors : \A n \in numbers : n <= cursor[a] => n \in seen[a]
<1>1. Log!Init => I
  BY DEF Log!Init
<1>2. I /\ [Log!Next]_<<numbers, cursor, seen>> => I'
  <2> SUFFICES ASSUME I, [Log!Next]_<<numbers, cursor, seen>> PROVE I'
    OBVIOUS
  <2>1. CASE Log!Publish
    <3>1. PICK n \in Nat : numbers' = numbers \cup {n} /\ \A a \in Actors : cursor[a] < n
      BY <2>1 DEF Log!Publish
    <3> HIDE DEF numbers
    <3> QED BY <2>1, <3>1 DEF Log!Publish
  <2>2. ASSUME NEW a \in Actors, Log!Learn(a) PROVE I'
    <3>1. UNCHANGED <<numbers, cursor>> /\ seen[a] \subseteq seen'[a] /\ seen' = [seen EXCEPT ![a] = seen'[a]]
      BY <2>2 DEF Log!Learn
    <3> HIDE DEF numbers
    <3> QED BY <3>1
  <2>3. ASSUME NEW a \in Actors, Log!Acknowledge(a) PROVE I'
    <3>1. /\ UNCHANGED <<numbers, seen>> /\ cursor' = [cursor EXCEPT ![a] = cursor'[a]] /\ cursor'[a] \in Nat
          /\ \A n \in numbers : n <= cursor'[a] => n \in seen[a]
      BY <2>3 DEF Log!Acknowledge
    <3> HIDE DEF numbers
    <3> QED BY <3>1
  <2>4. CASE UNCHANGED <<numbers, cursor, seen>>
    <3> HIDE DEF numbers
    <3> QED BY <2>4
  <2> QED BY <2>1, <2>2, <2>3, <2>4 DEF Log!Next
<1>3. I => Log!NothingMissing
  BY DEF Log!NothingMissing
<1> QED BY <1>1, <1>2, <1>3, PTL DEF Log!Spec
=============================================================================
