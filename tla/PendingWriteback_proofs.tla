------------------------ MODULE PendingWriteback_proofs ------------------------
(***************************************************************************)
(* Proofs about PendingWriteback, for any set of entries, any number of    *)
(* batches, crashes and faults: for every agent the types and, until the   *)
(* daemon is killed, two tries of a batch at most and honest answers; for  *)
(* an agent that waits for an empty file, that no batch is lost and that a *)
(* batch is applied as a whole before it is cleared.                       *)
(***************************************************************************)
EXTENDS PendingWriteback, FiniteSetTheorems, TLAPS

PCs == {"sleep", "read", "refuse", "apply", "clear", "record"}

\* TypeOK without the count, and the place a batch must have a number.
ShapeOK ==
  /\ pending \in Batch /\ modified \in Nat
  /\ ack \in [n : Batches \cup {0}, ok : BOOLEAN]
  /\ store \in [Ids -> Batches \cup {0}]
  /\ writing \in Batches \cup {0}
  /\ poller \in [pc : PCs, batch : Batch, mtime : Nat, failed : BOOLEAN]
  /\ last = {} \/ \E t \in Nat : last = {t}
  /\ tried \in [Batches -> Nat] /\ refused \in SUBSET Batches
  /\ crashes \in Nat /\ faults \in Nat
  /\ poller.pc \in {"apply", "clear"} => poller.batch.n \in Batches

LEMMA ShapeType == ShapeOK => TypeOK
<1> SUFFICES ASSUME ShapeOK PROVE TypeOK
  OBVIOUS
<1>1. Cardinality(last) <= 1 /\ last \subseteq Nat
  <2>1. CASE last = {}
    BY <2>1, FS_EmptySet
  <2>2. CASE \E t \in Nat : last = {t}
    <3>1. PICK t \in Nat : last = {t}
      BY <2>2
    <3>2. Cardinality({t}) = 1
      BY FS_Singleton
    <3> QED BY <3>1, <3>2
  <2> QED BY <2>1, <2>2 DEF ShapeOK
<1> QED BY <1>1 DEF ShapeOK, TypeOK, PCs

LEMMA NoBatchType == NoBatch \in Batch /\ ~NoBatch.valid /\ NoBatch.n = 0
BY DEF NoBatch, Batch

LEMMA SleepingType ==
  /\ Sleeping \in [pc : PCs, batch : Batch, mtime : Nat, failed : BOOLEAN]
  /\ Sleeping.pc = "sleep" /\ Sleeping.failed = FALSE
BY NoBatchType DEF Sleeping, PCs

\* A batch without some of its operations is still a batch.
LEMMA LessBatch ==
  ASSUME NEW b \in Batch, NEW i \in Ids
  PROVE  /\ [b EXCEPT !.upserts = @ \ {i}] \in Batch
         /\ [b EXCEPT !.deletes = @ \ {i}] \in Batch
BY DEF Batch

Poller == [pc : PCs, batch : Batch, mtime : Nat, failed : BOOLEAN]

\* An operation of the poller changes what is left of its batch, and whether
\* one failed.
LEMMA LessPoller ==
  ASSUME NEW p \in Poller, NEW i \in Ids, NEW q,
         \/ q = [p EXCEPT !.batch.upserts = @ \ {i}]
         \/ q = [p EXCEPT !.batch.deletes = @ \ {i}]
         \/ q = [p EXCEPT !.batch.upserts = @ \ {i}, !.failed = TRUE]
         \/ q = [p EXCEPT !.batch.deletes = @ \ {i}, !.failed = TRUE]
  PROVE  /\ q \in Poller /\ q.pc = p.pc /\ q.batch.n = p.batch.n
         /\ q.batch.valid = p.batch.valid
<1> DEFINE up == [p EXCEPT !.batch.upserts = @ \ {i}]
           down == [p EXCEPT !.batch.deletes = @ \ {i}]
           upf == [p EXCEPT !.batch.upserts = @ \ {i}, !.failed = TRUE]
           downf == [p EXCEPT !.batch.deletes = @ \ {i}, !.failed = TRUE]
<1>0. p.batch \in Batch
  BY DEF Poller
<1> DEFINE b1 == [p.batch EXCEPT !.upserts = @ \ {i}]
           b2 == [p.batch EXCEPT !.deletes = @ \ {i}]
<1>1. /\ b1 \in Batch /\ b1.n = p.batch.n /\ b1.valid = p.batch.valid
      /\ b2 \in Batch /\ b2.n = p.batch.n /\ b2.valid = p.batch.valid
  BY <1>0, LessBatch DEF Batch
<1>2. /\ up = [p EXCEPT !.batch = b1] /\ down = [p EXCEPT !.batch = b2]
      /\ upf = [p EXCEPT !.batch = b1, !.failed = TRUE]
      /\ downf = [p EXCEPT !.batch = b2, !.failed = TRUE]
  OBVIOUS
<1> HIDE DEF b1, b2, up, down, upf, downf
<1>3. up \in Poller /\ up.pc = p.pc /\ up.batch = b1
  BY <1>1, <1>2 DEF Poller
<1>4. down \in Poller /\ down.pc = p.pc /\ down.batch = b2
  BY <1>1, <1>2 DEF Poller
<1>5. upf \in Poller /\ upf.pc = p.pc /\ upf.batch = b1
  BY <1>1, <1>2 DEF Poller
<1>6. downf \in Poller /\ downf.pc = p.pc /\ downf.batch = b2
  BY <1>1, <1>2 DEF Poller
<1>7. q \in {up, down, upf, downf}
  BY DEF up, down, upf, downf
<1> QED BY <1>1, <1>3, <1>4, <1>5, <1>6, <1>7

LEMMA ShapeInit == Init => ShapeOK
BY ConstantsAssumption, NoBatchType, SleepingType DEF Init, ShapeOK, Batches

\* The number of a batch with operations is that of a batch: a valid one is
\* never empty.
Numbered == pending.n = 0 => ~pending.valid

LEMMA NumberedInit == Init => Numbered
BY NoBatchType DEF Init, Numbered

LEMMA NumberedStep == ShapeOK /\ Numbered /\ [Next]_vars => Numbered'
<1> SUFFICES ASSUME ShapeOK, Numbered, [Next]_vars PROVE Numbered'
  OBVIOUS
<1>1. CASE WriteBatch
  BY <1>1 DEF WriteBatch, ShapeOK, Numbered, Batches
<1>2. CASE Clear
  BY <1>2, NoBatchType DEF Clear, Numbered
<1>3. CASE UNCHANGED pending
  BY <1>3 DEF Numbered
<1> QED BY <1>1, <1>2, <1>3
        DEF Next, Poll, Stat, ReadPending, Refuse, Apply, Acknowledge, RecordTime,
            ApplyFails, Crash, vars

LEMMA ShapeStep == ShapeOK /\ Numbered /\ [Next]_vars => ShapeOK'
<1> SUFFICES ASSUME ShapeOK, Numbered, [Next]_vars PROVE ShapeOK'
  OBVIOUS
<1> USE ConstantsAssumption DEF PCs, history, Fault
<1>1. CASE WriteBatch
  <2>1. writing' \in Batches /\ pending' \in Batch
    BY <1>1 DEF WriteBatch, ShapeOK, Batches
  <2> QED BY <1>1, <2>1 DEF WriteBatch, ShapeOK
<1>2. CASE Stat
  <2>1. /\ poller' \in [pc : PCs, batch : Batch, mtime : Nat, failed : BOOLEAN]
        /\ poller'.pc = "read"
    BY <1>2, SleepingType DEF Stat, ShapeOK
  <2> QED BY <1>2, <2>1 DEF Stat, ShapeOK
<1>3. CASE ReadPending
  <2>1. CASE pending.n = 0
    BY <1>3, <2>1, SleepingType DEF ReadPending, ShapeOK
  <2>2. CASE pending.n # 0
    <3>1. pending.n \in Batches
      BY <2>2 DEF ShapeOK, Batch
    <3>2. /\ poller' \in [pc : PCs, batch : Batch, mtime : Nat, failed : BOOLEAN]
          /\ poller'.batch = pending
      BY <1>3, <2>2 DEF ReadPending, after_parse, ShapeOK
    <3> QED BY <1>3, <3>1, <3>2 DEF ReadPending, ShapeOK
  <2> QED BY <2>1, <2>2
<1>4. CASE Refuse
  BY <1>4 DEF Refuse, ShapeOK, Batch
<1>5. CASE Apply \/ ApplyFails
  <2>1. PICK i \in Ids :
          \/ poller' = [poller EXCEPT !.batch.upserts = @ \ {i}]
          \/ poller' = [poller EXCEPT !.batch.deletes = @ \ {i}]
          \/ poller' = [poller EXCEPT !.batch.upserts = @ \ {i}, !.failed = TRUE]
          \/ poller' = [poller EXCEPT !.batch.deletes = @ \ {i}, !.failed = TRUE]
    BY <1>5 DEF Apply, ApplyFails, ShapeOK, Batch
  <2>2. /\ poller' \in Poller
        /\ poller'.pc = poller.pc /\ poller'.batch.n = poller.batch.n
    <3>1. poller \in Poller
      BY DEF ShapeOK, Poller
    <3> QED BY <2>1, <3>1, LessPoller
  <2>3. poller.pc = "apply" /\ poller.batch.n \in Batches
    BY <1>5 DEF Apply, ApplyFails, ShapeOK
  <2>4. store' \in [Ids -> Batches \cup {0}]
    BY <1>5, <2>3 DEF Apply, ApplyFails, ShapeOK
  <2>5. faults' \in Nat /\ refused' \in SUBSET Batches
    <3>1. CASE Apply
      <4>1. UNCHANGED <<refused, faults>>
        BY <3>1, Zenon DEF Apply
      <4> QED BY <4>1 DEF ShapeOK
    <3>2. CASE ApplyFails
      <4>1. refused' = refused \cup {poller.batch.n} /\ faults' = faults + 1
        BY <3>2, Zenon DEF ApplyFails
      <4> QED BY <4>1, <2>3 DEF ShapeOK
    <3> QED BY <1>5, <3>1, <3>2
  <2>6. UNCHANGED <<pending, modified, ack, writing, last, tried, crashes>>
    BY <1>5 DEF Apply, ApplyFails
  <2> QED BY <2>2, <2>3, <2>4, <2>5, <2>6 DEF ShapeOK, Poller
<1>6. CASE Acknowledge
  <2>1. poller.batch.n \in Batches
    BY <1>6 DEF Acknowledge, ShapeOK
  <2> QED BY <1>6, <2>1 DEF Acknowledge, all_ok, ShapeOK
<1>7. CASE Clear
  BY <1>7, NoBatchType DEF Clear, ShapeOK
<1>8. CASE RecordTime
  BY <1>8, SleepingType DEF RecordTime, insert, ShapeOK
<1>9. CASE Crash
  BY <1>9, SleepingType DEF Crash, ShapeOK
<1>10. CASE UNCHANGED vars
  BY <1>10 DEF vars, ShapeOK
<1> QED BY <1>1, <1>2, <1>3, <1>4, <1>5, <1>6, <1>7, <1>8, <1>9, <1>10 DEF Next, Poll

\* The files and what the poller of main.rs remembers keep their types, for
\* agents that wait and agents that do not.
THEOREM TypeCorrect == Spec => []TypeOK
BY ShapeInit, ShapeStep, NumberedInit, NumberedStep, ShapeType, PTL DEF Spec

-----------------------------------------------------------------------------
(* The agent waits for an empty file.                                      *)

\* The poller works on the batch that is in the file, and clears it only
\* after a try.
Held ==
  /\ poller.pc \in {"apply", "clear"} =>
       pending.valid /\ pending.n = poller.batch.n
  /\ poller.pc = "clear" => tried[poller.batch.n] > 0

LEMMA HeldInit == Init => Held
BY SleepingType DEF Init, Held

\* A valid batch stays in the file until the poller clears it.
LEMMA OnlyClear ==
  ASSUME Patience = "clear", Numbered, pending.valid, [Next]_vars
  PROVE  Clear \/ UNCHANGED pending
<1>1. ~WriteBatch
  BY Zenon DEF WriteBatch, MayWrite, Numbered
<1> QED BY <1>1 DEF Next, Poll, Stat, ReadPending, Refuse, Apply, Acknowledge,
                    RecordTime, ApplyFails, Crash, vars

\* What an operation of the poller changes.
LEMMA OperationStep ==
  ASSUME ShapeOK, Apply \/ ApplyFails
  PROVE  /\ poller'.pc = "apply" /\ poller'.batch.n = poller.batch.n
         /\ poller.pc = "apply" /\ UNCHANGED <<pending, tried>>
<1>1. poller.pc = "apply" /\ UNCHANGED <<pending, tried>>
  <2>1. CASE Apply
    BY <2>1, Zenon DEF Apply, history
  <2>2. CASE ApplyFails
    BY <2>2, Zenon DEF ApplyFails
  <2> QED BY <2>1, <2>2
<1>2. PICK i \in Ids :
        \/ poller' = [poller EXCEPT !.batch.upserts = @ \ {i}]
        \/ poller' = [poller EXCEPT !.batch.deletes = @ \ {i}]
        \/ poller' = [poller EXCEPT !.batch.upserts = @ \ {i}, !.failed = TRUE]
        \/ poller' = [poller EXCEPT !.batch.deletes = @ \ {i}, !.failed = TRUE]
  BY DEF Apply, ApplyFails, ShapeOK, Batch
<1>3. poller \in Poller
  BY DEF ShapeOK, Poller
<1> QED BY <1>1, <1>2, <1>3, LessPoller

LEMMA HeldStep ==
  ASSUME Patience = "clear"
  PROVE  ShapeOK /\ Numbered /\ Held /\ [Next]_vars => Held'
<1> SUFFICES ASSUME ShapeOK, Numbered, Held, [Next]_vars PROVE Held'
  OBVIOUS
<1>1. CASE WriteBatch
  <2>1. poller.pc \notin {"apply", "clear"}
    BY <1>1, Zenon DEF WriteBatch, MayWrite, Numbered, Held
  <2> QED BY <1>1, <2>1 DEF WriteBatch, Held
<1>2. CASE Stat \/ Refuse \/ RecordTime \/ Crash \/ Clear
  <2>1. poller'.pc \notin {"apply", "clear"}
    BY <1>2, SleepingType
       DEF Stat, Refuse, RecordTime, Crash, Clear, ShapeOK, Sleeping
  <2> QED BY <2>1 DEF Held
<1>3. CASE ReadPending
  <2>1. CASE pending.n = 0
    BY <1>3, <2>1, SleepingType DEF ReadPending, Held
  <2>2. CASE pending.n # 0
    <3>1. /\ poller'.batch = pending /\ poller'.pc \in {"apply", "refuse"}
          /\ poller'.pc = "apply" => pending.valid
      BY <1>3, <2>2 DEF ReadPending, after_parse, ShapeOK
    <3> QED BY <1>3, <3>1 DEF ReadPending, Held
  <2> QED BY <2>1, <2>2
<1>4. CASE Apply \/ ApplyFails
  BY <1>4, OperationStep DEF Held
<1>5. CASE Acknowledge
  <2>1. /\ poller.pc = "apply" /\ poller'.pc = "clear"
        /\ poller'.batch = poller.batch /\ UNCHANGED pending
    BY <1>5 DEF Acknowledge, ShapeOK
  <2>2. tried'[poller.batch.n] > 0
    BY <1>5 DEF Acknowledge, ShapeOK
  <2> QED BY <2>1, <2>2 DEF Held
<1>6. CASE UNCHANGED vars
  BY <1>6 DEF vars, history, Held
<1> QED BY <1>1, <1>2, <1>3, <1>4, <1>5, <1>6 DEF Next, Poll

\* With an agent that writes only into an empty file, or over a batch that was
\* refused, a valid batch leaves pending.json only after
\* process_pending_brain_update tried it, through any number of crashes.
THEOREM NoneLostHolds ==
  ASSUME Patience = "clear"
  PROVE  Spec => NoneLost
<1>1. ShapeOK /\ Numbered /\ Held /\ [Next]_vars =>
        [pending.valid /\ pending' # pending => tried[pending.n] > 0]_vars
  BY OnlyClear DEF Held, Clear
<1> QED BY <1>1, ShapeInit, ShapeStep, NumberedInit, NumberedStep, HeldInit, HeldStep,
           PTL DEF Spec, NoneLost

-----------------------------------------------------------------------------
\* While no operation failed: deletes start after the last upsert, and the
\* brain holds what was done so far.
Done ==
  poller.pc \in {"apply", "clear"} /\ ~poller.failed =>
    /\ poller.batch.deletes \subseteq pending.deletes
    /\ poller.batch.upserts # {} => poller.batch.deletes = pending.deletes
    /\ \A i \in pending.upserts \ poller.batch.upserts :
         i \in pending.deletes \ poller.batch.deletes \/ store[i] = pending.n
    /\ \A i \in pending.deletes \ poller.batch.deletes : store[i] = 0
    /\ poller.pc = "clear" => poller.batch.upserts = {} /\ poller.batch.deletes = {}

LEMMA DoneInit == Init => Done
BY SleepingType DEF Init, Done

LEMMA DoneStep ==
  ASSUME Patience = "clear"
  PROVE  ShapeOK /\ Numbered /\ Held /\ Done /\ [Next]_vars => Done'
<1> SUFFICES ASSUME ShapeOK, Numbered, Held, Done, [Next]_vars PROVE Done'
  OBVIOUS
<1>1. CASE WriteBatch
  <2>1. poller.pc \notin {"apply", "clear"}
    BY <1>1, Zenon DEF WriteBatch, MayWrite, Numbered, Held
  <2> QED BY <1>1, <2>1 DEF WriteBatch, Done
<1>2. CASE Stat \/ Refuse \/ RecordTime \/ Crash \/ Clear
  <2>1. poller'.pc \notin {"apply", "clear"}
    BY <1>2, SleepingType
       DEF Stat, Refuse, RecordTime, Crash, Clear, ShapeOK, Sleeping
  <2> QED BY <2>1 DEF Done
<1>3. CASE ReadPending
  <2>1. CASE pending.n = 0
    BY <1>3, <2>1, SleepingType DEF ReadPending, Done
  <2>2. CASE pending.n # 0
    <3>1. poller'.batch = pending /\ poller'.pc \in {"apply", "refuse"}
      BY <1>3, <2>2 DEF ReadPending, after_parse, ShapeOK
    <3>2. UNCHANGED <<pending, store>>
      BY <1>3 DEF ReadPending
    <3> QED BY <3>1, <3>2 DEF Done
  <2> QED BY <2>1, <2>2
<1>4. CASE Apply
  <2>0. poller.pc = "apply" /\ UNCHANGED pending
    BY <1>4, Zenon DEF Apply
  <2>1. /\ poller.batch \in Batch /\ pending \in Batch
        /\ store \in [Ids -> Batches \cup {0}] /\ pending.n = poller.batch.n
    BY <2>0 DEF ShapeOK, Held
  <2>2. CASE poller.batch.upserts # {}
    <3>1. PICK i \in poller.batch.upserts :
            /\ poller' = [poller EXCEPT !.batch.upserts = @ \ {i}]
            /\ store' = [store EXCEPT ![i] = poller.batch.n]
      BY <1>4, <2>2 DEF Apply, upserts_left
    <3>2. /\ poller'.pc = "apply" /\ poller'.failed = poller.failed
          /\ poller'.batch.upserts = poller.batch.upserts \ {i}
          /\ poller'.batch.deletes = poller.batch.deletes
      BY <3>1, <2>0, <2>1 DEF ShapeOK, Batch
    <3>3. /\ i \in Ids /\ store'[i] = pending.n
          /\ \A k \in Ids \ {i} : store'[k] = store[k]
      BY <3>1, <2>1 DEF Batch
    <3>4. pending.upserts \subseteq Ids /\ pending.deletes \subseteq Ids
      BY <2>1 DEF Batch
    <3> QED BY <2>0, <2>2, <3>2, <3>3, <3>4 DEF Done
  <2>3. CASE poller.batch.upserts = {}
    <3>1. PICK i \in poller.batch.deletes :
            /\ poller' = [poller EXCEPT !.batch.deletes = @ \ {i}]
            /\ store' = [store EXCEPT ![i] = 0]
      BY <1>4, <2>3 DEF Apply, upserts_left
    <3>2. /\ poller'.pc = "apply" /\ poller'.failed = poller.failed
          /\ poller'.batch.upserts = {}
          /\ poller'.batch.deletes = poller.batch.deletes \ {i}
      BY <3>1, <2>0, <2>1, <2>3 DEF ShapeOK, Batch
    <3>3. /\ i \in Ids /\ store'[i] = 0
          /\ \A k \in Ids \ {i} : store'[k] = store[k]
      BY <3>1, <2>1 DEF Batch
    <3>4. pending.upserts \subseteq Ids /\ pending.deletes \subseteq Ids
      BY <2>1 DEF Batch
    <3> QED BY <2>0, <2>3, <3>2, <3>3, <3>4 DEF Done
  <2> QED BY <2>2, <2>3
<1>5. CASE ApplyFails
  <2>1. poller'.failed = TRUE
    BY <1>5 DEF ApplyFails, ShapeOK
  <2> QED BY <2>1 DEF Done
<1>6. CASE Acknowledge
  <2>1. /\ poller.pc = "apply" /\ poller'.batch = poller.batch
        /\ poller.batch.upserts = {} /\ poller.batch.deletes = {}
        /\ poller'.failed = poller.failed /\ UNCHANGED <<pending, store>>
    BY <1>6 DEF Acknowledge, ShapeOK
  <2> QED BY <2>1 DEF Done
<1>7. CASE UNCHANGED vars
  BY <1>7 DEF vars, Done
<1> QED BY <1>1, <1>2, <1>3, <1>4, <1>5, <1>6, <1>7 DEF Next, Poll

\* With the same agent, the brain holds the whole batch when pending.json is
\* about to be cleared, unless an operation failed.
THEOREM BatchAppliedHolds ==
  ASSUME Patience = "clear"
  PROVE  Spec => []BatchApplied
<1>1. ShapeOK /\ Done => BatchApplied
  <2> SUFFICES ASSUME ShapeOK, Done, poller.pc = "clear", ~poller.failed,
                      NEW i \in Ids
               PROVE  /\ i \in pending.deletes => store[i] = 0
                      /\ i \in pending.upserts \ pending.deletes =>
                           store[i] = pending.n
    BY DEF BatchApplied
  <2> QED BY DEF Done
<1> QED BY <1>1, ShapeInit, ShapeStep, NumberedInit, NumberedStep, HeldInit, HeldStep,
           DoneInit, DoneStep, PTL DEF Spec

-----------------------------------------------------------------------------
(* Retries, for every agent.                                               *)

\* While the daemon was not killed: a batch tried twice is not in the file any
\* more, or its modification time is known or about to be; one tried once is
\* read under the modification time it has.
TwiceInv ==
  /\ pending.n <= writing
  /\ \A n \in Batches : tried[n] <= 2 /\ (n > writing => tried[n] = 0)
  /\ poller.pc = "apply" => tried[poller.batch.n] <= 1 /\ poller.batch.n <= writing
  /\ pending.n \in Batches =>
       /\ tried[pending.n] = 2 =>
            \/ poller.pc \in {"clear", "record"} /\ poller.mtime = modified
            \/ poller.pc = "sleep" /\ last = {modified}
       /\ tried[pending.n] = 1 /\ poller.pc \in {"read", "apply"} => poller.mtime = modified

\* The answer is about the latest try, unless that try is still running; a
\* running try with a failed operation knows it.
AnswerInv ==
  /\ ack.ok => ack.n \notin refused \/ (poller.pc = "apply" /\ ack.n = poller.batch.n)
  /\ poller.pc = "apply" /\ poller.batch.n \in refused => poller.failed

RetryInv == crashes = 0 => TwiceInv /\ AnswerInv

LEMMA RetryInit == Init => RetryInv
<1> SUFFICES ASSUME Init PROVE TwiceInv /\ AnswerInv
  BY DEF RetryInv
<1>1. poller.pc = "sleep" /\ pending.n = 0 /\ writing = 0 /\ tried = [n \in Batches |-> 0]
  BY SleepingType, NoBatchType DEF Init
<1>2. ack.ok = FALSE
  BY DEF Init
<1>3. TwiceInv
  BY <1>1 DEF TwiceInv, Batches
<1>4. AnswerInv
  BY <1>1, <1>2 DEF AnswerInv
<1> QED BY <1>3, <1>4

LEMMA RetryStep == ShapeOK /\ RetryInv /\ [Next]_vars => RetryInv'
<1> SUFFICES ASSUME ShapeOK, RetryInv, [Next]_vars, crashes' = 0 PROVE TwiceInv' /\ AnswerInv'
  BY DEF RetryInv
<1>0. crashes = 0 /\ ~Crash
  <2>1. ~Crash
    BY DEF Crash, ShapeOK
  <2>2. crashes' = crashes
    BY <2>1 DEF Next, Poll, WriteBatch, Stat, ReadPending, Refuse, Apply, Acknowledge, Clear,
                RecordTime, ApplyFails, vars
  <2> QED BY <2>1, <2>2
<1>t. TwiceInv /\ AnswerInv
  BY <1>0 DEF RetryInv
<1>p. /\ tried \in [Batches -> Nat] /\ modified \in Nat /\ writing \in Nat /\ pending.n \in Nat
      /\ poller.pc = "apply" => poller.batch.n \in Batches
  BY ConstantsAssumption DEF ShapeOK, Batch, Batches
<1>1. CASE WriteBatch
  <2>1. /\ writing' = writing + 1 /\ pending'.n = writing + 1 /\ UNCHANGED <<tried, poller, ack, refused>>
    BY <1>1 DEF WriteBatch, history
  <2>2. TwiceInv'
    BY <1>t, <1>p, <2>1 DEF TwiceInv, Batches
  <2> QED BY <1>t, <2>1, <2>2 DEF AnswerInv
<1>2. CASE Stat
  <2>1. /\ poller.pc = "sleep" /\ poller'.pc = "read" /\ poller'.mtime = modified /\ last # {modified}
        /\ UNCHANGED <<pending, modified, ack, writing, last, tried, refused>>
    <3>1. last # {modified}
      BY <1>2, <1>p DEF Stat, should_process
    <3>2. poller'.pc = "read" /\ poller'.mtime = modified
      BY <1>2, SleepingType DEF Stat
    <3> QED BY <1>2, <3>1, <3>2 DEF Stat, history
  <2>2. TwiceInv'
    BY <1>t, <1>p, <2>1 DEF TwiceInv
  <2> QED BY <1>t, <2>1, <2>2 DEF AnswerInv
<1>3. CASE ReadPending
  <2>1. /\ poller.pc = "read" /\ refused' = refused \ {pending.n}
        /\ UNCHANGED <<pending, modified, ack, writing, last, tried>>
    BY <1>3 DEF ReadPending
  <2>2. CASE pending.n = 0
    <3>1. poller'.pc = "sleep"
      BY <1>3, <2>2, SleepingType DEF ReadPending
    <3>2. TwiceInv'
      BY <1>t, <2>1, <2>2, <3>1 DEF TwiceInv, Batches
    <3> QED BY <1>t, <2>1, <3>1, <3>2 DEF AnswerInv
  <2>3. CASE pending.n # 0
    <3>1. /\ poller'.pc \in {"apply", "refuse"} /\ poller'.batch = pending /\ poller'.mtime = poller.mtime
          /\ pending.n \in Batches
      BY <1>3, <2>3 DEF ReadPending, after_parse, ShapeOK, Batch
    <3>2. tried[pending.n] <= 1
      BY <1>t, <1>p, <2>1, <3>1 DEF TwiceInv
    <3>3. TwiceInv'
      BY <1>t, <2>1, <3>1, <3>2 DEF TwiceInv
    <3> QED BY <1>t, <2>1, <3>1, <3>3 DEF AnswerInv
  <2> QED BY <2>2, <2>3
<1>4. CASE Refuse
  <2>1. /\ poller.pc = "refuse" /\ poller'.pc = "record" /\ ack'.ok = FALSE
        /\ UNCHANGED <<pending, modified, writing, last, tried, refused>>
    BY <1>4 DEF Refuse, ShapeOK, history
  <2>2. TwiceInv'
    BY <1>t, <1>p, <2>1 DEF TwiceInv
  <2> QED BY <2>1, <2>2 DEF AnswerInv
<1>5. CASE Apply \/ ApplyFails
  <2>1. poller'.pc = "apply" /\ poller'.batch.n = poller.batch.n /\ poller.pc = "apply"
    BY <1>5, OperationStep
  <2>2. UNCHANGED <<pending, modified, ack, writing, last, tried>>
    BY <1>5 DEF Apply, ApplyFails, history
  <2>3. \/ refused' = refused /\ poller'.failed = poller.failed
        \/ refused' = refused \cup {poller.batch.n} /\ poller'.failed = TRUE
    <3>1. CASE Apply
      BY <3>1 DEF Apply, ShapeOK, history
    <3>2. CASE ApplyFails
      BY <3>2 DEF ApplyFails, ShapeOK
    <3> QED BY <1>5, <3>1, <3>2
  <2>4. poller'.mtime = poller.mtime
    BY <1>5 DEF Apply, ApplyFails, ShapeOK
  <2>5. TwiceInv'
    BY <1>t, <2>1, <2>2, <2>4 DEF TwiceInv
  <2> QED BY <1>t, <2>1, <2>2, <2>3, <2>5 DEF AnswerInv
<1>6. CASE Acknowledge
  <2>1. PICK n \in Batches : n = poller.batch.n /\ poller.pc = "apply"
    BY <1>6, <1>p DEF Acknowledge
  <2>2. /\ poller'.pc = "clear" /\ poller'.mtime = poller.mtime /\ poller'.failed = poller.failed
        /\ ack'.n = n /\ ack'.ok = ~poller.failed
        /\ UNCHANGED <<pending, modified, writing, last, refused>>
    BY <1>6, <2>1 DEF Acknowledge, all_ok, ShapeOK
  <2>3. tried'[n] = tried[n] + 1 /\ \A k \in Batches \ {n} : tried'[k] = tried[k]
    BY <1>6, <1>p, <2>1 DEF Acknowledge
  <2>4. tried[n] <= 1 /\ n <= writing
    BY <1>t, <1>p, <2>1 DEF TwiceInv
  <2>5. TwiceInv'
    <3>1. \A k \in Batches : tried'[k] <= 2 /\ (k > writing => tried'[k] = 0)
      <4>1. n > writing => FALSE
        BY <1>p, <2>1, <2>4 DEF Batches
      <4>2. tried'[n] <= 2
        BY <1>p, <2>3, <2>4
      <4>3. ASSUME NEW k \in Batches \ {n} PROVE tried'[k] <= 2 /\ (k > writing => tried'[k] = 0)
        BY <1>t, <2>3, <4>3 DEF TwiceInv
      <4> QED BY <4>1, <4>2, <4>3
    <3>2. ASSUME pending.n \in Batches, tried'[pending.n] = 2 PROVE poller.mtime = modified
      <4>1. CASE pending.n = n
        <5>1. tried[n] = 1
          BY <1>p, <2>3, <3>2, <4>1
        <5> QED BY <1>t, <2>1, <4>1, <5>1 DEF TwiceInv
      <4>2. CASE pending.n # n
        <5>1. tried[pending.n] = 2
          BY <2>3, <3>2, <4>2
        <5> QED BY <1>t, <2>1, <3>2, <5>1 DEF TwiceInv
      <4> QED BY <4>1, <4>2
    <3>3. pending'.n <= writing'
      BY <1>t, <2>2 DEF TwiceInv
    <3> QED BY <2>2, <3>1, <3>2, <3>3 DEF TwiceInv
  <2> QED BY <1>t, <2>1, <2>2, <2>5 DEF AnswerInv
<1>7. CASE Clear
  <2>1. /\ poller.pc = "clear" /\ poller'.pc = "record" /\ poller'.mtime = poller.mtime
        /\ UNCHANGED <<ack, writing, last, tried, refused>>
    BY <1>7 DEF Clear, ShapeOK, history
  <2>2. (pending' = NoBatch) \/ UNCHANGED <<pending, modified>>
    BY <1>7 DEF Clear
  <2>3. TwiceInv'
    BY <1>t, <1>p, <2>1, <2>2, NoBatchType DEF TwiceInv, Batches
  <2> QED BY <1>t, <2>1, <2>3 DEF AnswerInv
<1>8. CASE RecordTime
  <2>1. /\ poller.pc = "record" /\ poller'.pc = "sleep" /\ last' = {poller.mtime}
        /\ UNCHANGED <<pending, modified, ack, writing, tried, refused>>
    BY <1>8, SleepingType DEF RecordTime, insert, history
  <2>2. TwiceInv'
    BY <1>t, <1>p, <2>1 DEF TwiceInv
  <2> QED BY <1>t, <2>1, <2>2 DEF AnswerInv
<1>9. CASE UNCHANGED vars
  BY <1>t, <1>9 DEF vars, history, TwiceInv, AnswerInv
<1> QED BY <1>0, <1>1, <1>2, <1>3, <1>4, <1>5, <1>6, <1>7, <1>8, <1>9 DEF Next, Poll

\* For every agent: until the daemon is killed, process_pending_brain_update tries a
\* batch twice at most, and an ok it leaves in pending.ack.json is about a try
\* without a failed operation.
THEOREM RetriesAlwaysAnswered == Spec => []RetriesAnswered
<1>1. ShapeOK /\ RetryInv => RetriesAnswered
  <2> SUFFICES ASSUME ShapeOK, RetryInv, crashes = 0 PROVE RetriesAnswered
    BY DEF RetriesAnswered, AppliedAtMostTwice, AckHonest
  <2> QED BY DEF RetryInv, TwiceInv, AnswerInv, RetriesAnswered, AppliedAtMostTwice, AckHonest
<1> QED BY <1>1, ShapeInit, ShapeStep, NumberedInit, NumberedStep, RetryInit, RetryStep,
           PTL DEF Spec
=============================================================================
