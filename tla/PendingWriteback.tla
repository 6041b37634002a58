---------------------------- MODULE PendingWriteback ---------------------------
(***************************************************************************)
(* The writeback protocol of main.rs: an AI agent proposes brain updates   *)
(* in .memix/brain/pending.json; a poller of the daemon looks at the file  *)
(* every 15 s, applies the batch it finds, answers in pending.ack.json and *)
(* clears the file.  Agent and daemon share the files and no lock.  A      *)
(* batch is a number with the sets of entries it upserts and deletes; a    *)
(* batch that is too large, does not parse, names no project or has too    *)
(* many operations is refused.  storage.upsert_entry and delete_entry are  *)
(* steps here (HybridBrain shows what is under them).  One workspace.      *)
(***************************************************************************)
EXTENDS Naturals, FiniteSets

CONSTANTS
  Ids,         \* memory entries
  Patience,    \* what the agent waits for before it writes again:
               \* "clear", an empty file, or "ack", the answer to its batch
  MaxBatches,  \* bound: batches written
  MaxCrashes,  \* bound
  MaxFaults    \* bound: failed operations and failed clears

ASSUME ConstantsAssumption ==
  /\ Patience \in {"clear", "ack"}
  /\ MaxBatches \in Nat /\ MaxCrashes \in Nat /\ MaxFaults \in Nat

VARIABLES
  pending,    \* pending.json
  modified,   \* its modification time, counted in writes of the file
  ack,        \* pending.ack.json
  store,      \* the brain: the batch that wrote each entry, 0 if absent
  writing,    \* batches the agent has begun to write
  poller,
  last,       \* last_processed_mtimes: {} or the set of one time
  tried,      \* history: how often the operations of each batch were tried
  refused,    \* history: batches with a failed operation in the latest try
  crashes, faults

history == <<tried, refused>>
vars == <<pending, modified, ack, store, writing, poller, last, history, crashes,
          faults>>

Batches == 1..MaxBatches
Batch == [n : Batches \cup {0}, upserts : SUBSET Ids, deletes : SUBSET Ids,
          valid : BOOLEAN]
NoBatch == [n |-> 0, upserts |-> {}, deletes |-> {}, valid |-> FALSE]

Sleeping == [pc |-> "sleep", batch |-> NoBatch, mtime |-> 0, failed |-> FALSE]

Init ==
  /\ pending = NoBatch /\ modified = 0 /\ ack = [n |-> 0, ok |-> FALSE]
  /\ store = [i \in Ids |-> 0]
  /\ writing = 0 /\ poller = Sleeping /\ last = {}
  /\ tried = [n \in Batches |-> 0] /\ refused = {} /\ crashes = 0 /\ faults = 0

Fault == faults < MaxFaults /\ faults' = faults + 1

-----------------------------------------------------------------------------
(* The agent.                                                              *)

\* The answer to its batch, or an empty file; a refused batch stays there.
MayWrite ==
  \/ Patience = "clear" /\ pending.n = 0
  \/ Patience = "ack" /\ ack.n = writing
  \/ ack = [n |-> writing, ok |-> FALSE] /\ pending.n = writing /\ ~pending.valid

WriteBatch ==
  /\ writing < MaxBatches /\ MayWrite
  /\ writing' = writing + 1
  /\ \E b \in Batch : b.n = writing' /\ pending' = b
  /\ modified' = modified + 1
  /\ UNCHANGED <<ack, store, poller, last, history, crashes, faults>>

-----------------------------------------------------------------------------
(* The poller and process_pending_brain_update.                            *)

\* Fault-seeded: the same version of the file again, or no second version.
same_again == last = {} \/ \E t \in last : modified >= t
only_first == last = {}
should_process == last = {} \/ \E t \in last : modified > t

Stat ==
  /\ poller.pc = "sleep" /\ should_process /\ modified > 0
  /\ poller' = [Sleeping EXCEPT !.pc = "read", !.mtime = modified]
  /\ UNCHANGED <<pending, modified, ack, store, writing, last, history, crashes, faults>>

\* Fault-seeded: cleared before it is applied.
cleared_first(b) == IF b.valid THEN "clear" ELSE "refuse"
after_parse(b) == IF b.valid THEN "apply" ELSE "refuse"

\* An empty file is looked at again next time.
ReadPending ==
  /\ poller.pc = "read"
  /\ poller' =
       IF pending.n = 0 THEN Sleeping
       ELSE [poller EXCEPT !.batch = pending,
                           !.pc = after_parse(pending)]
  /\ refused' = refused \ {pending.n}
  /\ UNCHANGED <<pending, modified, ack, store, writing, last, tried, crashes, faults>>

\* Refused batches are answered and left in the file.
Refuse ==
  /\ poller.pc = "refuse"
  /\ ack' = [n |-> poller.batch.n, ok |-> FALSE]
  /\ poller' = [poller EXCEPT !.pc = "record"]
  /\ UNCHANGED <<pending, modified, store, writing, last, history, crashes, faults>>

\* Fault-seeded: deletes before upserts.
deletes_first(b) == b.deletes = {}
upserts_left(b) == b.upserts # {}

\* One upsert or, when none is left, one delete.
Apply ==
  /\ poller.pc = "apply"
  /\ \/ /\ upserts_left(poller.batch)
        /\ \E id \in poller.batch.upserts :
             /\ poller' = [poller EXCEPT !.batch.upserts = @ \ {id}]
             /\ store' = [store EXCEPT ![id] = poller.batch.n]
     \/ /\ ~upserts_left(poller.batch)
        /\ \E id \in poller.batch.deletes :
             /\ poller' = [poller EXCEPT !.batch.deletes = @ \ {id}]
             /\ store' = [store EXCEPT ![id] = 0]
  /\ UNCHANGED <<pending, modified, ack, writing, last, history, crashes, faults>>

\* The storage refuses an operation: counted, and the batch goes on.
ApplyFails ==
  /\ poller.pc = "apply" /\ Fault
  /\ \/ /\ upserts_left(poller.batch)
        /\ \E id \in poller.batch.upserts :
             poller' = [poller EXCEPT !.batch.upserts = @ \ {id}, !.failed = TRUE]
     \/ /\ ~upserts_left(poller.batch)
        /\ \E id \in poller.batch.deletes :
             poller' = [poller EXCEPT !.batch.deletes = @ \ {id}, !.failed = TRUE]
  /\ refused' = refused \cup {poller.batch.n}
  /\ UNCHANGED <<pending, modified, ack, store, writing, last, tried, crashes>>

all_ok == ~poller.failed

Acknowledge ==
  /\ poller.pc = "apply" /\ poller.batch.upserts = {} /\ poller.batch.deletes = {}
  /\ ack' = [n |-> poller.batch.n, ok |-> all_ok]
  /\ tried' = [tried EXCEPT ![poller.batch.n] = @ + 1]
  /\ poller' = [poller EXCEPT !.pc = "clear"]
  /\ UNCHANGED <<pending, modified, store, writing, last, refused, crashes, faults>>

\* Whatever the file holds by now; an error is ignored.
Clear ==
  /\ poller.pc = "clear"
  /\ \/ /\ pending' = NoBatch /\ modified' = modified + 1 /\ UNCHANGED faults
     \/ /\ Fault /\ UNCHANGED <<pending, modified>>
  /\ poller' = [poller EXCEPT !.pc = "record"]
  /\ UNCHANGED <<ack, store, writing, last, history, crashes>>

insert(t) == {t}

RecordTime ==
  /\ poller.pc = "record"
  /\ last' = insert(poller.mtime) /\ poller' = Sleeping
  /\ UNCHANGED <<pending, modified, ack, store, writing, history, crashes, faults>>

\* The daemon is killed and started again.
Crash ==
  /\ crashes < MaxCrashes /\ crashes' = crashes + 1
  /\ poller' = Sleeping /\ last' = {}
  /\ UNCHANGED <<pending, modified, ack, store, writing, history, faults>>

Poll == Stat \/ ReadPending \/ Refuse \/ Apply \/ Acknowledge \/ Clear \/ RecordTime

Next == WriteBatch \/ Poll \/ ApplyFails \/ Crash

Spec == Init /\ [][Next]_vars

\* The interval of the poller ticks forever.
LiveSpec == Spec /\ WF_vars(Poll)

-----------------------------------------------------------------------------
\* The files and the poller's variables; one modification time is remembered.
TypeOK ==
  /\ pending \in Batch /\ modified \in Nat
  /\ ack \in [n : Batches \cup {0}, ok : BOOLEAN]
  /\ store \in [Ids -> Batches \cup {0}]
  /\ writing \in Batches \cup {0}
  /\ poller \in [pc : {"sleep", "read", "refuse", "apply", "clear", "record"},
                 batch : Batch, mtime : Nat, failed : BOOLEAN]
  /\ Cardinality(last) <= 1 /\ last \subseteq Nat
  /\ tried \in [Batches -> Nat] /\ refused \in SUBSET Batches
  /\ crashes \in Nat /\ faults \in Nat

\* When process_pending_brain_update is about to clear the file, the brain holds
\* what the whole batch says: its upserts, and then its deletes, unless an
\* operation failed.
BatchApplied ==
  poller.pc = "clear" /\ ~poller.failed /\ pending.n = poller.batch.n =>
    \A i \in Ids : /\ i \in pending.deletes => store[i] = 0
                   /\ i \in pending.upserts \ pending.deletes => store[i] = pending.n

\* Without a crash a batch the poller cannot clear is applied at most twice:
\* once as the newer content found after an older modification time was taken,
\* and once under its own; then the poller knows it.
AppliedAtMostTwice == crashes = 0 => \A n \in Batches : tried[n] <= 2

\* Without a crash, the agent is told ok only about a batch whose latest try had
\* no failed operation: process_pending_brain_update counts them before it
\* answers.
AckHonest ==
  crashes = 0 /\ ack.ok /\ poller.pc # "apply" => ack.n \notin refused

\* A batch that process_pending_brain_update has to try again is tried once more
\* at most, and the answer it leaves is about the latest try.
RetriesAnswered == AppliedAtMostTwice /\ AckHonest

\* A valid batch leaves pending.json only after process_pending_brain_update
\* tried all of it: a crash of the daemon leaves the file to the next one.
NoneLost ==
  [][pending.valid /\ pending' # pending => tried[pending.n] > 0]_vars

\* Every valid batch is tried in the end: the modification time the poller
\* remembers never hides a later batch.
EventuallyTried == \A n \in Batches :
  pending.n = n /\ pending.valid ~> tried[n] > 0
=============================================================================
