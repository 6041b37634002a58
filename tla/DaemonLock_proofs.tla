--------------------------- MODULE DaemonLock_proofs ---------------------------
(***************************************************************************)
(* Proofs about DaemonLock, for any set of pids and any reuse of them:     *)
(* what holds while no two starts overlap, and what does although they do. *)
(***************************************************************************)
EXTENDS DaemonLock, TLAPS

\* Every file operation of acquire_daemon_lock but create_new keeps the types.
ShapeOK ==
  /\ pc \in [Procs -> {"off", "create", "write", "read", "kill", "remove",
                       "running", "exited", "failed", "ended"}]
  /\ attempts \in [Procs -> Nat]
  /\ content \in [Procs -> Procs \cup {0}]
  /\ lock \subseteq Procs

OneStarter == \A p, q \in Procs : Starting(p) /\ Starting(q) => p = q

\* What a starter knows of the running daemon at each point of its way.
StarterInv ==
  \A p \in Procs :
    /\ pc[p] = "write" => lock = {p}
    /\ pc[p] = "running" => p \in written
    /\ pc[p] = "kill" => \A q \in Running : content[p] = q
    /\ pc[p] = "remove" => Running = {}

\* It removes at most one file: the second attempt finds none.
AttemptInv ==
  \A p \in Procs :
    /\ pc[p] = "off" => attempts[p] = 0
    /\ pc[p] = "create" => attempts[p] = 0 \/ (attempts[p] = 1 /\ lock = {})
    /\ pc[p] \in {"read", "kill", "remove"} => attempts[p] = 1

Owned == \A p \in Running : lock = {p}

NoneFailed == \A p \in Procs : pc[p] # "failed"

LockInv == ShapeOK /\ OneStarter /\ StarterInv /\ Owned

\* All of it holds while no two starts have overlapped.
AloneInv == ~overlapped => LockInv /\ AttemptInv /\ NoneFailed

LEMMA LockInit == Init => AloneInv
BY DEF Init, AloneInv, LockInv, ShapeOK, OneStarter, Starting, StarterInv, Owned,
       Running, AttemptInv, NoneFailed

LEMMA LockStep ==
  ASSUME ~overlapped', LockInv, [Next]_vars
  PROVE  LockInv'
<1> USE ConstantsAssumption
    DEF LockInv, ShapeOK, OneStarter, Starting, StarterInv, Owned, Running, Goto
<1>1. ASSUME NEW p \in Procs, Start(p) PROVE LockInv'
  BY <1>1 DEF Start
<1>2. ASSUME NEW p \in Procs, Die(p) PROVE LockInv'
  BY <1>2 DEF Die
<1>3. ASSUME NEW p \in Procs, Reuse(p) PROVE LockInv'
  BY <1>3 DEF Reuse
<1>4. ASSUME NEW p \in Procs, Create(p) PROVE LockInv'
  <2>1. \A q \in Procs \ {p} : ~Starting(q) /\ pc'[q] = pc[q]
    BY <1>4 DEF Create
  <2>2. CASE lock = {}
    <3>1. Running = {}
      BY <2>2
    <3>2. lock' = {p} /\ pc' = [pc EXCEPT ![p] = "write"]
      BY <1>4, <2>2 DEF Create, create_new
    <3>3. Running' = {}
      BY <3>1, <3>2
    <3>4. ShapeOK'
      BY <1>4, <3>2 DEF Create
    <3>5. OneStarter' /\ StarterInv' /\ Owned'
      BY <2>1, <3>2, <3>3
    <3> QED BY <3>4, <3>5
  <2>3. CASE lock # {}
    BY <1>4, <2>1, <2>3 DEF Create, create_new
  <2> QED BY <2>2, <2>3
<1>5. ASSUME NEW p \in Procs, WritePid(p) PROVE LockInv'
  <2>1. /\ pc[p] = "write" /\ lock = {p} /\ Running = {}
    BY <1>5 DEF WritePid
  <2>2. lock' = {p} /\ written' = written \cup {p} /\ pc' = [pc EXCEPT ![p] = "running"]
    BY <1>5, <2>1 DEF WritePid
  <2>3. Running' = {p} /\ Owned'
    BY <2>1, <2>2
  <2>4. ShapeOK' /\ OneStarter'
    BY <1>5, <2>2 DEF WritePid
  <2>5. StarterInv'
    <3>1. \A q \in Procs : pc'[q] \notin {"write", "kill", "remove"}
      BY <2>1, <2>2
    <3>2. \A q \in Procs : pc'[q] = "running" => q \in written'
      BY <2>1, <2>2
    <3> QED BY <3>1, <3>2
  <2> QED BY <2>3, <2>4, <2>5
<1>6. ASSUME NEW p \in Procs, ReadPid(p) PROVE LockInv'
  <2>1. \A q \in Running : content'[p] = q
    BY <1>6 DEF ReadPid
  <2> QED BY <1>6, <2>1 DEF ReadPid
<1>7. ASSUME NEW p \in Procs, CheckAlive(p) PROVE LockInv'
  <2>1. CASE is_alive(p)
    BY <1>7, <2>1 DEF CheckAlive
  <2>2. CASE ~is_alive(p)
    <3>1. Running = {}
      BY <1>7, <2>2 DEF CheckAlive, is_alive, Alive
    <3> QED BY <1>7, <2>2, <3>1 DEF CheckAlive
  <2> QED BY <2>1, <2>2
<1>8. ASSUME NEW p \in Procs, RemoveStale(p) PROVE LockInv'
  BY <1>8 DEF RemoveStale
<1>9. CASE UNCHANGED vars
  BY <1>9 DEF vars
<1> QED BY <1>1, <1>2, <1>3, <1>4, <1>5, <1>6, <1>7, <1>8, <1>9 DEF Next

LEMMA AttemptStep ==
  ASSUME ~overlapped', LockInv, AttemptInv, NoneFailed, [Next]_vars
  PROVE  AttemptInv' /\ NoneFailed'
<1> USE DEF LockInv, ShapeOK, OneStarter, Starting, AttemptInv, NoneFailed, Goto
<1>1. ASSUME NEW p \in Procs, Start(p) PROVE AttemptInv' /\ NoneFailed'
  BY <1>1 DEF Start
<1>2. ASSUME NEW p \in Procs, Die(p) \/ Reuse(p) PROVE AttemptInv' /\ NoneFailed'
  BY <1>2 DEF Die, Reuse
<1>3. ASSUME NEW p \in Procs, Create(p) PROVE AttemptInv' /\ NoneFailed'
  BY <1>3 DEF Create, create_new
<1>4. ASSUME NEW p \in Procs, WritePid(p) PROVE AttemptInv' /\ NoneFailed'
  BY <1>4 DEF WritePid
<1>5. ASSUME NEW p \in Procs, ReadPid(p) PROVE AttemptInv' /\ NoneFailed'
  BY <1>5 DEF ReadPid
<1>6. ASSUME NEW p \in Procs, CheckAlive(p) PROVE AttemptInv' /\ NoneFailed'
  BY <1>6 DEF CheckAlive
<1>7. ASSUME NEW p \in Procs, RemoveStale(p) PROVE AttemptInv' /\ NoneFailed'
  BY <1>7 DEF RemoveStale, last_attempt
<1>8. CASE UNCHANGED vars
  BY <1>8 DEF vars
<1> QED BY <1>1, <1>2, <1>3, <1>4, <1>5, <1>6, <1>7, <1>8 DEF Next

\* The strengthened invariant of acquire_daemon_lock.
THEOREM AloneInvariant == Spec => []AloneInv
<1>1. ASSUME AloneInv, [Next]_vars PROVE AloneInv'
  <2> SUFFICES ASSUME ~overlapped' PROVE (LockInv /\ AttemptInv /\ NoneFailed)'
    BY DEF AloneInv
  <2>1. ~overlapped
    BY <1>1 DEF Next, vars, Start, Die, Reuse, Create, WritePid, ReadPid, CheckAlive,
                RemoveStale
  <2>2. LockInv /\ AttemptInv /\ NoneFailed
    BY <1>1, <2>1 DEF AloneInv
  <2> QED BY <1>1, <2>2, LockStep, AttemptStep
<1> QED BY <1>1, LockInit, PTL DEF Spec

\* While no two starts have overlapped, a running daemon owns the pid file:
\* acquire_daemon_lock never removes the file of a live daemon.
THEOREM OwnsLockHolds == Spec => []OwnsLock
<1>1. AloneInv => OwnsLock
  BY DEF AloneInv, LockInv, Owned, OwnsLock
<1> QED BY <1>1, AloneInvariant, PTL

\* Hence acquire_daemon_lock lets at most one of them run.
THEOREM OneDaemonHolds == Spec => [](~overlapped => OneDaemon)
<1>1. OwnsLock => (~overlapped => OneDaemon)
  BY DEF OwnsLock, OneDaemon, Running
<1> QED BY <1>1, OwnsLockHolds, PTL

\* And two attempts of acquire_daemon_lock suffice: it never ends in its error.
THEOREM NeverGivesUpHolds == Spec => []NeverGivesUp
<1>1. AloneInv => NeverGivesUp
  BY DEF AloneInv, NoneFailed, NeverGivesUp
<1> QED BY <1>1, AloneInvariant, PTL

\* What acquire_daemon_lock guarantees while no two starts have overlapped.
THEOREM LockServesHolds == Spec => []LockServes
<1>1. OwnsLock /\ NeverGivesUp => LockServes
  BY DEF LockServes
<1> QED BY <1>1, OwnsLockHolds, NeverGivesUpHolds, PTL

\* A pid in the file, or read from it, is of a process that became a daemon.
WriterInv ==
  /\ pc \in [Procs -> {"off", "create", "write", "read", "kill", "remove",
                       "running", "exited", "failed", "ended"}]
  /\ content \in [Procs -> written \cup {0}]
  /\ \A q \in written : q \in Procs /\ pc[q] \in {"running", "ended"}

LEMMA WriterStep == WriterInv /\ [Next]_vars => WriterInv'
<1> SUFFICES ASSUME WriterInv, [Next]_vars PROVE WriterInv'
  OBVIOUS
<1> USE DEF WriterInv, Goto
<1>1. CASE UNCHANGED vars
  BY <1>1 DEF vars
<1>2. ASSUME NEW p \in Procs, Start(p) \/ Create(p) \/ CheckAlive(p) \/ RemoveStale(p) PROVE WriterInv'
  BY <1>2 DEF Start, Create, CheckAlive, RemoveStale
<1>3. ASSUME NEW p \in Procs, Die(p) PROVE WriterInv'
  BY <1>3 DEF Die
<1>4. ASSUME NEW p \in Procs, Reuse(p) PROVE WriterInv'
  BY <1>4 DEF Reuse
<1>5. ASSUME NEW p \in Procs, WritePid(p) PROVE WriterInv'
  BY <1>5 DEF WritePid
<1>6. ASSUME NEW p \in Procs, ReadPid(p) PROVE WriterInv'
  <2>1. content'[p] \in written \cup {0}
    BY <1>6 DEF ReadPid
  <2> QED BY <1>6, <2>1 DEF ReadPid
<1> QED BY <1>1, <1>2, <1>3, <1>4, <1>5, <1>6 DEF Next

\* However starts overlap: a start of acquire_daemon_lock that gives way to the pid it read
\* leaves a running daemon, unless that pid was handed out again.
THEOREM ExitsForDaemonHolds == Spec => ExitsForDaemon
<1>1. Init => WriterInv
  BY DEF Init, WriterInv
<1>2. WriterInv /\ [Next]_vars =>
        [\A p \in Procs : pc[p] = "kill" /\ pc'[p] = "exited" /\ reused = {} => Running # {}]_vars
  <2> SUFFICES ASSUME WriterInv, Next, NEW p \in Procs, pc[p] = "kill", pc'[p] = "exited", reused = {}
               PROVE  Running # {}
    OBVIOUS
  <2>1. CheckAlive(p)
    BY DEF WriterInv, Next, Goto, Start, Die, Reuse, Create, WritePid, ReadPid, CheckAlive, RemoveStale
  <2>2. is_alive(p)
    BY <2>1 DEF CheckAlive, Goto, WriterInv
  <2>3. content[p] \in written /\ (Starting(content[p]) \/ pc[content[p]] = "running")
    BY <2>2 DEF is_alive, Alive, WriterInv
  <2> QED BY <2>3 DEF Starting, Running, WriterInv
<1> QED BY <1>1, <1>2, WriterStep, PTL DEF Spec, ExitsForDaemon
=============================================================================
