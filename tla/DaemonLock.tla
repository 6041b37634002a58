------------------------------ MODULE DaemonLock -------------------------------
(***************************************************************************)
(* acquire_daemon_lock of main.rs: the file ~/.memix/daemon.pid admits one *)
(* daemon per user.  Every editor window starts a daemon, so several       *)
(* processes run this code at once.  Each file operation is a step: the    *)
(* file is created, then the pid is written into it; a starter that finds  *)
(* the file reads it, asks the kernel whether the pid lives, removes the   *)
(* file if not, and tries once more.  The file is never removed on exit.   *)
(***************************************************************************)
EXTENDS Naturals, FiniteSets

CONSTANTS
  Procs,      \* process ids
  MaxReuse    \* bound: pids of ended daemons given to other programs

ASSUME ConstantsAssumption == 0 \notin Procs /\ MaxReuse \in Nat

VARIABLES
  lock,      \* the pid file: {} or the set of the process that created it
  written,   \* processes that wrote their pid into the file they created
  pc,        \* where each process is
  attempts,  \* of each process
  content,   \* the pid each process read from the file
  reused,    \* pids given to other programs
  overlapped \* history: a process started while another was starting

vars == <<lock, written, pc, attempts, content, reused, overlapped>>

Init ==
  /\ lock = {} /\ written = {}
  /\ pc = [p \in Procs |-> "off"]
  /\ attempts = [p \in Procs |-> 0]
  /\ content = [p \in Procs |-> 0]
  /\ reused = {} /\ overlapped = FALSE

Starting(p) == pc[p] \in {"create", "write", "read", "kill", "remove"}

\* kill(p, 0) = 0: the daemon, or another program, has this pid.
Alive(p) == Starting(p) \/ pc[p] = "running" \/ p \in reused

Goto(p, l) == pc' = [pc EXCEPT ![p] = l]

Start(p) ==
  /\ pc[p] = "off"
  /\ Goto(p, "create")
  /\ overlapped' = (overlapped \/ \E q \in Procs : Starting(q))
  /\ UNCHANGED <<lock, written, attempts, content, reused>>

create_new == lock = {}

\* open with create_new: atomic.
Create(p) ==
  /\ pc[p] = "create"
  /\ attempts' = [attempts EXCEPT ![p] = @ + 1]
  /\ \/ create_new /\ lock' = {p} /\ Goto(p, "write")
     \/ ~create_new /\ Goto(p, "read") /\ UNCHANGED lock
  /\ UNCHANGED <<written, content, reused, overlapped>>

\* Into the file p has open: if that was unlinked meanwhile, nobody reads it.
WritePid(p) ==
  /\ pc[p] = "write"
  /\ written' = written \cup {p}
  /\ Goto(p, "running")
  /\ UNCHANGED <<lock, attempts, content, reused, overlapped>>

\* A file that is missing or empty reads as no pid.
ReadPid(p) ==
  /\ pc[p] = "read"
  /\ content' = [content EXCEPT ![p] = IF lock \subseteq written /\ lock # {}
                                              THEN CHOOSE q \in lock : TRUE ELSE 0]
  /\ Goto(p, "kill")
  /\ UNCHANGED <<lock, written, attempts, reused, overlapped>>

\* Fault-seeded: the check always fails, or every pid counts as alive.
never_alive(p) == FALSE
any_pid(p) == content[p] # 0
is_alive(p) == content[p] # 0 /\ Alive(content[p])

CheckAlive(p) ==
  /\ pc[p] = "kill"
  /\ Goto(p, IF is_alive(p) THEN "exited" ELSE "remove")
  /\ UNCHANGED <<lock, written, attempts, content, reused, overlapped>>

last_attempt(p) == attempts[p] >= 2

RemoveStale(p) ==
  /\ pc[p] = "remove"
  /\ lock' = {}
  /\ Goto(p, IF last_attempt(p) THEN "failed" ELSE "create")
  /\ UNCHANGED <<written, attempts, content, reused, overlapped>>

\* A daemon ends, killed or not: the file stays.
Die(p) ==
  /\ Starting(p) \/ pc[p] = "running"
  /\ Goto(p, "ended")
  /\ UNCHANGED <<lock, written, attempts, content, reused, overlapped>>

\* The kernel hands out the pid of an ended process again.
Reuse(p) ==
  /\ pc[p] = "ended" /\ Cardinality(reused) < MaxReuse
  /\ reused' = reused \cup {p}
  /\ UNCHANGED <<lock, written, pc, attempts, content, overlapped>>

Next == \E p \in Procs :
  \/ Start(p) \/ Die(p) \/ Reuse(p)
  \/ Create(p) \/ WritePid(p) \/ ReadPid(p) \/ CheckAlive(p) \/ RemoveStale(p)

Spec == Init /\ [][Next]_vars

Running == {p \in Procs : pc[p] = "running"}

\* At most one daemon runs: acquire_daemon_lock lets a second one exit.
OneDaemon == \A p, q \in Running : p = q

\* Unless two starts overlap, the pid file names the running daemon, so that
\* the next starter of acquire_daemon_lock finds it there.
OwnsLock == ~overlapped => \A p \in Running : lock = {p}

\* A stale file costs one attempt: unless starts overlap, the two attempts of
\* acquire_daemon_lock suffice to become the daemon or to find it.
NeverGivesUp == ~overlapped => \A p \in Procs : pc[p] # "failed"

\* What acquire_daemon_lock guarantees as long as no two starts overlap: every
\* start ends as the daemon the pid file names, or gives way to it.
LockServes == OwnsLock /\ NeverGivesUp

\* A starter leaves the work to a daemon that runs ("Daemon already running"),
\* also when starts overlap, as long as no pid is handed out again.
ExitsForDaemon ==
  [][\A p \in Procs :
       pc[p] = "kill" /\ pc'[p] = "exited" /\ reused = {} => Running # {}]_vars
=============================================================================
