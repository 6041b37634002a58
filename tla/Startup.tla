-------------------------------- MODULE Startup --------------------------------
(***************************************************************************)
(* The deferred startup tasks of main.rs.  The daemon binds its socket and *)
(* calls notify_waiters on startup_ready; later it spawns the migrations,  *)
(* the load of the token totals and the load of the embeddings, each of    *)
(* which first awaits notified().  tokio's Notify: notify_waiters wakes    *)
(* the tasks that wait at that moment and leaves no permit for a later     *)
(* one.                                                                    *)
(***************************************************************************)
EXTENDS Naturals, FiniteSets

CONSTANT Tasks  \* "migrations", "token_totals" and "embeddings" in the code

VARIABLES
  main,   \* where main is: "bind", "notify", "spawn" or "serve"
  task    \* of each deferred task: "none", "spawned", "waiting", "woken", "done"

vars == <<main, task>>

Init ==
  /\ main = "bind"
  /\ task = [t \in Tasks |-> "none"]

Bind == main = "bind" /\ main' = "notify" /\ UNCHANGED task

\* startup_ready.notify_waiters().
NotifyWaiters ==
  /\ main = "notify" /\ main' = "spawn"
  /\ task' = [t \in Tasks |-> IF task[t] = "waiting" THEN "woken" ELSE task[t]]

SpawnTask(t) ==
  /\ main = "spawn" /\ task[t] = "none"
  /\ task' = [task EXCEPT ![t] = "spawned"]
  /\ UNCHANGED main

Serve ==
  /\ main = "spawn" /\ \A t \in Tasks : task[t] # "none"
  /\ main' = "serve" /\ UNCHANGED task

\* The task runs up to notified().await.
Await(t) ==
  /\ task[t] = "spawned"
  /\ task' = [task EXCEPT ![t] = "waiting"]
  /\ UNCHANGED main

Run(t) ==
  /\ task[t] = "woken"
  /\ task' = [task EXCEPT ![t] = "done"]
  /\ UNCHANGED main

Main == Bind \/ NotifyWaiters \/ Serve \/ \E t \in Tasks : SpawnTask(t)

Next == Main \/ \E t \in Tasks : Await(t) \/ Run(t)

\* Main goes on, and tokio runs every task that can run.
LiveSpec ==
  Init /\ [][Next]_vars /\ WF_vars(Main) /\ \A t \in Tasks : WF_vars(Await(t) \/ Run(t))

\* The deferred tasks "start exactly when the daemon is ready": every one that
\* main.rs spawns runs in the end.
DeferredTasksRun == \A t \in Tasks : task[t] = "spawned" ~> task[t] = "done"
=============================================================================
