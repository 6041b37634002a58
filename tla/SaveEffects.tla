------------------------------- MODULE SaveEffects -------------------------------
(***************************************************************************)
(* What a saved file sets off beside its graph and skeleton (FileEvents):  *)
(* the flight recorder (recorder/flight.rs), the context predictor         *)
(* (intelligence/predictor.rs) and the agents (agents/mod.rs), in the      *)
(* order of process_modification (observer/workspace_processor.rs).  The   *)
(* one event loop writes all three; the API reads them between any two of  *)
(* its steps, and the task that starts the session runs agents beside it.  *)
(***************************************************************************)
EXTENDS Agents

CONSTANTS
  Candidates,   \* the agent files a workspace may have: set of sequences of candidates
  Contexts,     \* what may be saved: records as execute_file_save_agent takes them, with a file and an intent
  HomeRules,    \* rules of the security file in the home directory, or {}
  MaxCapacity,  \* bound: events the flight recorder keeps, 2000 in the code
  MaxActivity,  \* bound: activities the predictor keeps, 32 in the code
  MaxReports,   \* bound: reports the runtime keeps, 128 in the code
  MaxSaves,     \* bound: saves and deletions
  MaxClock      \* bound: the clock, in seconds

AgentConfig == [name : STRING, trigger : STRING, cooldown : Nat]

ASSUME SaveEffectsAssumption ==
  /\ MaxCapacity \in Nat \ {0} /\ MaxActivity \in Nat \ {0}
  /\ \A candidates \in Candidates : load_agent_configs(candidates) \in Seq(AgentConfig)

VARIABLES
  configs,      \* of the AgentRuntime
  last_run,     \* name -> time
  recent,       \* recent_reports
  entries,      \* the reports in the brain, by entry id
  counters,     \* RunningCounters: mutations per file, detections per intent
  timeline,     \* ring buffer of events
  activity,     \* recent_activity
  hot,          \* hot_context: file -> intent
  current,      \* current_intent
  step,         \* where the event loop is
  save,         \* what it is processing
  reports,      \* reports it has to store
  session_started, \* the agents of the session's start have run, or run now
  runtime,      \* the lock of the AgentRuntime: for whom agents run, how far they are, what they reported
  clock,
  runs,         \* history: each time an agent was triggered, and whether it ran
  recorded      \* history: every event handed to the recorder

saveVars == <<configs, last_run, recent, entries, counters, timeline, activity, hot, current,
              step, save, reports, session_started, runtime, clock, runs, recorded>>
agentVars == <<configs, last_run, recent, entries, reports, session_started, runtime, runs>>
recorderVars == <<counters, timeline, recorded>>
predictorVars == <<activity, hot, current>>

Free == [by |-> "nobody"]
Nothing == [file |-> "none", intent |-> "none"]

\* Fault-seeded: the ring gives way one event late.
ring_late(s, e, limit) == IF Len(s) > limit THEN Append(Tail(s), e) ELSE Append(s, e)
ring(s, e, limit) == Append(IF Len(s) >= limit THEN Tail(s) ELSE s, e)

SavesInit ==
  /\ configs = <<>> /\ last_run = <<>> /\ recent = <<>> /\ entries = <<>>
  /\ counters = [mutations |-> <<>>, intents |-> <<>>] /\ timeline = <<>>
  /\ activity = <<>> /\ hot = <<>> /\ current = Nothing
  /\ step = "starting" /\ save = Nothing /\ reports = <<>> /\ session_started = FALSE
  /\ runtime = Free /\ clock = 0 /\ runs = <<>> /\ recorded = <<>>

AgentRuntimeNew ==
  /\ step = "starting" /\ step' = "idle"
  /\ \E candidates \in Candidates : configs' = load_agent_configs(candidates)
  /\ UNCHANGED <<last_run, recent, entries, save, reports, session_started, runtime, clock, runs, recorderVars, predictorVars>>

Tick ==
  /\ clock < MaxClock /\ clock' = clock + 1
  /\ UNCHANGED <<agentVars, recorderVars, predictorVars, step, save>>

-----------------------------------------------------------------------------
(* record_event: the counters under their lock, then the ring under its own. *)
counted(map, key) == with(map, key, (IF key \in DOMAIN map THEN map[key] ELSE 0) + 1)

Count(kind, key, to) ==
  /\ counters' = [counters EXCEPT ![kind] = counted(@, key)]
  /\ recorded' = Append(recorded, <<kind, key>>)
  /\ step' = to
  /\ UNCHANGED <<agentVars, predictorVars, timeline, clock>>

Push(kind, key, to) ==
  /\ timeline' = ring(timeline, <<kind, key>>, MaxCapacity)
  /\ step' = to
  /\ UNCHANGED <<agentVars, predictorVars, counters, recorded, clock, save>>

\* process_deletion records no more than that.
FileEvent(next) ==
  /\ step = "idle"
  /\ Cardinality({i \in DOMAIN recorded : recorded[i][1] = "mutations"}) < MaxSaves
  /\ \E ctx \in Contexts : save' = ctx /\ Count("mutations", ctx.file, next)

PushMutation == step = "saved" /\ Push("mutations", save.file, "mutated")
PushDeletion == step = "deleted" /\ Push("mutations", save.file, "idle")
DetectIntent == step = "active" /\ Count("intents", save.intent, "detected") /\ UNCHANGED save
PushIntent == step = "detected" /\ Push("intents", save.intent, "graph")

\* The predictor: an activity, then the context of the file, then the current intent.
Predict(at_step, to, activities, contexts, intent) ==
  /\ step = at_step /\ step' = to
  /\ activity' = activities /\ hot' = contexts /\ current' = intent
  /\ UNCHANGED <<agentVars, recorderVars, clock, save>>

RecordActivity == Predict("mutated", "active", ring(activity, save.file, MaxActivity), hot, current)
PreloadContext == Predict("graph", "preloaded", activity, with(hot, save.file, save.intent), current)
SetCurrent == Predict("preloaded", "agents", activity, hot, [file |-> save.file, intent |-> save.intent])

get_cached_context(file) ==
    IF current.file = file THEN {current.intent} ELSE IF file \in DOMAIN hot THEN {hot[file]} ELSE {}

-----------------------------------------------------------------------------
cooldown_elapsed(config) ==
    config.name \notin DOMAIN last_run \/ 1000 * (clock - last_run[config.name]) >= config.cooldown

\* Fault-seeded: an agent that has nothing to report does not count as run.
marked_if_reported(ran, name, severity) == IF severity = NoReport THEN ran ELSE with(ran, name, clock)
marked(ran, name, severity) == with(ran, name, clock)

\* An agent of changed signatures also runs for modified nodes.
triggered(config) ==
    IF runtime.by = "start" THEN config.trigger = "session_start"
    ELSE \/ config.trigger = "file_save"
         \/ config.trigger = "function_signature_change" /\ (save.breaking \/ save.modified # {})

waiting == {i \in DOMAIN configs : i > runtime.done /\ triggered(configs[i])}

\* Reports of agents that ran, with something to report.
reported(config) ==
    LET severity == IF runtime.by = "start" THEN "Info" ELSE execute_file_save_agent(config.name, save, HomeRules)
    IN  [agent |-> config.name, severity |-> severity]

Lock(by) == runtime = Free /\ runtime' = [by |-> by, done |-> 0, batch |-> <<>>]

\* The next of the agents in the order of the file.
RunAgent ==
  /\ runtime # Free
  /\ \E i \in waiting :
       LET config == configs[i]
           elapsed == cooldown_elapsed(config)
           report == reported(config)
           new == elapsed /\ report.severity # NoReport
       IN  /\ \A j \in waiting : i <= j
           /\ runs' = Append(runs, [config |-> config, at |-> clock, ran |-> elapsed])
           /\ last_run' = IF elapsed THEN marked(last_run, config.name, report.severity) ELSE last_run
           /\ recent' = IF new THEN ring(recent, report, MaxReports) ELSE recent
           /\ runtime' = [runtime EXCEPT !.done = i, !.batch = IF new THEN Append(@, report) ELSE @]
  /\ UNCHANGED <<configs, entries, reports, session_started, step, save, clock, recorderVars, predictorVars>>

StartFileSave ==
  /\ step = "agents" /\ Lock("save")
  /\ UNCHANGED <<configs, last_run, recent, entries, reports, session_started, step, save, clock, runs, recorderVars, predictorVars>>

ProcessFileSave ==
  /\ step = "agents" /\ runtime.by = "save" /\ waiting = {}
  /\ step' = "reports" /\ reports' = runtime.batch /\ runtime' = Free
  /\ UNCHANGED <<configs, last_run, recent, entries, save, session_started, clock, runs, recorderVars, predictorVars>>

store_entry(map, report) ==
    with(map, agent_entry_id(report.agent),
         [report EXCEPT !.severity = IF severity_at_least(@, "Warning") THEN "Warning" ELSE "Context"])

\* Reports are stored one by one, and a failure is ignored.
Store(report) == \E ok \in BOOLEAN : entries' = IF ok THEN store_entry(entries, report) ELSE entries

StoreReport ==
  /\ step = "reports"
  /\ IF reports = <<>>
     THEN step' = "idle" /\ save' = Nothing /\ UNCHANGED <<entries, reports>>
     ELSE Store(Head(reports)) /\ reports' = Tail(reports) /\ UNCHANGED <<step, save>>
  /\ UNCHANGED <<configs, last_run, recent, session_started, runtime, clock, runs, recorderVars, predictorVars>>

\* The task at the start; the second entry an agent may name as its output is left out.
StartSession ==
  /\ step # "starting" /\ ~session_started /\ session_started' = TRUE /\ Lock("start")
  /\ UNCHANGED <<configs, last_run, recent, entries, reports, step, save, clock, runs, recorderVars, predictorVars>>

\* It holds the lock until its reports are stored.
ProcessSessionStart ==
  /\ runtime.by = "start" /\ waiting = {}
  /\ IF runtime.batch = <<>>
     THEN runtime' = Free /\ UNCHANGED entries
     ELSE Store(Head(runtime.batch)) /\ runtime' = [runtime EXCEPT !.batch = Tail(@)]
  /\ UNCHANGED <<configs, last_run, recent, reports, session_started, step, save, clock, runs, recorderVars, predictorVars>>

SavesNext ==
  \/ AgentRuntimeNew
  \/ Tick
  \/ FileEvent("saved")
  \/ FileEvent("deleted")
  \/ PushMutation
  \/ PushDeletion
  \/ RecordActivity
  \/ DetectIntent
  \/ PushIntent
  \/ PreloadContext
  \/ SetCurrent
  \/ StartFileSave
  \/ RunAgent
  \/ ProcessFileSave
  \/ StoreReport
  \/ StartSession
  \/ ProcessSessionStart

-----------------------------------------------------------------------------
\* An agent runs whenever it is triggered and its name has not run within the cooldown, and
\* never otherwise, whether or not its earlier runs had anything to report, across saves, the
\* start of the session and sections that share a name.
AgentsTimely ==
  \A i \in DOMAIN runs :
    runs[i].ran <=> \A j \in 1..(i - 1) :
      runs[j].ran /\ runs[j].config.name = runs[i].config.name
        => 1000 * (runs[i].at - runs[j].at) >= runs[i].config.cooldown

\* Whatever a reader of the API sees between two steps: the ring holds the last events in their
\* order, at most one event behind the counters, which count every event since the start; the
\* activity is the last saves; and once a save is predicted, the predictor answers for each
\* saved file with the intent last detected in it.
RecorderAgrees ==
  LET late == IF step \in {"saved", "deleted", "detected"} THEN 1 ELSE 0
      pushed == SubSeq(recorded, 1, Len(recorded) - late)
      dropped == IF Len(pushed) > MaxCapacity THEN Len(pushed) - MaxCapacity ELSE 0
      counted_as(kind, key) == Cardinality({i \in DOMAIN recorded : recorded[i] = <<kind, key>>})
  IN  /\ timeline = SubSeq(pushed, dropped + 1, Len(pushed))
      /\ \A kind \in DOMAIN counters : \A key \in DOMAIN counters[kind] :
           counters[kind][key] = counted_as(kind, key)
      /\ \A i \in DOMAIN recorded : recorded[i][2] \in DOMAIN counters[recorded[i][1]]
      /\ Len(activity) <= MaxActivity
      /\ step \notin {"preloaded"} => \A file \in DOMAIN hot : get_cached_context(file) = {hot[file]}
      /\ DOMAIN hot \subseteq DOMAIN counters.mutations
=============================================================================
