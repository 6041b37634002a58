------------------------------ MODULE EntryUpdates ------------------------------
(***************************************************************************)
(* The writers that read an entry of the brain, change it and store it     *)
(* whole: the links of an entry (server.rs, brain/manager.rs), the         *)
(* migration that rewrites every entry (migrations/mod.rs), and what the   *)
(* workspace processor adds to the session state and to the decisions      *)
(* when package.json is saved (observer/workspace_processor.rs).  Nothing  *)
(* keeps two of them apart.  The storage is HybridBrain's; here it stores  *)
(* an entry or fails.                                                      *)
(***************************************************************************)
EXTENDS Decisions

CONSTANTS
  Linked,       \* ids of entries that are linked
  LinkRequests, \* link requests that may be open together
  RuleFiles,    \* what rules/decisions.toml may hold
  Packages,     \* what package.json may hold
  Files,        \* files that may be saved
  MaxUpdates,   \* bound: link requests and rewritten texts
  MaxScans      \* bound: saves of package.json and of other files

ASSUME EntryUpdatesAssumption ==
  \A p \in Packages : DOMAIN p \subseteq Range(Sections) /\ \A s \in DOMAIN p : IsFiniteSet(DOMAIN p[s])

VARIABLES
  brain,      \* id -> entry: a text, what supersedes it, and what it contradicts, in order
  paused,     \* brain_paused
  link,       \* the open link requests: the entry as read, and the change
  migration,  \* entries the migration has yet to rewrite, as read
  expected,   \* history: id -> what its text and links should be
  read_at,    \* history: the version of each entry a request or the migration read
  version,    \* history: id -> writes so far
  clobbered,  \* history: entries written from a read that another write had overtaken
  updates,
  rules, package, previous_deps, announced,
  pending,    \* dependencies whose signals are to be processed
  made,       \* decisions of the signal that are to be stored
  now,        \* the clock, in milliseconds
  lists,      \* the entries "decisions" and "sessionState", and what they are rebuilt from
  signalled,  \* history: the names and versions signalled, and the scan each was found by
  scanned,    \* history: package.json as last scanned
  scans

linkVars == <<brain, paused, link, migration, expected, read_at, version, clobbered, updates>>
decisionVars == <<rules, package, previous_deps, announced, pending, made, now, lists, signalled, scanned, scans>>
updateVars == <<linkVars, decisionVars>>

NoLink == [op |-> "none"]
NoList == <<"missing">>
fresh_entry(text) == [text |-> text, superseded_by |-> "none", contradicts |-> <<>>]
expectation(text) == [text |-> text, superseded_by |-> "none", contradicts |-> {}]

-----------------------------------------------------------------------------
(* Links *)
link_superseded(entry, id) == [entry EXCEPT !.superseded_by = id]

\* Fault-seeded: a contradiction takes the place of the ones before it.
only_contradiction(entry, id) == [entry EXCEPT !.contradicts = <<id>>]
add_contradiction(entry, id) == [entry EXCEPT !.contradicts = IF Contains(@, id) THEN @ ELSE Append(@, id)]
\* retain: what is left of a sequence when a value is taken out, in order.
retained(s, x) ==
    LET keep == {i \in DOMAIN s : s[i] # x}
    IN  [n \in 1..Cardinality(keep) |-> s[CHOOSE i \in keep : Cardinality({j \in keep : j <= i}) = n]]
resolve_contradiction(entry, id) == [entry EXCEPT !.contradicts = retained(@, id)]

changed_entry(entry, op, id) ==
    CASE op = "supersede" -> link_superseded(entry, id)
      [] op = "contradict" -> add_contradiction(entry, id)
      [] op = "resolve" -> resolve_contradiction(entry, id)

\* history: what the change means, whatever the code does.
meant(expectation_of, op, id) ==
    CASE op = "supersede" -> [expectation_of EXCEPT !.superseded_by = id]
      [] op = "contradict" -> [expectation_of EXCEPT !.contradicts = @ \cup {id}]
      [] op = "resolve" -> [expectation_of EXCEPT !.contradicts = @ \ {id}]

\* A write of an entry read at the given version.
write_entry(id, entry, at_version) ==
  /\ brain' = with(brain, id, entry)
  /\ version' = [version EXCEPT ![id] = @ + 1]
  /\ clobbered' = IF version[id] = at_version THEN clobbered ELSE clobbered \cup {id}

\* upsert_memory: the whole entry as the client gives it.
Put(id, text) ==
  /\ updates < MaxUpdates /\ updates' = updates + 1 /\ ~paused
  /\ write_entry(id, fresh_entry(text), version[id])
  /\ expected' = with(expected, id, expectation(text))
  /\ UNCHANGED <<paused, link, migration, read_at, decisionVars>>

TogglePause ==
  /\ paused' = ~paused
  /\ UNCHANGED <<brain, link, migration, expected, read_at, version, clobbered, updates, decisionVars>>

ReadLink(r, id, op, other) ==
  /\ updates < MaxUpdates /\ updates' = updates + 1
  /\ ~paused /\ link[r] = NoLink /\ id \in DOMAIN brain
  /\ link' = [link EXCEPT ![r] = [op |-> op, id |-> id, other |-> other, entry |-> brain[id], version |-> version[id]]]
  /\ UNCHANGED <<brain, paused, migration, expected, read_at, version, clobbered, decisionVars>>

WriteLink(r) ==
  LET req == link[r] IN
  /\ req # NoLink /\ link' = [link EXCEPT ![r] = NoLink]
  /\ \/ UNCHANGED <<brain, expected, version, clobbered>>
     \/ /\ write_entry(req.id, changed_entry(req.entry, req.op, req.other), req.version)
        /\ expected' = [expected EXCEPT ![req.id] = meant(@, req.op, req.other)]
  /\ UNCHANGED <<paused, migration, read_at, updates, decisionVars>>

\* run_project_migrations: a snapshot, then each entry as it was; the first failure ends it.
\* The marker it writes at the end is read by nothing.
StartMigration ==
  /\ updates < MaxUpdates /\ updates' = updates + 1
  /\ migration = <<>> /\ migration' = brain /\ read_at' = version
  /\ UNCHANGED <<brain, paused, link, expected, version, clobbered, decisionVars>>

Rewrite(id) ==
  /\ id \in DOMAIN migration
  /\ \/ migration' = <<>> /\ UNCHANGED <<brain, version, clobbered>>
     \/ migration' = without(migration, {id}) /\ write_entry(id, migration[id], read_at[id])
  /\ UNCHANGED <<paused, link, expected, read_at, updates, decisionVars>>

LinksNext ==
  \/ \E id \in Linked :
       \/ \E text \in {"old", "new"} : Put(id, text)
       \/ \E r \in LinkRequests, op \in {"supersede", "contradict", "resolve"}, other \in Linked \ {id} :
            ReadLink(r, id, op, other)
       \/ Rewrite(id)
  \/ TogglePause
  \/ \E r \in LinkRequests : WriteLink(r)
  \/ StartMigration

-----------------------------------------------------------------------------
(* What the workspace processor adds to lists it reads under one id and stores under another: *)
(* the session state and the decisions are rebuilt each time from entries only a client writes. *)
idle == pending = <<>> /\ made = <<>>

\* A processor is made, at the start of the daemon or of the workspace; it remembers nothing.
StartProcessor ==
  /\ scans < MaxScans /\ scans' = scans + 1
  /\ \E file \in RuleFiles : rules' = load_rules(file)
  /\ previous_deps' = <<>> /\ announced' = {} /\ pending' = <<>> /\ made' = <<>>
  /\ signalled' = <<>> /\ scanned' = <<>>
  /\ UNCHANGED <<package, now, lists, linkVars>>

EditPackage ==
  /\ \E p \in Packages : package' = p
  /\ UNCHANGED <<rules, previous_deps, announced, pending, made, now, lists, signalled, scanned, scans, linkVars>>

\* process_package_json: what is new is decided once, before the first signal.
Scan ==
  /\ idle /\ scans < MaxScans /\ scans' = scans + 1
  /\ pending' = detect_new_dependencies(package, previous_deps)
  /\ scanned' = package
  /\ UNCHANGED <<rules, package, previous_deps, announced, made, now, lists, signalled, linkVars>>

Signal ==
  LET dep == Head(pending) IN
  /\ made = <<>> /\ pending # <<>> /\ pending' = Tail(pending)
  /\ made' = process_signal(rules, announced, [kind |-> "dependency_added", name |-> dep[1]], now)
  /\ previous_deps' = with(previous_deps, dep[1], dep[2])
  /\ signalled' = Append(signalled, <<dep[1], dep[2], scans>>)
  /\ UNCHANGED <<rules, package, announced, now, lists, scanned, scans, linkVars>>

\* Stored as the client's decisions and this one; a decision that cannot be stored is not
\* marked, nor tried again.
StoreDecision ==
  /\ made # <<>> /\ made' = Tail(made)
  /\ \/ /\ lists' = [lists EXCEPT !.decisions = Append(lists.decisions_json, Head(made).id)]
        /\ announced' = announced \cup {decision_id(Head(made), now)}
     \/ UNCHANGED <<lists, announced>>
  /\ \E elapsed \in 0..1 : now' = now + elapsed
  /\ UNCHANGED <<rules, package, previous_deps, pending, signalled, scanned, scans, linkVars>>

\* update_session_state, at each saved file; without the client's entry nothing is written.
SaveFile(file) ==
  /\ scans < MaxScans /\ scans' = scans + 1 /\ idle
  /\ lists.session_json # NoList
  /\ lists' = [lists EXCEPT !.session = IF Contains(lists.session_json, file) THEN lists.session_json
                                        ELSE Append(lists.session_json, file)]
  /\ UNCHANGED <<rules, package, previous_deps, announced, pending, made, now, signalled, scanned, linkVars>>

ClientWrites ==
  /\ lists.session_json = NoList
  /\ lists' = [lists EXCEPT !.session_json = <<>>, !.decisions_json = <<"by hand">>]
  /\ UNCHANGED <<rules, package, previous_deps, announced, pending, made, now, signalled, scanned, scans, linkVars>>

UpdatesInit ==
  /\ brain = [id \in Linked |-> fresh_entry("old")] /\ paused = FALSE
  /\ link = [r \in LinkRequests |-> NoLink] /\ migration = <<>>
  /\ expected = [id \in Linked |-> expectation("old")]
  /\ version = [id \in Linked |-> 0] /\ read_at = version /\ clobbered = {} /\ updates = 0
  /\ rules = <<>> /\ package = <<>> /\ previous_deps = <<>> /\ announced = {}
  /\ pending = <<>> /\ made = <<>> /\ now = 0
  /\ lists = [decisions |-> <<>>, decisions_json |-> <<>>, session |-> <<>>, session_json |-> NoList]
  /\ signalled = <<>> /\ scanned = <<>> /\ scans = 0

DecisionsNext ==
  \/ StartProcessor
  \/ EditPackage
  \/ Scan
  \/ Signal
  \/ StoreDecision
  \/ \E file \in Files : SaveFile(file)
  \/ ClientWrites

-----------------------------------------------------------------------------
\* Links and texts survive the writers beside them: an entry that no writer stored from an
\* overtaken read has the text it was last given, is superseded by the entry last named, and
\* contradicts exactly the entries linked and not resolved since, each once; requests and a
\* migration for other entries do not matter.
LinksKept ==
  \A id \in DOMAIN brain \ clobbered :
    /\ brain[id].text = expected[id].text /\ brain[id].superseded_by = expected[id].superseded_by
    /\ Range(brain[id].contradicts) = expected[id].contradicts /\ IsInjective(brain[id].contradicts)

\* The i-th is the last of its name among the first n signals.
last_of_name(signals, i, n) == \A j \in i + 1..n : signals[j][1] # signals[i][1]

versions_of(file, name) == {file[section][name] : section \in {s \in DOMAIN file : name \in DOMAIN file[s]}}

\* A change of package.json is signalled by one scan: a version that was the last one signalled of
\* its name is signalled again only by the scan that found it, for the other section; and when a
\* scan is done, each dependency that has one version was last signalled with it.
DependenciesSignalled ==
  /\ \A j \in DOMAIN signalled : \A i \in 1..j - 1 :
       /\ signalled[i][1] = signalled[j][1] /\ last_of_name(signalled, i, j - 1)
       => signalled[i][2] # signalled[j][2] \/ signalled[i][3] = signalled[j][3]
  /\ idle => \A name \in UNION {DOMAIN scanned[section] : section \in DOMAIN scanned} :
       \A version_of \in versions_of(scanned, name) :
         versions_of(scanned, name) = {version_of} =>
           \E i \in DOMAIN signalled : /\ signalled[i][1] = name /\ signalled[i][2] = version_of
                                       /\ last_of_name(signalled, i, Len(signalled))
=============================================================================
