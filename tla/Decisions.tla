-------------------------------- MODULE Decisions --------------------------------
(***************************************************************************)
(* How a signal becomes decisions (observer/decisions.rs): the rules of    *)
(* rules/decisions.toml whose trigger is the signal's and whose condition  *)
(* the signal meets.  A rule's condition is a function from the fields it  *)
(* has to the values they accept: for a pattern the texts it matches, for  *)
(* a confidence those that are high enough.  A pattern that does not       *)
(* compile accepts everything and is left out.  Titles, rationales and     *)
(* evidence are left out.                                                  *)
(***************************************************************************)
EXTENDS CodeGraphs

Unparsed == <<"unparsed">>

\* RuleLoader: one rule that does not parse empties the whole file, and no file is no rules.
load_rules(file) == IF file = Unparsed THEN <<>> ELSE file

trigger_kind(signal) ==
    IF signal.kind \in {"file_saved", "pattern_detected", "symbol_renamed"} THEN "file_save" ELSE signal.kind

accepts(rule, key, value) == key \in DOMAIN rule.condition => value \in rule.condition[key]

CommitKeywords == {"introduce", "use", "adopt", "switch to", "migrate to", "refactor"}

\* try_match_rule: which of a rule's fields are looked at depends on the signal, so a rule for
\* renamed symbols also takes every saved file.
match_rule(rule, signal) ==
    CASE signal.kind = "dependency_added" -> accepts(rule, "dependency_pattern", signal.name)
      [] signal.kind = "directory_created" -> accepts(rule, "path_pattern", signal.path)
      [] signal.kind = "file_saved" ->
           /\ accepts(rule, "file_pattern", signal.path) /\ accepts(rule, "path_pattern", signal.path)
           /\ accepts(rule, "language", signal.language)
           /\ "ast_pattern" \in DOMAIN rule.condition => rule.condition.ast_pattern \cap signal.tags # {}
      [] signal.kind = "file_moved" -> accepts(rule, "path_pattern", signal.path)
      [] signal.kind = "config_changed" ->
           accepts(rule, "file", signal.file) /\ accepts(rule, "key", signal.key) /\ accepts(rule, "value", signal.value)
      [] signal.kind = "endpoint_created" -> TRUE
      [] signal.kind = "pattern_detected" ->
           accepts(rule, "ast_pattern", signal.pattern) /\ accepts(rule, "min_confidence", signal.confidence)
      [] signal.kind = "git_commit" -> signal.words \cap CommitKeywords # {}
      [] signal.kind = "symbol_renamed" -> "ast_diff" \in DOMAIN rule.condition /\ "symbol_renamed" \in rule.condition.ast_diff

\* A decision is named after its rule and the millisecond.
decision_id(rule, now) == <<rule.id, now>>

\* Every rule that matches, not the first; a decision is a duplicate of one recorded for the
\* same rule in the same millisecond.
process_signal(rules, recorded, signal, now) ==
    SelectSeq(rules, LAMBDA rule : /\ rule.trigger = trigger_kind(signal)
                                   /\ match_rule(rule, signal)
                                   /\ decision_id(rule, now) \notin recorded)

Sections == <<"dependencies", "devDependencies">>

\* detect_new_dependencies: names and versions that differ from those of the last signals.  A
\* name that has two versions, one in each section, is new again at every scan.
detect_new_dependencies(package, previous) ==
    LET listed(section) ==
            LET deps == IF section \in DOMAIN package THEN package[section] ELSE <<>>
                new == {name \in DOMAIN deps : ~(name \in DOMAIN previous /\ previous[name] = deps[name])}
            IN  [i \in 1..Cardinality(new) |-> LET name == SetToSeq(new)[i] IN <<name, deps[name]>>]
    IN  listed(Sections[1]) \o listed(Sections[2])
=============================================================================
