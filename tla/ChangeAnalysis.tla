----------------------------- MODULE ChangeAnalysis -----------------------------
(***************************************************************************)
(* What the daemon concludes from one change of a file: the difference of  *)
(* its features (observer/differ.rs), the intent behind it                 *)
(* (intelligence/intent.rs), its impact (intelligence/autonomous.rs) and   *)
(* the risk of touching a file (intelligence/proactive.rs, risk/mod.rs).   *)
(*                                                                         *)
(* A feature is [name, body, tags, complexity].  Scores the code keeps as  *)
(* floats are counted in tenths or hundredths, which are exact here: the   *)
(* sums meet the thresholds in f32 as they do in decimals.                 *)
(***************************************************************************)
EXTENDS CodeGraphs

-----------------------------------------------------------------------------
(* The difference.  The map of the old features keeps the last of those     *)
(* that share a name.                                                       *)

by_name(features) == [n \in {features[i].name : i \in DOMAIN features} |->
                        features[Max({i \in DOMAIN features : features[i].name = n})]]

\* fault-seeded: the old feature is looked up and stays in the map.
looked_up(map, name) == map

\* HashMap::remove, after the lookup.
taken(map, name) == without(map, {name})

compute_diff(old, new) ==
    LET seen == FoldLeft(LAMBDA d, f :
                    IF f.name \notin DOMAIN d.old THEN [d EXCEPT !.added = Append(@, f)]
                    ELSE [d EXCEPT !.old = taken(@, f.name),
                                   !.modified = IF d.old[f.name].body # f.body THEN Append(@, f) ELSE @],
                    [old |-> by_name(old), added |-> <<>>, modified |-> <<>>], new)
    IN  [added |-> seen.added, modified |-> seen.modified, removed |-> Range(seen.old)]

\* The features of a name the file had before, the signature of which is another one; a
\* warning is stored when for one of them more than its visibility changed.  The signature and
\* the head without its visibility are functions of the body; a body may have no signature.
NoSignature == 0
detect_breaking_signatures(old, new, signature) ==
    LET before(f) == signature[by_name(old)[f.name].body]
    IN  {f \in Range(new) : /\ f.name \in DOMAIN by_name(old) /\ before(f) # signature[f.body]
                            /\ NoSignature \notin {before(f), signature[f.body]}}

emit_breaking_signature_warnings(old, breaking, head) ==
    old # <<>> /\ \E f \in breaking : head[by_name(old)[f.name].body] # head[f.body]

-----------------------------------------------------------------------------
(* The intent: votes in hundredths, by the kinds of the path (a set, what   *)
(* its text contains), by the sizes of the difference, by the tags.         *)

votes(path, diff) ==
    LET added == Len(diff.added)
        modified == Len(diff.modified)
        removed == Cardinality(diff.removed)
        total == added + modified + removed
        tags == UNION {f.tags : f \in Range(diff.added) \cup Range(diff.modified) \cup diff.removed}
        vote(condition, intent, weight) == IF condition THEN <<<<intent, weight>>>> ELSE <<>>
    IN  vote("api" \in path, "api_design", 30) \o vote("test" \in path, "testing", 35)
        \o vote("config" \in path, "configuration", 30) \o vote("migration" \in path, "scaffolding", 25)
        \o vote(added > 0 /\ removed = 0 /\ modified = 0, "scaffolding", 35)
        \o vote(removed > 0 /\ modified > 0 /\ added <= removed, "refactoring", 35)
        \o vote(modified > added /\ modified > removed, "bug_fixing", 35)
        \o vote(10 * added > 6 * total /\ added >= 3, "scaffolding", 25)
        \o vote("tests" \in tags, "testing", 20)
        \o vote({"repository", "service"} \cap tags # {}, "scaffolding", 15)
        \o vote({"edge-guards", "adapter"} \cap tags # {}, "api_design", 15)
        \o vote(total <= 2 /\ modified > 0 /\ added = 0 /\ removed = 0, "bug_fixing", 15)
        \o vote(removed >= 3 /\ added = 0, "refactoring", 15)

\* The totals are in a HashMap: which of several greatest ones comes out is open, so the
\* result is the set of pairs <<intent, confidence>> it may be.
resolve(cast) ==
    LET intents == {cast[i][1] : i \in DOMAIN cast}
        total == [n \in intents |-> FoldLeft(LAMBDA sum, v : IF v[1] = n THEN sum + v[2] ELSE sum, 0, cast)]
    IN  IF cast = <<>> THEN {<<"exploration", 25>>}
        ELSE {<<n, total[n]>> : n \in {m \in intents : \A k \in intents : total[k] <= total[m]}}

classify_with_confidence(path, diff) ==
    IF diff.added = <<>> /\ diff.modified = <<>> /\ diff.removed = {} THEN {<<"exploration", 25>>}
    ELSE {<<r[1], Min({95, Max({25, r[2]})})>> : r \in resolve(votes(path, diff))}

-----------------------------------------------------------------------------
(* The impact, in tenths.                                                   *)

severity(score) ==
    IF score >= 10 THEN "Critical" ELSE IF score >= 7 THEN "High"
    ELSE IF score >= 4 THEN "Medium" ELSE IF score > 0 THEN "Low" ELSE "None"

analyze_impact(g, file, diff) ==
    LET dependents == at(g.in, file)
        added == Len(diff.added)
        modified == Len(diff.modified)
        removed == Cardinality(diff.removed)
        score == 5 * removed + 3 * modified + (IF added > 0 THEN 1 ELSE 0)
        urgency == IF removed > 0 THEN "Critical" ELSE "High"
    IN  IF dependents = {} /\ added = 0 /\ removed = 0
        THEN [severity |-> "None", impacted |-> <<>>, risk |-> 0, recommendations |-> 1, change |-> "FunctionModified"]
        ELSE [severity |-> severity(score),
              impacted |-> [f \in IF removed + modified > 0 THEN dependents ELSE {} |-> urgency],
              risk |-> Min({10, score}),
              recommendations |-> removed + modified + (IF added > 0 THEN 1 ELSE 0),
              change |-> IF removed > 0 THEN "FunctionRemoved" ELSE IF added > 0 THEN "FunctionAdded"
                         ELSE "FunctionModified"]

record_change(history, file, diff, limit) ==
    LET longer == Append(history, [file |-> file, diff |-> diff])
    IN  IF Len(longer) > limit THEN Tail(longer) ELSE longer

\* A name that was modified in more than one file.
detect_conflicts(history) ==
    LET names == UNION {{f.name : f \in Range(history[i].diff.modified)} : i \in DOMAIN history}
        files(n) == {history[i].file : i \in {j \in DOMAIN history :
                        \E f \in Range(history[j].diff.modified) : f.name = n}}
    IN  {[name |-> n, files |-> files(n)] : n \in {m \in names : Cardinality(files(m)) > 1}}

predict_questions(g, history, file) ==
    LET dependents == Cardinality(at(g.in, file))
    IN  (IF dependents = 0 THEN {}
         ELSE {<<"dependency_warning", IF dependents > 5 THEN "high" ELSE "medium">>})
        \cup (IF \A i \in DOMAIN history : history[i].file # file THEN {} ELSE {<<"recent_changes", "low">>})

-----------------------------------------------------------------------------
(* The risk of a file.  Entries are [mentions, kind, tags, text].           *)

\* ProactiveWarner, in hundredths of 25 dependents.
assess_risk(file, entries, g, stable, hot) ==
    LET about(kinds, tags) == {i \in DOMAIN entries : /\ file \in entries[i].mentions /\ entries[i].kind \in kinds
                                                     /\ entries[i].tags \cap tags # {}}
        past_breaks == about({"warning"}, {"signature-change", "test-risk"})
        known_issues == about({"warning"}, {"warning", "issue"}) \cup about({"context", "fact"}, {"issue"})
        dependents == Cardinality(at(g.in, file))
        score == (35 * Min({25, dependents})) \div 25 + 6 * Min({5, Cardinality(past_breaks)})
                 + 4 * Min({5, Cardinality(known_issues)}) + (IF file \in stable THEN 10 ELSE 0)
                 + (IF file \in hot THEN 10 ELSE 0)
    IN  IF score < 35 THEN "none" ELSE IF score >= 75 THEN "checkpoint"
        ELSE IF score >= 55 THEN "review" ELSE "caution"

\* fault-seeded: the bands leave their common limit out.
apart(count) == IF count > 20 THEN 30 ELSE IF count > 10 /\ count < 20 THEN 15 ELSE 0

dependents_weight(count) == IF count > 20 THEN 30 ELSE IF count > 10 THEN 15 ELSE 0

\* RiskAnalyzer, over the tables [dependents, breakage, changes, issues, core] it keeps.
assess(tables, file) ==
    LET count == Cardinality(at(tables.dependents, file))
        changes == IF file \in DOMAIN tables.changes THEN tables.changes[file] ELSE 0
        weigh(condition, weight) == IF condition THEN weight ELSE 0
        score == dependents_weight(count) + weigh(file \in tables.breakage, 25) + weigh(changes > 10, 15)
                 + weigh(file \in tables.core, 20) + weigh(at(tables.issues, file) # {}, 10)
    IN  [score |-> score, stability |-> Max({0, 100 - score}),
         level |-> IF score <= 20 THEN "Low" ELSE IF score <= 40 THEN "Medium"
                   ELSE IF score <= 70 THEN "High" ELSE "Critical"]

\* Only files something depends on.
get_high_risk_files(tables) ==
    {f \in DOMAIN tables.dependents : assess(tables, f).level \in {"High", "Critical"}}

\* SessionScorer: the compliance stops at 0, the penalty at 255.
calculate_score(contradictions, reverted) ==
    [compliance |-> Max({0, Max({0, 100 - Min({255, 15 * contradictions})}) - Min({255, 5 * reverted})}),
     penalty |-> Min({255, 20 * contradictions + 10 * reverted})]
===============================================================================
