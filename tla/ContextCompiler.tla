---------------------------- MODULE ContextCompiler ----------------------------
(***************************************************************************)
(* The passes of the context compiler (context/mod.rs): which files matter *)
(* to the active one, what is kept of them, of the history and of the rule *)
(* files, how the sections are ranked, and which of them fit the budget.   *)
(* Texts are abstracted to the set of words looked for in them and to      *)
(* their number of tokens.                                                 *)
(***************************************************************************)
EXTENDS CodeGraphs

\* pass_dead_context_elimination: files within max_depth edges, in either direction.
relevant_files(g, active, max_depth) ==
    LET both == [f \in nodes_of(g.out) \cup {active} |-> related_files(g, f)]
        depth == distances(both, active)
    IN  Restrict(depth, {f \in DOMAIN depth : depth[f] <= max_depth})

\* Features are records [name, type, exported, complexity]; bodies are only kept of the
\* active file, those of the two most complex features.
build_code_skeleton(active, path, features) ==
    LET by_complexity == SortSeq(features, LAMBDA a, b : a.complexity > b.complexity)
    IN  [path |-> path,
         signatures |-> {f.name : f \in {x \in Range(features) : ~x.type}},
         types |-> {f.name : f \in {x \in Range(features) : x.type}},
         exports |-> {f.name : f \in {x \in Range(features) : x.exported}},
         full_functions |-> IF path # active THEN <<>>
                            ELSE [i \in 1..Min({2, Len(features)}) |-> by_complexity[i].name]]

\* Entries are the sets of names they mention.  Three hits, of the path or of exported
\* names, and the skeleton is cut to three signatures; names are numbers.
coverage_hits(skeleton, entries) ==
    LET hits(e) == Cardinality(e \cap ({skeleton.path} \cup skeleton.exports))
    IN  FoldSeq(LAMBDA e, n : n + hits(e), 0, entries)

pass_brain_dedup(skeleton, entries) ==
    IF coverage_hits(skeleton, entries) < 3 THEN skeleton
    ELSE [skeleton EXCEPT !.full_functions = <<>>,
            !.signatures = {s \in @ : Cardinality({t \in @ : t < s}) < 3}]

is_empty(skeleton) == skeleton.signatures \cup skeleton.types \cup skeleton.exports = {}

\* The last four records as they are, the rest as a summary.
pass_history_compaction(history) ==
    LET split == Max({0, Len(history) - 4})
        older == SubSeq(history, 1, split)
        mutations == SelectSeq(older, LAMBDA r : r.kind = "AstMutation")
        intents == SelectSeq(older, LAMBDA r : r.kind = "IntentDetected")
        summary == [id |-> <<"history:summary", 0>>, priority |-> 55, mutations |-> Len(mutations),
                    files |-> {r.about : r \in Range(mutations)}, intents |-> {r.about : r \in Range(intents)}]
        recent == [id |-> <<"history:recent", 0>>, priority |-> 80, lines |-> SubSeq(history, split + 1, Len(history))]
    IN  IF history = <<>> THEN <<>> ELSE IF split = 0 THEN <<recent>> ELSE <<summary, recent>>

\* A rule file is a sequence of lines, a line the set of its words.  With nothing matched
\* the head of the file stands for it, or nothing when there was a query.
prune_rules_content(lines, keywords, query, head_lines, max_lines) ==
    LET matched == SelectSeq(lines, LAMBDA l : l \cap (keywords \cup query) # {})
    IN  IF matched # <<>> THEN take(matched, max_lines)
        ELSE IF query = {} THEN take(lines, head_lines) ELSE <<>>

\* Ten points for all the terms of the query, rounded half up.
query_boost(words, terms) ==
    IF terms = {} THEN 0
    ELSE (20 * Cardinality(words \cap terms) + Cardinality(terms)) \div (2 * Cardinality(terms))

saturating_add(a, b) == Min({255, a + b})

\* A code skeleton: the structural boost is capped at 100, the query's is not.
skeleton_priority(active, boost, words, terms) ==
    saturating_add(Min({100, (IF active THEN 95 ELSE 72) + boost}), query_boost(words, terms))

index_priority(layer, words, terms) ==
    saturating_add(IF layer = "fsi" THEN 85 ELSE 78, query_boost(words, terms))

\* sort_by keeps the order of sections that compare equal.
pass_priority_ranking(sections) ==
    LET before(i, j) == \/ sections[i].priority > sections[j].priority
                        \/ sections[i].priority = sections[j].priority
                           /\ \/ sections[i].tokens < sections[j].tokens
                              \/ sections[i].tokens = sections[j].tokens /\ i < j
        rank(i) == 1 + Cardinality({j \in DOMAIN sections : before(j, i)})
    IN  [r \in DOMAIN sections |-> sections[CHOOSE i \in DOMAIN sections : rank(i) = r]]

\* fault-seeded: a section must leave something of the capacity.
fits_strictly(tokens, cap) == tokens < cap
fits(tokens, cap) == tokens <= cap

worth(section) == section.priority * 100 + 1

\* The knapsack: best[i][cap] is the best worth of the first i sections in cap tokens.
best_worth(ranked, budget) ==
    LET best[i \in 0..Len(ranked)] ==
            IF i = 0 THEN [cap \in 0..budget |-> 0]
            ELSE [cap \in 0..budget |->
                    IF fits(ranked[i].tokens, cap)
                    THEN Max({best[i - 1][cap], best[i - 1][cap - ranked[i].tokens] + worth(ranked[i])})
                    ELSE best[i - 1][cap]]
    IN  best

\* The choice is read back from the last section to the first: what is taken of the last k
\* sections, and the capacity they leave.
chosen_sections(ranked, budget) ==
    LET best == best_worth(ranked, budget)
        n == Len(ranked)
        chosen[k \in 0..n] ==
            IF k = 0 THEN [taken |-> {}, cap |-> budget]
            ELSE LET after == chosen[k - 1]
                     i == n - k + 1
                 IN  IF best[i][after.cap] = best[i - 1][after.cap] THEN after
                     ELSE [taken |-> after.taken \cup {i}, cap |-> after.cap - ranked[i].tokens]
    IN  chosen[n]

\* What is selected, by its place in the ranking, and the ids that are left out.
pass_budget_fitting(ranked, budget) ==
    LET chosen == chosen_sections(ranked, budget)
        ids(places) == {ranked[i].id : i \in places}
    IN  [selected |-> chosen.taken,
         omitted |-> ids(DOMAIN ranked) \ ids(chosen.taken),
         total_tokens |-> budget - chosen.cap]

\* The same knapsack as a request of its own: what is empty or too large is no candidate.
optimize_tokens(sections, budget) ==
    LET candidates == SelectSeq(sections, LAMBDA s : s.tokens \in 1..budget)
        fitted == pass_budget_fitting(candidates, budget)
    IN  [candidates |-> candidates, selected |-> fitted.selected, total_tokens |-> fitted.total_tokens,
         sections_count |-> Len(IF budget = 0 THEN sections ELSE candidates)]

-----------------------------------------------------------------------------
(* The whole compilation.  A project is [g, features, entries, history,     *)
(* rules, index, causal, boost, tokens, words]: features of the files that  *)
(* can be parsed, the rule files there are in the order they are looked     *)
(* for, the skeleton index, the structural boost of a file, and the tokens  *)
(* and words of a section by its id.  An id is the kind of the section and  *)
(* a number for the file, the rule file or the entry of the index.          *)

\* The first of equal items stays.
distinct(listed) == FoldLeft(LAMBDA out, x : IF x \in Range(out) THEN out ELSE Append(out, x), <<>>, listed)

rule_file_candidates(listed) == distinct(listed)

task_keywords == [new_feature |-> {"pattern", "architecture", "memory", "auto-save", "agent"},
                  bugfix |-> {"warning", "issue", "debug", "safety", "agent"},
                  refactor |-> {"dependency", "decision", "pattern", "architecture", "agent"},
                  code_review |-> {"pattern", "convention", "warning", "safety", "agent"},
                  unknown |-> {"memory", "pattern", "agent"}]

\* A rule section is named after its file, without the directory.
pass_rules_pruning(project, task_type, query) ==
    LET kept_lines(r) == prune_rules_content(r.lines, task_keywords[task_type], query, 30, 80)
        found == SelectSeq(rule_file_candidates(project.rules), LAMBDA r : kept_lines(r) # <<>>)
    IN  [i \in DOMAIN found |-> [id |-> <<"rules", found[i].name>>, priority |-> 70]]

\* Files that cannot be parsed, or in which nothing is found, have no skeleton.
pass_skeleton_extraction(project, active, files) ==
    LET parsed == SelectSeq(files, LAMBDA f : f \in DOMAIN project.features /\ project.features[f] # <<>>)
    IN  [i \in DOMAIN parsed |-> build_code_skeleton(active, parsed[i], project.features[parsed[i]])]

sections_of(project, request, skeletons, history, rules) ==
    LET terms == request.query
        section(id, kind, priority) ==
            [id |-> id, kind |-> kind, priority |-> priority, tokens |-> project.tokens[id]]
        active == <<section(<<"active:file", 0>>, "active-context", 100)>>
        causal == IF project.causal THEN <<section(<<"causal", 0>>, "causal-chain", 95)>> ELSE <<>>
        code == [i \in DOMAIN skeletons |->
                   LET id == <<"code", skeletons[i].path>>
                   IN  section(id, "code-skeleton",
                               skeleton_priority(skeletons[i].path = request.active,
                                                 project.boost[skeletons[i].path], project.words[id], terms))]
        indexed == SelectSeq(project.index, LAMBDA e : ~e.generated)
        index == [i \in DOMAIN indexed |->
                    section(indexed[i].id, indexed[i].layer,
                            index_priority(indexed[i].layer, project.words[indexed[i].id], terms))]
        others == history \o rules
    IN  active \o causal \o code \o index
        \o [i \in DOMAIN others |-> section(others[i].id, "other", others[i].priority)]

compile(project, request) ==
    LET relevant == relevant_files(project.g, request.active, request.max_depth)
        files == sorted_by(SetToSeq(DOMAIN relevant), LAMBDA f : relevant[f])
        skeletons == SelectSeq([i \in DOMAIN pass_skeleton_extraction(project, request.active, files) |->
                                  pass_brain_dedup(pass_skeleton_extraction(project, request.active, files)[i],
                                                   project.entries)],
                               LAMBDA k : ~is_empty(k))
        ranked == pass_priority_ranking(sections_of(project, request, skeletons,
                                                    pass_history_compaction(project.history),
                                                    pass_rules_pruning(project, request.task_type, request.query)))
    IN  IF request.budget = 0 THEN [ranked |-> <<>>, selected |-> {}, omitted |-> {}, total_tokens |-> 0]
        ELSE [ranked |-> ranked] @@ pass_budget_fitting(ranked, request.budget)

\* Orchestrator: deeper than the panel, with the prompt as the query; the files it names are
\* those of the code sections, and the ratio is in percent.
enhance(project, request, naive_estimate) ==
    LET compiled == compile(project, request)
        taken == {compiled.ranked[i] : i \in compiled.selected}
    IN  [relevant_files |-> {s.id[2] : s \in {x \in taken : x.kind = "code-skeleton"}},
         ratio |-> IF compiled.total_tokens = 0 THEN 100 ELSE (100 * naive_estimate) \div compiled.total_tokens]

-----------------------------------------------------------------------------
(* BudgetContextCompiler (context/compiler.rs): phase after phase, each     *)
(* item is taken when it fits what is left.  Items are [text, tokens],      *)
(* tokens of the brain entries it gave before stay in brain_content.        *)

take_fitting(packet, items, source, budget) ==
    FoldLeft(LAMBDA p, x : IF p.total + x.tokens > budget THEN p
                           ELSE [p EXCEPT !.total = @ + x.tokens, !.sections = Append(@, [source |-> source, of |-> x])],
             packet, items)

\* An entry is only looked up among those given before when it fits.
take_fresh(packet, entries, budget) ==
    FoldLeft(LAMBDA p, x : IF p.total + x.tokens > budget \/ x.text \in p.brain THEN p
                           ELSE [take_fitting(p, <<x>>, "brain", budget) EXCEPT !.brain = @ \cup {x.text}],
             packet, entries)

budget_compile(brain_content, request, budget, weights) ==
    LET none == [total |-> 0, sections |-> <<>>, brain |-> brain_content]
        current == take_fitting(take_fresh(none, request.brain, budget), request.current, "current", budget)
        related == SelectSeq(request.related, LAMBDA x : [source |-> "current", of |-> x] \notin Range(current.sections))
        files == take_fitting(current, distinct(related), "related", budget)
        rules == take_fitting(files, request.rules, "rules", budget)
    IN  [take_fitting(rules, request.issues, "issues", budget)
           EXCEPT !.sections = sorted_by(@, LAMBDA x : -weights[x.source])]

-----------------------------------------------------------------------------
(* HierarchyResolver (context/hierarchy.rs).  Layers [priority, mode,       *)
(* patterns, rules, file_map] that apply to the path are processed from the *)
(* most specific one on; decisions are treated like patterns, known issues  *)
(* like rules.                                                              *)

\* fault-seeded: what was not seen before the layer.
not_before(patterns, seen) == SelectSeq(patterns, LAMBDA p : p \notin seen)

unseen(patterns, seen) == SelectSeq(distinct(patterns), LAMBDA p : p \notin seen)

apply_layer(c, layer) ==
    LET fresh == unseen(layer.patterns, c.seen)
    IN  CASE layer.mode = "Merge" ->
               [patterns |-> c.patterns \o fresh, seen |-> c.seen \cup Range(fresh),
                rules |-> c.rules \o layer.rules, file_map |-> layer.file_map @@ c.file_map,
                conflicts |-> c.conflicts + Len(layer.patterns) - Len(fresh)]
          [] layer.mode = "Override" ->
               [patterns |-> layer.patterns, seen |-> Range(layer.patterns), rules |-> layer.rules,
                file_map |-> layer.file_map, conflicts |-> c.conflicts]
          [] layer.mode = "Extend" ->
               [c EXCEPT !.patterns = layer.patterns \o @, !.rules = layer.rules \o @,
                         !.file_map = layer.file_map @@ @]

resolve_layers(layers) ==
    FoldLeft(apply_layer, [patterns |-> <<>>, seen |-> {}, rules |-> <<>>, file_map |-> <<>>, conflicts |-> 0],
             sorted_by(layers, LAMBDA l : -l.priority))
===============================================================================
