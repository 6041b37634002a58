------------------------------ MODULE CodePatterns ------------------------------
(***************************************************************************)
(* What the observer says of a whole project: the patterns it detects      *)
(* (observer/patterns.rs) and the summary it calls code DNA                *)
(* (observer/dna.rs).                                                      *)
(*                                                                         *)
(* Files are what analyze_file of SyntaxTrees makes of them.  Confidences   *)
(* are in percent.                                                         *)
(***************************************************************************)
EXTENDS SyntaxTrees

functions_of(files) == FlattenSeq([i \in DOMAIN files |-> files[i].functions])

pattern(id, tier, confidence, occurrences, evidence) ==
    [id |-> id, tier |-> tier, confidence |-> confidence, occurrences |-> occurrences, files |-> Range(evidence)]

\* Of the files or functions with a trait, when there are enough: at most show as evidence.
All == 1000
detected(tier, files, rule) ==
    LET of_file == [i \in DOMAIN files |-> [traits |-> files[i].traits, file |-> files[i].path]]
        found == SelectSeq(IF rule.over = "files" THEN of_file ELSE functions_of(files),
                           LAMBDA x : rule.id \in x.traits)
        evidence == take([i \in DOMAIN found |-> found[i].file], rule.show)
    IN  IF Len(found) < rule.least THEN <<>>
        ELSE <<pattern(<<rule.id>>, tier, rule.confidence, Len(found), evidence)>>

row(id, over, least, confidence, show) ==
    [id |-> id, over |-> over, least |-> least, confidence |-> confidence, show |-> show]

\* One row per detector of detect_known_patterns, in its order.
first_rules(some) ==
    << row("singleton", "files", 1, 88, All), row("repository", "files", 1, 90, All),
       row("factory", "functions", 2, 82, 10), row("guard-clause", "functions", some, 95, 10) >>
middle_rules(some) ==
    << row("async-await", "functions", some, 98, 5), row("result-type", "functions", some, 75, 10),
       row("observer", "files", 1, 85, All), row("middleware", "functions", some, 87, 10) >>
last_rules(some) ==
    << row("decorator-hoc", "functions", some, 78, 10), row("strategy", "files", some, 70, All),
       row("input-validation", "functions", some, 92, 10), row("barrel-exports", "files", some, 95, All) >>

detect_known_patterns(files, min_occurrences) ==
    LET rules == first_rules(min_occurrences) \o middle_rules(min_occurrences) \o last_rules(min_occurrences)
    IN  FlattenSeq([i \in DOMAIN rules |-> detected("known", files, rules[i])])

\* The rules of the dependencies a package.json names that look at the files.  The pages
\* router is only reported without an app directory, and each router counts once.
framework_rules(dependencies) ==
    LET next == << row("nextjs-app-router", "files", 1, 95, 0), row("nextjs-pages-router", "files", 1, 95, 0),
                   row("server-components", "files", 1, 90, 5), row("server-actions", "files", 1, 95, 5),
                   row("client-components", "files", 1, 95, 5), row("api-routes", "files", 1, 90, 5) >>
        react == << row("custom-hooks", "functions", 1, 93, 10), row("ui-components", "files", 1, 90, 0) >>
        given(names, rules) == IF names \cap dependencies # {} THEN rules ELSE <<>>
    IN  given({"next"}, next) \o given({"react"}, react)
        \o given({"@prisma/client", "prisma"}, <<row("prisma-orm", "functions", 1, 92, 5)>>)

\* Those for which the dependency is enough, and calls that merge Tailwind's classes.
named_frameworks(dependencies, files) ==
    LET certain == {"tailwindcss", "vitest", "jest", "@playwright/test", "cypress"}
        likely == {"@trpc/", "express", "fastify", "hono", "zustand", "@reduxjs/toolkit", "jotai", "recoil", "mobx"}
        named == SetToSeq(dependencies \cap (certain \cup likely))
        calls == FlattenSeq([i \in DOMAIN functions_of(files) |-> functions_of(files)[i].calls])
        merging == Len(SelectSeq(calls, LAMBDA c : c \in {"cn", "clsx", "twMerge", "cva"}))
    IN  [i \in DOMAIN named |-> pattern(<<"framework", named[i]>>, "framework", IF named[i] \in certain THEN 95 ELSE 90, 1, <<>>)]
        \o IF "tailwindcss" \in dependencies /\ merging > 0
           THEN <<pattern(<<"tailwind-cn">>, "framework", 88, merging, <<>>)>> ELSE <<>>

detect_framework_patterns(dependencies, files) ==
    LET routers == {<<"nextjs-app-router">>, <<"nextjs-pages-router">>}
        rules == framework_rules(dependencies)
        of_files == FlattenSeq([i \in DOMAIN rules |-> detected("framework", files, rules[i])])
        single == [i \in DOMAIN of_files |-> IF of_files[i].id \in routers THEN [of_files[i] EXCEPT !.occurrences = 1]
                                             ELSE of_files[i]]
        app == \E i \in DOMAIN single : single[i].id = <<"nextjs-app-router">>
    IN  SelectSeq(single, LAMBDA p : ~(app /\ p.id = <<"nextjs-pages-router">>)) \o named_frameworks(dependencies, files)

\* A hundred times the natural logarithm of the size of a cluster of at most eight.
ln == <<0, 69, 110, 139, 161, 179, 195, 208>>

compute_cluster_confidence(size, total, complexity) ==
    Min({95, (3000 * size + (4 * ln[size] + 600 * Min({5, complexity})) * total + 50 * total) \div (100 * total)})

\* Items with the same key (a function of them), when there are enough of them; the clusters of a HashMap come
\* in any order, which SetToSeq fixes.
clusters(items, key, min_occurrences) ==
    LET members(k) == SelectSeq(items, LAMBDA x : key[x] = k)
    IN  SetToSeq({[key |-> k, members |-> members(k)] :
                     k \in {y \in Range(key) : Len(members(y)) >= min_occurrences}})

compute_shape_signature(f) ==
    [traits |-> f.traits \cap {"async-await", "guard-clause", "destructure", "try",
                               "input-validation", "logging", "throw", "result-type"},
     params |-> Min({4, f.params}), prefix |-> take(f.prefix, 3)]

\* The separators of the signature: one less than its parts.
shape_complexity(s) == Cardinality(s.traits) + Len(s.prefix)

discover_function_shapes(files, min_occurrences) ==
    LET all == functions_of(files)
        found == SelectSeq(clusters(all, [f \in Range(all) |-> compute_shape_signature(f)], min_occurrences),
                           LAMBDA c : shape_complexity(c.key) >= 2)
    IN  [i \in DOMAIN found |->
           pattern(<<"shape", found[i].key>>, "emergent",
                   compute_cluster_confidence(Len(found[i].members), Len(all), shape_complexity(found[i].key)),
                   Len(found[i].members), [j \in DOMAIN take(found[i].members, 10) |-> found[i].members[j].file])]

\* Files that share two local imports or more, or the verbs of what they export.
discover_shared(name, confidence, files, of, min_occurrences) ==
    LET found == clusters(files, of, min_occurrences)
    IN  [i \in DOMAIN found |->
           pattern(<<name, found[i].key>>, "emergent", confidence, Len(found[i].members),
                   [j \in DOMAIN take(found[i].members, 8) |-> found[i].members[j].path])]

discover_import_constellations(files, min_occurrences) ==
    LET count(f, m) == Cardinality({i \in DOMAIN f.imports : f.imports[i] = m})
        several == SelectSeq(files, LAMBDA f : Len(f.imports) >= 2)
    IN  discover_shared("imports", 72, several,
                        [f \in Range(several) |-> {<<m, count(f, m)>> : m \in Range(f.imports)}], min_occurrences)

verbs(f) == {f.export_names[i].verb : i \in DOMAIN f.export_names}

discover_export_shapes(files, min_occurrences) ==
    LET several == SelectSeq(files, LAMBDA f : Cardinality(verbs(f)) >= 2)
    IN  discover_shared("export", 68, several, [f \in Range(several) |-> verbs(f)], min_occurrences)

discover_error_patterns(files) ==
    LET all == functions_of(files)
        total == Len(all)
        tries == Len(SelectSeq(all, LAMBDA f : "try" \in f.traits))
        results == Len(SelectSeq(all, LAMBDA f : "result-type" \in f.traits))
        dominant == IF 10 * tries > 3 * total /\ tries > results
                    THEN <<pattern(<<"error-strategy-trycatch">>, "emergent", Min({95, (100 * tries) \div total}), tries, <<>>)>>
                    ELSE IF 100 * results > 15 * total
                    THEN <<pattern(<<"error-strategy-result">>, "emergent", Min({90, (200 * results) \div total}), results, <<>>)>>
                    ELSE <<>>
        mixed == IF 100 * tries > 15 * total /\ 10 * results > total
                 THEN <<pattern(<<"error-mixed">>, "emergent", 80, tries + results, <<>>)>> ELSE <<>>
    IN  IF total = 0 THEN <<>> ELSE dominant \o mixed

discover_sequence_patterns(files, min_occurrences) ==
    LET all == SelectSeq(functions_of(files), LAMBDA f : Len(f.prefix) >= 2)
        found == clusters(all, [f \in Range(all) |-> take(f.prefix, 3)], min_occurrences)
    IN  [i \in DOMAIN found |->
           pattern(<<"seq", found[i].key>>, "emergent",
                   compute_cluster_confidence(Len(found[i].members), Len(all), Len(found[i].key)),
                   Len(found[i].members), [j \in DOMAIN take(found[i].members, 8) |-> found[i].members[j].file])]

\* A pattern covers another with more than seven tenths of its evidence and more confidence.
covers(p, q) == /\ p.confidence > q.confidence
                /\ 10 * Cardinality(p.files \cap q.files) > 7 * Max({1, Cardinality(q.files)})

tier_priority(p) == IF p.tier = "known" THEN 0 ELSE IF p.tier = "framework" THEN 1 ELSE 2

\* fault-seeded: whatever came before covers, also what was dropped itself.
deduplicate_by_any(patterns) ==
    LET sorted == sorted_by(patterns, tier_priority)
        stays(j) == \A i \in 1..(j - 1) : sorted[i].id # sorted[j].id /\ ~covers(sorted[i], sorted[j])
    IN  [n \in 1..Cardinality({j \in DOMAIN sorted : stays(j)}) |->
           sorted[SetToSortSeq({j \in DOMAIN sorted : stays(j)}, <)[n]]]

deduplicate(patterns) ==
    FoldLeft(LAMBDA result, p :
                 IF \E k \in Range(result) : k.id = p.id \/ covers(k, p) THEN result ELSE Append(result, p),
             <<>>, sorted_by(patterns, tier_priority))

found_patterns(files, dependencies, min_occurrences) ==
    detect_known_patterns(files, min_occurrences) \o detect_framework_patterns(dependencies, files)
    \o (IF Len(functions_of(files)) < min_occurrences THEN <<>> ELSE discover_function_shapes(files, min_occurrences))
    \o discover_import_constellations(files, min_occurrences) \o discover_export_shapes(files, min_occurrences)
    \o discover_error_patterns(files) \o discover_sequence_patterns(files, min_occurrences)

\* The tiers are sorted by their names, so the emergent patterns come first.
analyze(files, dependencies, min_occurrences) ==
    sorted_by(deduplicate(found_patterns(files, dependencies, min_occurrences)),
              LAMBDA p : 1000000 * (IF p.tier = "emergent" THEN 0 ELSE IF p.tier = "framework" THEN 1 ELSE 2)
                         - 1000 * p.occurrences - p.confidence)

-----------------------------------------------------------------------------
(* Code DNA.  Features are records [language, tags, kind, exported,         *)
(* complexity]; a rule asks for a member of each of its sets that is not    *)
(* empty.                                                                   *)

rule_matches_common(rule, path, features) ==
    /\ rule.languages = {} \/ \E f \in Range(features) : f.language \in rule.languages
    /\ rule.paths = {} \/ path \in rule.paths
    /\ rule.kinds = {} \/ \E f \in Range(features) : f.kind \in rule.kinds
    /\ rule.exported = {} \/ \E f \in Range(features) : f.exported \in rule.exported

aggregate_pattern_signals(path, features, rules) ==
    UNION {f.tags : f \in Range(features)}
    \cup {r.tag : r \in {x \in rules : rule_matches_common(x, path, features)}}

\* The first rule that matches; tests, then shared libraries, are told by their paths.
categorize_file(path, features, signals, rules, tests, libraries) ==
    LET matching == {i \in DOMAIN rules :
                        /\ rule_matches_common(rules[i], path, features)
                        /\ rules[i].any = {} \/ rules[i].any \cap signals # {}
                        /\ rules[i].every \subseteq signals}
    IN  IF matching # {} THEN rules[Min(matching)].classify_as
        ELSE IF path \in tests \/ \E f \in Range(features) : "tests" \in f.tags THEN "tests"
        ELSE IF path \in libraries THEN "shared-library" ELSE "application-logic"

detect_architecture(categories, signals, g, depth, rules) ==
    LET count(m, v) == Cardinality({f \in DOMAIN m : v \in m[f]})
        dense == \E f \in DOMAIN g.in : Cardinality(g.in[f]) >= 5
        matching == {i \in DOMAIN rules :
                        /\ \A v \in DOMAIN rules[i].categories : count(categories, v) >= Max({1, rules[i].categories[v]})
                        /\ \A v \in DOMAIN rules[i].patterns : count(signals, v) >= Max({1, rules[i].patterns[v]})
                        /\ depth >= rules[i].min_depth
                        /\ rules[i].dense = {} \/ dense \in rules[i].dense}
    IN  IF matching # {} THEN rules[Min(matching)].architecture ELSE "modular-monolith"

\* Most matches, the earlier rule when there is a tie.
detect_error_handling(matches, rules) ==
    LET enough == {i \in DOMAIN rules : matches[i] >= Max({1, rules[i].min_matches})}
        best == {i \in enough : \A j \in enough : matches[j] <= matches[i]}
    IN  IF enough = {} THEN "mixed" ELSE rules[Min(best)].label

changed(recent, f) == Cardinality({i \in DOMAIN recent : recent[i] = f})

hot_score(f, complexity, g, recent) ==
    10 * changed(recent, f) + Cardinality(at(g.in, f)) + Cardinality(at(g.out, f)) + Min({25, complexity[f]})

rank_hot_zones(files, complexity, g, recent, limit) ==
    LET scored == SelectSeq(files, LAMBDA f : hot_score(f, complexity, g, recent) > 0)
    IN  take(sorted_by(scored, LAMBDA f : -hot_score(f, complexity, g, recent)), limit)

rank_stable_zones(files, exports, g, recent, limit) ==
    LET quiet == SelectSeq(files, LAMBDA f : changed(recent, f) = 0)
    IN  take(sorted_by(quiet, LAMBDA f : -(10 * Cardinality(at(g.in, f)) + Cardinality(at(g.out, f)) + exports[f])), limit)

\* Only pairs of files that import each other; a file that imports itself pairs with itself.
detect_circular_risks(out) == {{s, t} : <<s, t>> \in {e \in (DOMAIN out) \X (DOMAIN out) :
                                                        e[2] \in out[e[1]] /\ e[1] \in out[e[2]]}}

\* The depth-first search, with what was found of a file kept for later; files and imports
\* are visited in the order of their hashes.  max over the children, plus the file itself.
RECURSIVE dfs(_, _, _, _, _)
dfs(out, order, file, memo, visiting) ==
    IF file \in DOMAIN memo THEN [depth |-> memo[file], memo |-> memo]
    ELSE IF file \in visiting THEN [depth |-> 0, memo |-> memo]
    ELSE LET children == SelectSeq(order, LAMBDA f : f \in at(out, file))
             below == FoldLeft(LAMBDA acc, child :
                          LET r == dfs(out, order, child, acc.memo, visiting \cup {file})
                          IN  [depth |-> Max({acc.depth, r.depth}), memo |-> r.memo],
                        [depth |-> 0, memo |-> memo], children)
         IN  [depth |-> 1 + below.depth, memo |-> (file :> (1 + below.depth)) @@ below.memo]

deepest(out, order) ==
    FoldLeft(LAMBDA acc, file : LET r == dfs(out, order, file, acc.memo, {})
                                IN  [depth |-> Max({acc.depth, r.depth}), memo |-> r.memo],
             [depth |-> 0, memo |-> <<>>], SelectSeq(order, LAMBDA f : f \in DOMAIN out)).depth

max_dependency_depth(out, order) == Max({0, deepest(out, order) - 1})
===============================================================================
