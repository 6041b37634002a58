-------------------------------- MODULE Analysis --------------------------------
(***************************************************************************)
(* The larger algorithms of the daemon, each run on every input of a small *)
(* space.  The properties compare the answer with what its reader takes it *)
(* for, stated without the algorithm.  Those that are proved are in        *)
(* Verdicts.                                                               *)
(***************************************************************************)
EXTENDS CodePatterns, ContextCompiler, BrainQueries, Answers

CONSTANTS
    Nodes,       \* files of a graph
    MaxFiles,    \* files analysed for patterns
    MaxTokens    \* tokens of a section

ASSUME AnalysisConstants ==
    /\ IsFiniteSet(Nodes) /\ Nodes # {}
    /\ {MaxFiles, MaxTokens} \subseteq Nat

Graphs(nodes) == [nodes -> SUBSET nodes]
Loopless(nodes) == {out \in Graphs(nodes) : \A f \in nodes : f \notin out[f]}
mirror(out) == [f \in DOMAIN out |-> {g \in DOMAIN out : f \in out[g]}]
First == CHOOSE f \in Nodes : TRUE
Fewer == Nodes \ {CHOOSE f \in Nodes \ {First} : TRUE}

-----------------------------------------------------------------------------
(* Inputs.                                                                  *)

GraphTask == \E out \in Loopless(Nodes), depth \in 0..2 :
    task = [kind |-> "graph", out |-> out, depth |-> depth]

\* Any order in which the hashes make the search visit the files.
DepthTask == \E out \in Graphs(Fewer), order \in SetToSeqs(Fewer) :
    task = [kind |-> "depth", out |-> out, order |-> order]

\* Parts of syntax trees.
tree(kind, field, name, words, kids) ==
    [kind |-> kind, field |-> field, name |-> name, words |-> words, kids |-> kids]
called(text, verb, parts) == [text |-> text, verb |-> verb, parts |-> parts]
nameless == called("", "", {})
leaf(kind, words) == tree(kind, "", nameless, words, <<>>)
function(kind, field, name, words, params, body) ==
    tree(kind, field, name, words, <<tree("formal_parameters", "parameters", nameless, {}, params),
                                     tree("statement_block", "body", nameless, {}, body)>>)
declared(name, body) == function("function_declaration", "", name, {}, <<>>, body)
bound(name, words, params, body) ==
    tree("lexical_declaration", "", nameless, {},
         <<tree("variable_declarator", "", name, {}, <<function("arrow_function", "value", nameless, words, params, body)>>)>>)
class(name, body) ==
    tree("class_declaration", "", called("C", "c", {}), {},
         <<tree("class_body", "body", nameless, {}, <<function("method_definition", "", name, {}, <<>>, body)>>)>>)
exporting(node) == tree("export_statement", "", nameless, {}, <<node>>)

\* Files of one or two functions, and what their paths say.
guard == tree("if_statement", "", nameless, {}, <<tree("block", "consequence", nameless, {}, <<leaf("return_statement", {})>>)>>)
handles == <<tree("identifier", "", called("req", "req", {"req"}), {}, <<>>), tree("identifier", "", called("res", "res", {"res"}), {}, <<>>)>>
source_files ==
    LET local(m) == tree("import_statement", "", called(m, m, {}), {"local"}, <<>>)
        file(places, kids) == [places |-> {"ts"} \cup places, kids |-> kids]
    IN  { file({}, << local("db"), local("log"), exporting(leaf("export_clause", {})),
                      exporting(bound(called("getUser", "get", {"get"}), {}, handles, <<guard, leaf("try_statement", {})>>)),
                      exporting(bound(called("setUser", "set", {"delete"}), {}, <<>>, <<>>)) >>),
          file({"app/"}, << local("db"), local("log"),
                            bound(called("userHandler", "user", {"handler"}), {}, handles,
                                  <<guard, leaf("return_statement", {"{", "data"})>>) >>),
          file({"pages/"}, << bound(called("pageStrategy", "page", {"strategy"}), {"async"}, handles, <<leaf("try_statement", {})>>),
                              declared(called("cn", "cn", {}), <<>>) >>) }

PatternTask ==
    \E files \in UNION {[1..n -> source_files] : n \in 1..MaxFiles}, named \in SUBSET {"next", "zustand"} :
        task = [kind |-> "patterns", dependencies |-> named,
                entries |-> [i \in DOMAIN files |->
                    [path |-> i, places |-> files[i].places, readable |-> TRUE, large |-> FALSE,
                     tree |-> tree("program", "", nameless, {}, files[i].kids)]]]

\* Two declarations, each with another one in it or not, exported or not.
forms(name, body) == {declared(name, body), bound(name, {}, <<>>, body), class(name, body)}
SourceTask ==
    LET inside(i) == {<<>>} \cup {<<f>> : f \in forms(called(<<"f", "g">>[i], "x", {}), <<>>)}
        outside(i) == UNION {forms(called(<<"F", "G">>[i], "x", {}), body) : body \in inside(i)}
        given(i) == outside(i) \cup {exporting(f) : f \in outside(i)}
    IN  \E first \in given(1), second \in given(2) :
            task = [kind |-> "source", tree |-> tree("program", "", nameless, {}, <<first, second>>)]

\* A project of two files, one of which may be open, with rule files that share a name.
CompileTask ==
    \E linked \in BOOLEAN, budget \in 0..(3 * MaxTokens), size \in [{"code", "rules", "index"} -> 1..MaxTokens],
       covered \in 0..3, query \in {{}, {"agent"}} :
        task = [kind |-> "compile",
                project |->
                  [g |-> IF linked THEN add_dependency(NoEdges, 1, 2) ELSE NoEdges,
                   features |-> [f \in {1, 2} |-> <<[name |-> 10 * f, type |-> FALSE, exported |-> TRUE, complexity |-> f]>>],
                   entries |-> [e \in 1..covered |-> {10}], history |-> <<>>,
                   rules |-> <<[name |-> 1, dir |-> "a", lines |-> <<{"agent"}>>],
                               [name |-> 1, dir |-> "b", lines |-> <<{"agent"}, {"style"}>>],
                               [name |-> 2, dir |-> "b", lines |-> <<{"style"}>>]>>,
                   index |-> <<[id |-> <<"fsi", 1>>, layer |-> "fsi", generated |-> FALSE],
                               [id |-> <<"fusi", 2>>, layer |-> "fusi", generated |-> TRUE]>>,
                   causal |-> linked, boost |-> [f \in {1, 2} |-> 5 * f],
                   tokens |-> (<<"active:file", 0>> :> 1) @@ (<<"causal", 0>> :> 2) @@ (<<"fsi", 1>> :> size.index)
                              @@ [id \in {"code"} \X {1, 2} |-> size.code]
                              @@ [id \in {"rules"} \X {1, 2} |-> size.rules],
                   words |-> (<<"fsi", 1>> :> {"agent"}) @@ [id \in {"code"} \X {1, 2} |-> IF id[2] = 1 THEN {"agent"} ELSE {}]],
                request |-> [active |-> 1, budget |-> budget, max_depth |-> 2, query |-> query, task_type |-> "bugfix"]]

\* Layers that apply to a path, the least specific first.
LayerTask == \E n \in 1..3 : \E modes \in [1..n -> {"Merge", "Override", "Extend"}],
                              patterns \in [1..n -> {<<>>, <<1>>, <<2, 1>>, <<2, 2>>}] :
    task = [kind |-> "layers",
            layers |-> [i \in 1..n |-> [priority |-> i, mode |-> modes[i], patterns |-> patterns[i],
                                        rules |-> <<i>>, file_map |-> Head(patterns[i] \o <<0>>) :> i]]]

ProfileTask == \E out \in Loopless(Fewer), recent \in UNION {[1..n -> Fewer] : n \in 0..3}, tagged \in {{}, {First}, Fewer} :
    task = [kind |-> "profile", out |-> out, recent |-> recent, tagged |-> tagged]

\* Four entries, each with a parent or none, or a line of eight; one entry may be superseded,
\* by one that is gone (0) as well.
parted(parent, superseded, by) ==
    [i \in DOMAIN parent |-> [r \in Relations |-> CASE r = "parent" -> parent[i]
                                                [] r = "superseded_by" /\ i = superseded -> by
                                                [] OTHER -> {}]]
ChainTask ==
    \E depth \in {0, 2, 7} :
       \/ \E parent \in [1..4 -> {{}} \cup {{i} : i \in 1..4}], by \in {{}, {0}, {3}} :
             task = [kind |-> "chain", depth |-> depth, entries |-> parted(parent, 1, by)]
       \/ \E i \in 1..8, by \in {{j} : j \in 0..8} :
             task = [kind |-> "chain", depth |-> depth, entries |-> parted([k \in 1..8 |-> {k - 1}], i, by)]

\* Up to three projects, each with the entry 1 or without it.
json(kind, of) == [kind |-> kind, of |-> of]
InheritTask ==
    LET scalar(i) == json("scalar", i)
        list == {json("array", <<1>>), json("array", <<2, 1>>)}
        object(i) == {json("object", f) : f \in UNION {[keys -> {scalar(i)} \cup list] : keys \in SUBSET {"a", "b"}}}
        given(i) == {<<>>, 1 :> scalar(i)} \cup {1 :> o : o \in object(i)}
    IN  \E n \in 1..3, merge \in BOOLEAN : \E layers \in [1..n -> UNION {given(i) : i \in 1..2}] :
            task = [kind |-> "inherit", merge |-> merge,
                    layers |-> [i \in 1..n |-> [project |-> i, entries |-> layers[i]]]]

\* Recorded prompts, and how many of some projects list a preference.
Prompts == [task : {"fix", "add"}, model : {"m"}, sections : {<<>>, <<1>>, <<1, 2>>}, tokens : {1, 4},
            outcome : {"SuccessFirstTry", "Failed"}]
LearnTask == \/ \E records \in UNION {[1..n -> Prompts] : n \in 0..2} : task = [kind |-> "prompts", records |-> records]
             \/ \E n \in 0..6, some \in 0..6 : task = [kind |-> "projects", projects |-> n, listing |-> Min({n, some})]

Init == /\ answer = <<>>
        /\ \/ GraphTask \/ DepthTask \/ PatternTask \/ SourceTask
           \/ CompileTask \/ ProfileTask \/ LayerTask
           \/ ChainTask \/ InheritTask \/ LearnTask

-----------------------------------------------------------------------------
Measure == Answer("graph", [betweenness |-> compute_betweenness(task.out),
                            groups |-> circular_groups(task.out),
                            pairs |-> detect_circular_risks(task.out),
                            order |-> topological_order(task.out),
                            blast |-> compute_blast_radius(mirror(task.out), First, task.depth),
                            impact |-> get_impact(mirror(task.out), First)])

Deepen == Answer("depth", max_dependency_depth(task.out, task.order))

Detect == Answer("patterns", LET files == scan_and_parse(task.entries)
                             IN  [found |-> Range(found_patterns(files, task.dependencies, 2)),
                                  reported |-> analyze(files, task.dependencies, 2)])

Read == Answer("source", analyze_file("main.ts", {"ts"}, task.tree))

\* The same budget, spent by the other compiler on entries, files, rules and issues.
spent(project, request) ==
    LET item(text, kind) == [text |-> text, tokens |-> project.tokens[<<kind, 1>>]]
        given == [brain |-> <<item(1, "fsi"), item(1, "fsi"), item(2, "rules")>>, current |-> <<item(3, "code")>>,
                  related |-> <<item(3, "code"), item(4, "code"), item(4, "code")>>, rules |-> <<item(5, "rules")>>,
                  issues |-> <<item(6, "rules")>>]
    IN  budget_compile({2}, given, request.budget,
                       [brain |-> 100, current |-> 90, related |-> 60, rules |-> 70, issues |-> 50])

Compile == Answer("compile",
    LET compiled == compile(task.project, task.request)
    IN  compiled @@ [enhanced |-> enhance(task.project, task.request, 10), packet |-> spent(task.project, task.request),
                     optimized |-> optimize_tokens(compiled.ranked, task.request.budget)])

Resolve == Answer("layers", resolve_layers(task.layers))

\* Files with a repository in them, of which a rule makes data access, and two make a style.
dna_rule(any) == [languages |-> {"ts"}, paths |-> {}, kinds |-> {}, exported |-> {}, any |-> any, every |-> {},
                  classify_as |-> "data-access", tag |-> "typed"]
dna_style(signal, depth, name) == [categories |-> "data-access" :> 1, patterns |-> signal :> 2, min_depth |-> depth,
                                   dense |-> {}, architecture |-> name]
profiled(t) ==
    LET g == [out |-> t.out, in |-> mirror(t.out)]
        features(f) == <<[language |-> "ts", kind |-> "function", exported |-> TRUE,
                          tags |-> IF f \in t.tagged THEN {"repository"} ELSE {}]>>
        signals == [f \in Fewer |-> aggregate_pattern_signals(f, features(f), {dna_rule({})})]
        categories == [f \in Fewer |-> {categorize_file(f, features(f), signals[f], <<dna_rule({"repository"})>>, {}, {First})}]
        depth == max_dependency_depth(t.out, SetToSeq(Fewer))
        matches == <<Cardinality(t.tagged), Len(t.recent)>>
    IN  [hot |-> rank_hot_zones(SetToSeq(Fewer), [f \in Fewer |-> 1], g, t.recent, 2),
         stable |-> rank_stable_zones(SetToSeq(Fewer), [f \in Fewer |-> 0], g, t.recent, 2),
         top |-> top_files(t.out, 2), categories |-> categories,
         architecture |-> detect_architecture(categories, signals, g, depth,
                              <<dna_style("typed", 2, "layered"), dna_style("repository", 0, "repository")>>),
         errors |-> detect_error_handling(matches, <<[min_matches |-> 0, label |-> "result"], [min_matches |-> 2, label |-> "try"]>>)]

Profile == Answer("profile", profiled(task))

Chain == Answer("chain", get_reasoning_chain(task.entries, 1, task.depth))

Inherit == Answer("inherit", resolve_brain_hierarchy(task.layers, 1, task.merge))

Advise == Answer("prompts", suggest_context("fix", task.records) @@ [performance |-> model_performance(task.records)])

\* The first so many of n projects list a preference, an entry of their stack and a style.
listed_by(n, some) ==
    [p \in 1..n |-> [list \in {"preferences", "tech_stack", "code_style"} |-> IF p <= some THEN {"x"} ELSE {}]]
Learn == Answer("projects", compute_developer_profile(listed_by(task.projects, task.listing)))

Next == Measure \/ Deepen \/ Detect \/ Read \/ Compile \/ Profile \/ Resolve
        \/ Chain \/ Inherit \/ Advise \/ Learn

Spec == Init /\ [][Next]_answerVars

-----------------------------------------------------------------------------
\* Paths without a repeated file, and the shortest of them from s to t.
Paths(nodes) == UNION {Injection(1..n, nodes) : n \in 1..Cardinality(nodes)}
along(out, p) == \A i \in 1..(Len(p) - 1) : p[i + 1] \in out[p[i]]
joining(out, s, t) == {p \in Paths(DOMAIN out) : p[1] = s /\ p[Len(p)] = t /\ along(out, p)}
shortest(paths) == {p \in paths : \A q \in paths : Len(p) <= Len(q)}

(* "how many shortest paths pass through each file" (importance.rs): for    *)
(* every pair of files the share of its shortest paths that pass through a  *)
(* third one.  The critical path of a file is a chain of imports that lead  *)
(* to it, and nothing affected is further away than its end.  Files that    *)
(* import each other are in one circular group.  The impact that is         *)
(* reported names the files from which the file is reached, the urgent ones *)
(* being those that import it.                                              *)
GraphMeasured == answered("graph") =>
    LET paths == {p \in Paths(Nodes) : along(task.out, p)}
        between(s, t) == shortest({p \in paths : p[1] = s /\ p[Len(p)] = t})
        share(v, ps) == IF ps = {} THEN 0
                        ELSE (Unit * Cardinality({p \in ps : v \in Range(p)})) \div Cardinality(ps)
        affected == result.blast.affected
        chain == result.blast.critical_path
    IN  /\ \A v \in Nodes :
             LET others == (Nodes \ {v}) \X (Nodes \ {v})
             IN  result.betweenness[v] =
                   MapThenSumSet(LAMBDA e : share(v, between(e[1], e[2])), {e \in others : e[1] # e[2]})
        /\ chain[1] = First /\ along(mirror(task.out), chain)
        /\ \A f \in DOMAIN affected : affected[f] < Len(chain)
        /\ \A pair \in result.pairs : \E c \in result.groups : pair \subseteq c
        /\ DOMAIN result.impact.impacted = {f \in Nodes \ {First} : between(f, First) # {}}
        /\ {f \in DOMAIN result.impact.impacted : result.impact.impacted[f] = "High"} = {f \in Nodes : First \in task.out[f]}

(* "Max dependency depth", whatever order the files are visited in: without *)
(* a cycle the length of the longest chain of imports, and with one no more *)
(* than a chain of all the files has.                                       *)
DepthExact == answered("depth") =>
    LET chains == {p \in Paths(Fewer) : along(task.out, p)}
        longest == Max({Len(p) - 1 : p \in chains})
        cyclic == \E f \in Fewer : \E g \in task.out[f] : joining(task.out, g, f) # {}
    IN  IF cyclic THEN result <= Cardinality(Fewer) - 1 ELSE result = longest

(* In the profile of a project a file that outdoes another in changes and   *)
(* links is not ranked behind it, one that is first in both measures of     *)
(* importance is on top, and none that changed lately is called stable.     *)
ProfileRanked == answered("profile") =>
    LET count(f) == Len(SelectSeq(task.recent, LAMBDA r : r = f))
        links(f) == Cardinality(task.out[f]) + Cardinality(mirror(task.out)[f])
        hotter(f, h) == count(f) >= count(h) /\ links(f) >= links(h) /\ count(f) + links(f) > count(h) + links(h)
        first(m, f) == \A h \in Fewer \ {f} : m[f] > m[h]
    IN  /\ Range(result.stable) \cap Range(task.recent) = {}
        /\ \A f, h \in Fewer : hotter(f, h) /\ h \in Range(result.hot) =>
             \E i, j \in DOMAIN result.hot : i < j /\ result.hot[i] = f /\ result.hot[j] = h
        /\ \A f \in Fewer : first(compute_betweenness(task.out), f) /\ first(compute_pagerank(task.out, 20), f)
             => result.top[1] = f
        /\ result.architecture = "modular-monolith" \/ task.tagged # {}

\* What is computed of the graph of a workspace and shown of it (importance.rs, dna.rs).
MeasuresExact == GraphMeasured /\ DepthExact /\ ProfileRanked

(* Of the patterns found, none is reported twice, and one that is not       *)
(* reported was found under a reported name or is covered by a pattern that *)
(* is reported itself.                                                      *)
PatternsCovered == answered("patterns") =>
    LET reported == result.reported
    IN  /\ \A i, j \in DOMAIN reported : i # j => reported[i].id # reported[j].id
        /\ \A p \in result.found : \E k \in Range(reported) : k = p \/ k.id = p.id \/ covers(k, p)

(* No function of a file is counted twice, wherever it is declared, and one *)
(* is only missed when it is part of a function or a class that is exported *)
(* where it is declared.  Every exported name is noted, once.               *)
FunctionsFound == answered("source") =>
    LET kinds == {"function_declaration", "variable_declarator", "method_definition"}
        names(nodes) == {n.name.text : n \in {m \in nodes : m.kind \in kinds}}
        below(nodes) == UNION {Range(subtree(n)) : n \in nodes}
        exports == {n \in below({task.tree}) : n.kind = "export_statement"}
        given == UNION {Range(e.kids) : e \in exports}
        plain == {n \in given : n.kind \in {"function_declaration", "class_declaration"}}
        found == result.functions
    IN  /\ \A i, j \in DOMAIN found : i # j => found[i].name # found[j].name
        /\ {f.name.text : f \in Range(found)} = names(below({task.tree})) \ names(below(plain))
        /\ Len(result.export_names) = Cardinality(given)

\* What is found in parsed files: patterns (patterns.rs) and functions (skeleton.rs).
CodeFound == PatternsCovered /\ FunctionsFound

(* What the compiler selects of its ranking is worth the most there is in   *)
(* the budget, and so is what the other request that fits a budget selects  *)
(* of the same sections; the packet of the third compiler costs what it     *)
(* says, and gives no text twice.  The files a prompt is enhanced with are  *)
(* those of the project.                                                    *)
ContextFits == answered("compile") =>
    LET ranked == result.ranked
        optimized == result.optimized
        sum(items, of(_)) == FoldLeft(LAMBDA all, x : all + of(x), 0, items)
        total(items, places, of(_)) == MapThenSumSet(LAMBDA i : of(items[i]), places)
        tokens(x) == x.tokens
        priority(x) == x.priority
        value == total(ranked, result.selected, priority)
        sections == result.packet.sections
    IN  /\ total(ranked, result.selected, tokens) = result.total_tokens /\ result.total_tokens <= task.request.budget
        /\ \A other \in SUBSET DOMAIN ranked :
             total(ranked, other, tokens) <= task.request.budget => total(ranked, other, priority) <= value
        /\ \A i, j \in DOMAIN ranked : i < j => ranked[i].priority >= ranked[j].priority
        /\ result.enhanced.relevant_files \subseteq DOMAIN task.project.features
        /\ result.packet.total <= task.request.budget
        /\ result.packet.total = sum(sections, LAMBDA x : x.of.tokens)
        /\ \A i, j \in DOMAIN sections : i # j => sections[i].of.text # sections[j].of.text
        /\ total(optimized.candidates, optimized.selected, tokens) = optimized.total_tokens
        /\ optimized.total_tokens <= task.request.budget
        /\ total(optimized.candidates, optimized.selected, priority) = value
        /\ Cardinality(optimized.selected) = Cardinality(result.selected)

(* What a path inherits is what its layers say from the last one on that    *)
(* overrides the others, counted from the most specific layer: all of their *)
(* patterns and rules, a pattern once unless a layer extends, and of two    *)
(* layers that map the same file the less specific one decides.             *)
ContextInherited == answered("layers") =>
    LET n == Len(task.layers)
        heard == 1..Min({n} \cup {i \in 1..n : task.layers[i].mode = "Override"})
        said == [i \in heard |-> task.layers[i]]
        once == \A i \in heard : said[i].mode = "Merge"
    IN  /\ Range(result.patterns) = UNION {Range(said[i].patterns) : i \in heard}
        /\ Range(result.rules) = heard /\ Len(result.rules) = Cardinality(heard)
        /\ once => Len(result.patterns) = Cardinality(Range(result.patterns))
        /\ once => FoldFunctionOnSet(LAMBDA l, sum : sum + Len(l.patterns), 0, said, heard)
                     = Len(result.patterns) + result.conflicts
        /\ \A f \in DOMAIN result.file_map : \A i \in heard : f \in DOMAIN said[i].file_map => result.file_map[f] <= i

\* What the compilers of a context select, and what the layers of a path leave of it (context/).
ContextSound == ContextFits /\ ContextInherited

(* A reasoning chain holds the entries that are at most the asked number of *)
(* relations away from the first one, which is taken to be between one and  *)
(* six, in whatever direction, and every relation between entries that      *)
(* belongs to one of the nearer of them.                                    *)
ChainExact == answered("chain") =>
    LET known == DOMAIN task.entries
        points(i, j) == \E r \in Relations : j \in task.entries[i][r]
        near(i) == {j \in known : points(i, j) \/ points(j, i)}
        within[n \in 0..6] == IF n = 0 THEN {1} ELSE within[n - 1] \cup UNION {near(i) : i \in within[n - 1]}
        depth == IF task.depth < 1 THEN 1 ELSE IF task.depth > 6 THEN 6 ELSE task.depth
        inner == within[depth - 1]
    IN  /\ result.nodes = within[depth]
        /\ {{e.from, e.to} : e \in result.edges} = {{e[1], e[2]} : e \in {e \in known \X known : points(e[1], e[2]) /\ {e[1], e[2]} \cap inner # {}}}
        /\ \A e \in result.edges : e.relation = "parent" => e.from \in task.entries[e.to].parent

(* What an entry inherits from the entries of other projects: the nearest   *)
(* one decides what kind of value it is, and so it is for each key of an    *)
(* object; of the values of the same kind before the first of another kind  *)
(* all keys and all items are kept, an item once.  Unmerged it is the       *)
(* nearest entry, whatever the others say.                                  *)
BrainInherited == answered("inherit") =>
    LET known == SelectSeq(task.layers, LAMBDA l : 1 \in DOMAIN l.entries)
        said == [i \in DOMAIN known |-> known[i].entries[1]]
        alike(values) == {v \in Range(values) : \E n \in DOMAIN values : \A i \in 1..n : values[i].kind = Head(values).kind /\ values[n] = v}
        holds(v, values) ==
            /\ v.kind = Head(values).kind
            /\ v.kind = "scalar" => v = Head(values)
            /\ v.kind = "array" => /\ Range(v.of) = UNION {Range(w.of) : w \in alike(values)}
                                   /\ Len(v.of) = Cardinality(Range(v.of))
        resolved == Head(result).value
    IN  IF known = <<>> THEN result = <<>>
        ELSE IF ~task.merge THEN resolved.kind = Head(said).kind /\ resolved.of = Head(said).of
        ELSE /\ holds(resolved, said)
             /\ resolved.kind = "object" =>
                  LET objects == {n \in DOMAIN said : \A i \in 1..n : said[i].kind = "object"}
                      having_key(k) == SelectSeq(SubSeq(said, 1, Max(objects)), LAMBDA w : k \in DOMAIN w.of)
                  IN  /\ DOMAIN resolved.of = UNION {DOMAIN said[n].of : n \in objects}
                      /\ \A k \in DOMAIN resolved.of :
                           LET there == having_key(k)
                           IN  holds(resolved.of[k], [i \in DOMAIN there |-> there[i].of[k]])

(* What is learned is what the records support: a section is recommended    *)
(* just when every first success of the task had it, none of them had a     *)
(* section that may be left out, and the budget lies between what they      *)
(* took.  One more project that lists a pattern never takes it from the     *)
(* profile, and one more that does not list it never adds it.               *)
AdviceSupported ==
  /\ answered("prompts") =>
    LET wins == {r \in Range(task.records) : r.task = "fix" /\ r.outcome = "SuccessFirstTry"}
        groups == DOMAIN result.performance
    IN  /\ \A s \in {1, 2} : s \in result.always_include <=> wins # {} /\ \A r \in wins : s \in Range(r.sections)
        /\ \A s \in result.consider_excluding, r \in wins : s \notin Range(r.sections)
        /\ wins # {} => /\ \E r \in wins : r.tokens <= result.recommended_budget
                        /\ \E r \in wins : r.tokens >= result.recommended_budget
        /\ MapThenSumSet(LAMBDA g : result.performance[g].runs, groups) = Len(task.records)
        /\ \A g \in groups : result.performance[g].successes <= result.performance[g].runs
  /\ answered("projects") =>
    LET with_one_more(listing) == compute_developer_profile(listed_by(task.projects + 1, listing))
    IN  /\ \A list \in DOMAIN result : /\ result[list] \subseteq with_one_more(task.listing + 1)[list]
                                       /\ with_one_more(task.listing)[list] \subseteq result[list]
        /\ task.projects = task.listing /\ task.projects > 0 => \A list \in DOMAIN result : result[list] = {"x"}

\* What is answered from the entries of a brain (get_reasoning_chain, BrainHierarchy, learning).
BrainAnswers == ChainExact /\ BrainInherited /\ AdviceSupported
===============================================================================
