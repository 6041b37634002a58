------------------------------ MODULE CodeGraphs ------------------------------
(***************************************************************************)
(* The graphs the observer keeps of a workspace, and what is computed from *)
(* them: the dependency graph (observer/graph.rs), the call graph          *)
(* (observer/call_graph.rs) and the structural importance of files         *)
(* (observer/importance.rs).  Numbers the code keeps as floats are         *)
(* multiples of 1/12 (Unit), which is exact for graphs of up to five       *)
(* files.                                                                  *)
(***************************************************************************)
EXTENDS Integers, Sequences, FiniteSets, TLC, SequencesExt, FiniteSetsExt, Functions, Maps

take(s, n) == SubSeq(s, 1, Min({n, Len(s)}))

\* A stable sort by ascending key.
sorted_by(s, key(_)) ==
    LET rank(i) == 1 + Cardinality({j \in DOMAIN s : key(s[j]) < key(s[i]) \/ (key(s[j]) = key(s[i]) /\ j < i)})
    IN  [r \in DOMAIN s |-> s[CHOOSE i \in DOMAIN s : rank(i) = r]]

(***************************************************************************)
(* DependencyGraph: out[f] is what f imports, in[f] what imports f.        *)
(***************************************************************************)
NoEdges == [out |-> <<>>, in |-> <<>>]

add_dependency(g, source, target) ==
    [out |-> with(g.out, source, at(g.out, source) \cup {target}),
     in  |-> with(g.in, target, at(g.in, target) \cup {source})]

\* The old edges go, with sets they leave empty, and the new ones are added as by add_dependency.
set_dependencies(g, source, targets) ==
    LET old == at(g.out, source)
        emptied == {t \in old \cap DOMAIN g.in : g.in[t] \subseteq {source}}
        left(t) == IF t \in old THEN at(g.in, t) \ {source} ELSE at(g.in, t)
    IN  [out |-> IF targets = {} THEN without(g.out, {source}) ELSE with(g.out, source, targets),
         in  |-> [t \in (DOMAIN g.in \ emptied) \cup targets |->
                    IF t \in targets THEN left(t) \cup {source} ELSE left(t)]]

\* fault-seeded: the edges into the removed file stay in the importers' sets.
remove_outgoing(g, file) ==
    [out |-> without(g.out, {file}),
     in  |-> [t \in DOMAIN g.in \ {file} |-> g.in[t] \ {file}]]

\* Unlike set_dependencies, it leaves empty sets behind.
remove_file(g, file) ==
    [out |-> [s \in DOMAIN g.out \ {file} |->
                IF s \in at(g.in, file) THEN g.out[s] \ {file} ELSE g.out[s]],
     in  |-> [t \in DOMAIN g.in \ {file} |->
                IF t \in at(g.out, file) THEN g.in[t] \ {file} ELSE g.in[t]]]

\* Workspace processor and agents: the files at the other end of an edge.
related_files(g, file) == at(g.out, file) \cup at(g.in, file)

(***************************************************************************)
(* CallGraph: calls[f][s] are the edges of symbol s of file f, an edge     *)
(* being <<callee file or "", callee symbol>>; exact and symbol list the   *)
(* places that call a symbol of a known file, or of that name.             *)
(***************************************************************************)
NoCalls == [calls |-> <<>>, exact |-> <<>>, symbol |-> <<>>]

kept(callers, file) ==
    LET rest == [k \in DOMAIN callers |-> {c \in callers[k] : c[1] # file}]
    IN  Restrict(rest, {k \in DOMAIN rest : rest[k] # {}})

remove_calls(cg, file) ==
    [calls |-> without(cg.calls, {file}), exact |-> kept(cg.exact, file), symbol |-> kept(cg.symbol, file)]

\* Each of the calls, a pair of a key and a site, is pushed to the list of its key.
insert_callers(callers, made) ==
    [key \in DOMAIN callers \cup {m[1] : m \in made} |-> at(callers, key) \cup {m[2] : m \in {n \in made : n[1] = key}}]

\* update_file: edges is the function from the file's symbols to their sets of edges.
update_calls(cg, file, edges) ==
    LET base == remove_calls(cg, file)
        own == {p \in (DOMAIN edges) \X UNION Range(edges) : p[2] \in edges[p[1]]}
        known == {p \in own : p[2][1] # ""}
    IN  [calls |-> with(base.calls, file, edges),
         exact |-> insert_callers(base.exact, {<<p[2], <<file, p[1]>>>> : p \in known}),
         symbol |-> insert_callers(base.symbol, {<<p[2][2], <<file, p[1]>>>> : p \in own})]

calls_from(cg, file, s) == IF file \in DOMAIN cg.calls THEN at(cg.calls[file], s) ELSE {}

\* Exact callers if there is one, otherwise everything that calls the name.
caller_sites(cg, file, s) ==
    LET exact == at(cg.exact, <<file, s>>) IN IF exact # {} THEN exact ELSE at(cg.symbol, s)

causal_context(cg, file) ==
    LET symbols == IF file \in DOMAIN cg.calls THEN DOMAIN cg.calls[file] ELSE {}
    IN  [symbols |-> {[symbol |-> s, calls |-> calls_from(cg, file, s), called_by |-> caller_sites(cg, file, s)]
                        : s \in symbols},
         outgoing |-> Cardinality(UNION {{s} \X calls_from(cg, file, s) : s \in symbols}),
         incoming |-> Cardinality(UNION {{s} \X caller_sites(cg, file, s) : s \in symbols})]

(***************************************************************************)
(* Importance, over a graph given by its nodes and the function out.       *)
(***************************************************************************)
Unit == 12

nodes_of(out) == DOMAIN out \cup UNION Range(out)

\* Distances from s by breadth-first search; a node that is not reached has none.
distances(out, s) ==
    LET level[d \in 0..Cardinality(nodes_of(out))] ==
            IF d = 0 THEN [v \in {s} |-> 0]
            ELSE LET reached == level[d - 1]
                     next == UNION {at(out, v) : v \in {u \in DOMAIN reached : reached[u] = d - 1}}
                 IN  [v \in DOMAIN reached \cup next |-> IF v \in DOMAIN reached THEN reached[v] ELSE d]
    IN  level[Cardinality(nodes_of(out))]

\* fault-seeded: the source counts as lying on the paths that start at it.
all_of(reached, s) == reached

\* w != s, in the accumulation.
but_source(reached, s) == reached \ {s}

\* compute_betweenness before it is normalised: for each source the numbers of shortest
\* paths (sigma), and from the leaves back what depends on them (delta).
compute_betweenness(out) ==
    LET dependencies(s) ==
            LET dist == distances(out, s)
                preds(w) == {v \in DOMAIN dist : w \in at(out, v) /\ dist[w] = dist[v] + 1}
                sigma[w \in DOMAIN dist] == IF w = s THEN 1 ELSE MapThenSumSet(LAMBDA v : sigma[v], preds(w))
                delta[v \in DOMAIN dist] ==
                    MapThenSumSet(LAMBDA w : (sigma[v] * (Unit + delta[w])) \div sigma[w],
                                  {w \in DOMAIN dist : v \in preds(w)})
            IN  [v \in nodes_of(out) |-> IF v \in but_source(DOMAIN dist, s) THEN delta[v] ELSE 0]
    IN  FoldSet(LAMBDA s, sum : LET more == dependencies(s) IN [v \in DOMAIN sum |-> sum[v] + more[v]],
                [v \in nodes_of(out) |-> 0], nodes_of(out))

\* In parts of Total; a file without imports passes nothing on.
Total == 10000
compute_pagerank(out, iterations) ==
    LET n == Cardinality(nodes_of(out))
        base == (15 * Total) \div (100 * n)
        share(rank, v) == (85 * rank[v]) \div (100 * Cardinality(out[v]))
        next(rank, i) ==
            [v \in UNION Range(out) |->
               base + MapThenSumSet(LAMBDA u : share(rank, u), {u \in DOMAIN out : v \in out[u]})]
            @@ [v \in nodes_of(out) |-> base]
    IN  FoldLeft(next, [v \in nodes_of(out) |-> Total \div n], [i \in 1..iterations |-> i])

\* Scores relative to the greatest, in percent.
normalized(scores) ==
    LET greatest == Max({0} \cup Range(scores))
    IN  [v \in DOMAIN scores |-> IF greatest = 0 THEN 0 ELSE (100 * scores[v]) \div greatest]

top_files(out, n) ==
    LET betweenness == normalized(compute_betweenness(out))
        pagerank == normalized(compute_pagerank(out, 20))
    IN  take(sorted_by(SetToSeq(nodes_of(out)), LAMBDA v : -(6 * betweenness[v] + 4 * pagerank[v])), n)

\* compute_importance: the cycles are Tarjan's components of more than one file, and
\* the order is empty when there is a cycle.  petgraph sorts the source of an edge first.
circular_groups(out) ==
    LET mutual(v) == {w \in nodes_of(out) : w \in DOMAIN distances(out, v) /\ v \in DOMAIN distances(out, w)}
    IN  {c \in {mutual(v) : v \in nodes_of(out)} : Cardinality(c) > 1}

topological_order(out) ==
    IF circular_groups(out) # {} \/ \E f \in DOMAIN out : f \in out[f] THEN <<>>
    ELSE CHOOSE order \in SetToSeqs(nodes_of(out)) :
            \A i, j \in DOMAIN order : order[j] \in at(out, order[i]) => i < j

\* fault-seeded: the files at the greatest depth are expanded as well.
expanded_past(depth, max_depth) == depth <= max_depth

expanded(depth, max_depth) == depth < max_depth

\* compute_blast_radius: who imports the file, directly or not, up to max_depth, and
\* through whom; the critical path follows the chain of the deepest one back.
compute_blast_radius(in, file, max_depth) ==
    LET dist == distances(in, file)
        affected == {f \in DOMAIN dist \ {file} : expanded(dist[f] - 1, max_depth)}
        via == [f \in affected |-> CHOOSE v \in DOMAIN dist : f \in at(in, v) /\ dist[f] = dist[v] + 1]
        deepest == CHOOSE f \in affected : \A g \in affected : dist[g] <= dist[f]
        back[d \in Nat] == IF d = 0 THEN <<deepest>>        \* the last d + 1 files of the path
                           ELSE LET path == back[d - 1] IN <<via[Head(path)]>> \o path
    IN  [affected |-> Restrict(dist, affected),
         critical_path |-> IF affected = {} THEN <<file>> ELSE back[dist[deepest]]]
===============================================================================
