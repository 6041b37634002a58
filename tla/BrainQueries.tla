------------------------------ MODULE BrainQueries ------------------------------
(***************************************************************************)
(* What the API answers from the entries of a brain, without changing      *)
(* them: the reasoning chain of an entry (server.rs), an entry inherited   *)
(* over layers of projects (brain/hierarchy.rs), and what is learned from  *)
(* recorded prompts and from several projects (learning/mod.rs).           *)
(*                                                                         *)
(* An entry is the sets of ids it names, one per relation.  A JSON value   *)
(* is [kind, of]: an object of a function, an array of a sequence, a       *)
(* scalar of itself; a content that is not JSON is a scalar.               *)
(***************************************************************************)
EXTENDS CodeGraphs

(***************************************************************************)
(* get_reasoning_chain.  A parent and a cause point to the entry that      *)
(* names them, the other relations away from it.  An edge is noted where   *)
(* either of its ends is visited, if both are entries.                     *)
(***************************************************************************)
Relations == {"parent", "caused_by", "enables", "superseded_by", "contradicts"}

edges_of(entries, id) ==
    LET edge(relation, other) ==
            IF relation \in {"parent", "caused_by"} THEN [from |-> other, to |-> id, relation |-> relation]
            ELSE [from |-> id, to |-> other, relation |-> relation]
    IN  UNION {{edge(r, other) : other \in entries[id][r] \cap DOMAIN entries} : r \in Relations}

neighbors(entries, current) ==
    {e \in UNION {edges_of(entries, id) : id \in DOMAIN entries} : current \in {e.from, e.to}}

\* One turn of the loop over the queue.
visit(entries, max_depth, s) ==
    LET current == Head(s.queue).id
        depth == Head(s.queue).depth
        edges == neighbors(entries, current)
        met == UNION {{e.from, e.to} : e \in edges} \ s.visited
        order == SetToSeq(met)
    IN  IF s.queue = <<>> THEN s
        ELSE IF depth >= max_depth THEN [s EXCEPT !.queue = Tail(@)]
        ELSE [queue |-> Tail(s.queue) \o [i \in DOMAIN order |-> [id |-> order[i], depth |-> depth + 1]],
              visited |-> s.visited \cup met, edges |-> s.edges \cup edges]

\* fault-seeded: the depth asked for has no upper limit.
clamp_below(x, low, high) == Max({low, x})

clamp(x, low, high) == Max({low, Min({x, high})})

\* An entry is queued once, so there is a turn for each.
get_reasoning_chain(entries, root, depth) ==
    LET start == [queue |-> <<[id |-> root, depth |-> 0]>>, visited |-> {root}, edges |-> {}]
        ended == FoldSet(LAMBDA id, s : visit(entries, clamp(depth, 1, 6), s), start, DOMAIN entries)
    IN  [nodes |-> ended.visited, edges |-> ended.edges]

(***************************************************************************)
(* BrainHierarchy: layers are [project, entries], the most specific first. *)
(***************************************************************************)
merge_arrays(base, overlay) ==
    FoldLeft(LAMBDA out, item : IF item \in Range(out) THEN out ELSE Append(out, item), base, overlay)

RECURSIVE merge_values(_, _)
merge_values(base, overlay) ==
    CASE base.kind = "object" /\ overlay.kind = "object" ->
           [kind |-> "object",
            of |-> [k \in DOMAIN base.of \cup DOMAIN overlay.of |->
                      IF k \notin DOMAIN overlay.of THEN base.of[k]
                      ELSE IF k \notin DOMAIN base.of THEN overlay.of[k]
                      ELSE merge_values(base.of[k], overlay.of[k])]]
      [] base.kind = "array" /\ overlay.kind = "array" ->
           [kind |-> "array", of |-> merge_arrays(base.of, overlay.of)]
      [] OTHER -> overlay

having(layers, id) == SelectSeq(layers, LAMBDA layer : id \in DOMAIN layer.entries)

\* Nothing, or one resolution.
resolve_first(layers, id) ==
    LET found == having(layers, id)
    IN  IF found = <<>> THEN <<>>
        ELSE << [resolved_from |-> <<Head(found).project>>, value |-> Head(found).entries[id]] >>

resolve_merged(layers, id) ==
    LET found == Reverse(having(layers, id))
    IN  IF found = <<>> THEN <<>>
        ELSE << [resolved_from |-> [i \in DOMAIN found |-> found[i].project],
                 value |-> FoldLeft(LAMBDA merged, layer : merge_values(merged, layer.entries[id]),
                                    Head(found).entries[id], Tail(found))] >>

resolve_brain_hierarchy(layers, id, merge) == IF merge THEN resolve_merged(layers, id) ELSE resolve_first(layers, id)

(***************************************************************************)
(* PromptOptimizer, over records [task, model, sections, tokens, outcome], *)
(* and CrossProjectLearner, over the strings each project lists.           *)
(***************************************************************************)
average(numbers) == IF numbers = <<>> THEN 0 ELSE FoldLeft(+, 0, numbers) \div Len(numbers)
succeeded(record) == record.outcome = "SuccessFirstTry"

suggest_context(task_type, records) ==
    LET relevant == SelectSeq(records, LAMBDA r : r.task = task_type)
        successes == SelectSeq(relevant, succeeded)
        failures == SelectSeq(relevant, LAMBDA r : ~succeeded(r))
        named(some) == FlattenSeq([i \in DOMAIN some |-> some[i].sections])
        frequency(section) == Len(SelectSeq(named(successes), LAMBDA s : s = section))
    IN  [always_include |-> {s \in Range(named(successes)) : frequency(s) = Len(successes)},
         consider_excluding |-> Range(named(failures)) \ Range(named(successes)),
         recommended_budget |-> average([i \in DOMAIN successes |-> successes[i].tokens])]

model_performance(records) ==
    [group \in {<<r.model, r.task>> : r \in Range(records)} |->
       LET items == SelectSeq(records, LAMBDA r : <<r.model, r.task>> = group)
       IN  [runs |-> Len(items), successes |-> Len(SelectSeq(items, succeeded)),
            avg_tokens |-> average([i \in DOMAIN items |-> items[i].tokens])]]

compute_developer_profile(projects) ==
    LET total == Max({1, Cardinality(DOMAIN projects)})
        frequency(list, item) == Cardinality({p \in DOMAIN projects : item \in projects[p][list]})
        shared(list, tenths) ==
            {item \in UNION {projects[p][list] : p \in DOMAIN projects} : 10 * frequency(list, item) >= tenths * total}
    IN  [universal_patterns |-> shared("preferences", 6), preferred_stack |-> shared("tech_stack", 5),
         code_style |-> shared("code_style", 5)]

(***************************************************************************)
(* get_impact: the blast radius of five steps, as a report.                *)
(***************************************************************************)
get_impact(in, file) ==
    LET affected == compute_blast_radius(in, file, 5).affected
        count == Cardinality(DOMAIN affected)
    IN  [severity |-> IF count = 0 THEN "None" ELSE IF count > 5 THEN "High" ELSE "Medium",
         impacted |-> [f \in DOMAIN affected |-> IF affected[f] <= 1 THEN "High" ELSE "Medium"],
         risk |-> Min({count, 10})]
=============================================================================
