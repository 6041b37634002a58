-------------------------------- MODULE Verdicts --------------------------------
(***************************************************************************)
(* What the daemon concludes from data it is given: the difference of two  *)
(* versions of a file and its impact, the sections that fit a budget, the  *)
(* risk of a file, and the files a file reaches.  Each algorithm is run on *)
(* every input over the constants; Verdicts_proofs has the properties for  *)
(* all constants.                                                          *)
(***************************************************************************)
EXTENDS ContextCompiler, ChangeAnalysis, Answers

CONSTANTS
    Files,         \* files of a graph, of which File is looked at
    File,
    Elsewhere,     \* another file
    MaxDepth,      \* depth asked for
    MaxChain,      \* files in a chain of imports
    FeatureKinds,  \* features of a file: [name, body, tags]
    Signature,     \* of a body, or NoSignature
    MaxFeatures,   \* features of one version of a file
    SectionKinds,  \* sections to choose from: [id, priority, tokens]
    MaxSections,
    MaxBudget,
    Counts         \* how many there may be of a kind of evidence

ASSUME VerdictsAssumption ==
    /\ IsFiniteSet(Files) /\ File \in Files /\ Elsewhere # File
    /\ {MaxDepth, MaxChain, MaxFeatures, MaxSections, MaxBudget} \subseteq Nat
    /\ \A s \in SectionKinds : s.tokens \in Nat /\ s.priority \in Nat
    /\ Counts \subseteq Nat

lists(kinds, max) == UNION {[1..n -> kinds] : n \in 0..max}

-----------------------------------------------------------------------------
(* Inputs.                                                                  *)

ChangeTask == \E old, new \in lists(FeatureKinds, MaxFeatures), dependents \in SUBSET (Files \ {File}) :
    task = [kind |-> "change", old |-> old, new |-> new, dependents |-> dependents]

BudgetTask == \E ranked \in lists(SectionKinds, MaxSections), budget \in 0..MaxBudget :
    task = [kind |-> "budget", ranked |-> ranked, budget |-> budget]

\* What is known of File: how many depend on it, how often it changed, entries that report
\* a break or an issue, and whether it is called stable or hot.
Evidence == [kind : {"risk"}, count : Counts, changes : Counts, breaks : Counts, issues : Counts,
             zones : SUBSET {"stable", "hot"}]

RiskTask == \E evidence \in Evidence : task = evidence

ReachTask == \E out \in [Files -> SUBSET Files], depth \in 0..MaxDepth :
    task = [kind |-> "reach", out |-> out, depth |-> depth]

Init == answer = <<>> /\ (ChangeTask \/ BudgetTask \/ RiskTask \/ ReachTask)

-----------------------------------------------------------------------------
compared(t) ==
    LET diff == compute_diff(t.old, t.new)
        g == [out |-> [f \in t.dependents |-> {File}], in |-> [f \in {File} |-> t.dependents]]
        here == record_change(<<>>, File, diff, 2)
        twice == record_change(here, Elsewhere, diff, 2)
        breaking == detect_breaking_signatures(t.old, t.new, Signature)
    IN  [diff |-> diff, impact |-> analyze_impact(g, File, diff),
         without_one |-> [f \in diff.removed |-> analyze_impact(g, File, [diff EXCEPT !.removed = @ \ {f}])],
         intent |-> classify_with_confidence({}, diff), breaking |-> breaking,
         warned |-> emit_breaking_signature_warnings(t.old, breaking, Signature),
         conflicts |-> detect_conflicts(twice), forgotten |-> detect_conflicts(record_change(twice, Elsewhere, diff, 2)),
         questions |-> predict_questions(g, here, File)]

Compare == Answer("change", compared(task))

Fit == Answer("budget", pass_budget_fitting(task.ranked, task.budget))

\* The judgements of File, on evidence t.
entry(kind, tag) == [mentions |-> {File}, kind |-> kind, tags |-> {tag}]
judged(t) ==
    LET dependents == [f \in {File} |-> 1..t.count]
        entries == [i \in 1..(t.breaks + t.issues) |->
                      IF i <= t.breaks THEN entry("warning", "signature-change") ELSE entry("fact", "issue")]
        zone(z) == IF z \in t.zones THEN {File} ELSE {}
        tables == [dependents |-> dependents, breakage |-> IF t.breaks > 0 THEN {File} ELSE {},
                   changes |-> [f \in {File} |-> t.changes], core |-> zone("stable"),
                   issues |-> [f \in {File} |-> 1..t.issues]]
        levels == [Low |-> 1, Medium |-> 2, High |-> 3, Critical |-> 4]
        warnings == [none |-> 1, caution |-> 2, review |-> 3, checkpoint |-> 4]
    IN  [level |-> levels[assess(tables, File).level], stability |-> assess(tables, File).stability,
         warning |-> warnings[assess_risk(File, entries, [in |-> dependents], zone("stable"), zone("hot"))],
         listed |-> get_high_risk_files(tables), score |-> calculate_score(t.breaks, t.changes)]

Judge == Answer("risk", judged(task))

mirror(out) == [f \in DOMAIN out |-> {g \in DOMAIN out : f \in out[g]}]
reached(t) ==
    LET g == [out |-> t.out, in |-> mirror(t.out)]
    IN  [distances |-> distances(t.out, File), groups |-> circular_groups(t.out),
         affected |-> compute_blast_radius(g.in, File, t.depth).affected,
         relevant |-> relevant_files(g, File, t.depth)]

Reach == Answer("reach", reached(task))

Next == Compare \/ Fit \/ Judge \/ Reach

Spec == Init /\ [][Next]_answerVars

-----------------------------------------------------------------------------
(* Nothing that is new in a file escapes compute_diff: a feature that was   *)
(* not there with this body is added or modified, the removed ones are the  *)
(* names that are gone, and names in both were not gone; an unchanged file  *)
(* has neither impact nor intent.  The impact of a change is no smaller     *)
(* than that of the same change with a feature less removed, and every      *)
(* dependent is warned of a removal.  A feature that breaks its callers is  *)
(* one of the new ones, and a warning is stored just when there is one; two *)
(* files conflict in the names both modified while both changes are kept.   *)
ChangeSound == answered("change") =>
    LET d == result.diff
        pairs(features) == {<<f.name, f.body>> : f \in features}
        names(features) == {f.name : f \in features}
        fresh == pairs(Range(d.added)) \cup pairs(Range(d.modified))
    IN  /\ pairs(Range(task.new)) \ pairs(Range(task.old)) \subseteq fresh
        /\ names(d.removed) = names(Range(task.old)) \ names(Range(task.new))
        /\ names(Range(d.modified)) \subseteq names(Range(task.old)) \cap names(Range(task.new))
        /\ pairs(result.breaking) \subseteq fresh /\ (result.warned <=> result.breaking # {})
        /\ {c.name : c \in result.conflicts} = names(Range(d.modified)) /\ result.forgotten = {}
        /\ \A f \in d.removed : /\ result.without_one[f].risk <= result.impact.risk
                                /\ DOMAIN result.without_one[f].impacted \subseteq DOMAIN result.impact.impacted
        /\ d.removed # {} => DOMAIN result.impact.impacted = task.dependents
        /\ task.old = task.new /\ Cardinality(names(Range(task.old))) = Len(task.old)
             => result.impact.severity = "None" /\ result.intent = {<<"exploration", 25>>}

total(weights, places) == MapThenSumSet(LAMBDA i : weights[i], places)

(* The selection of pass_budget_fitting fits the budget, costs what it      *)
(* says, and "the knapsack algorithm maximizes total `priority x 100`       *)
(* value": of up to a hundred sections no other choice within the budget    *)
(* is worth more in priorities, nor as much with more sections, and of any  *)
(* number none is worth more when a section counts a hundredth of a         *)
(* priority.  A section is selected or omitted or named as one selected.    *)
ChoiceOptimal == answered("budget") =>
    LET ranked == task.ranked
        cost(places) == total([i \in DOMAIN ranked |-> ranked[i].tokens], places)
        value(places) == total([i \in DOMAIN ranked |-> ranked[i].priority], places)
        chosen == result.selected
        ids(places) == {ranked[i].id : i \in places}
    IN  /\ chosen \subseteq DOMAIN ranked
        /\ cost(chosen) = result.total_tokens /\ result.total_tokens <= task.budget
        /\ \A other \in SUBSET DOMAIN ranked : cost(other) <= task.budget =>
             /\ 100 * value(other) + Cardinality(other) <= 100 * value(chosen) + Cardinality(chosen)
             /\ Len(ranked) <= 100 =>
                  \/ value(other) < value(chosen)
                  \/ value(other) = value(chosen) /\ Cardinality(other) <= Cardinality(chosen)
        /\ ids(DOMAIN ranked) = ids(chosen) \cup result.omitted /\ ids(chosen) \cap result.omitted = {}

\* Evidence that is less in one respect.
lesser(evidence) ==
    {t \in UNION {{[evidence EXCEPT !.count = c], [evidence EXCEPT !.changes = c], [evidence EXCEPT !.breaks = c],
                   [evidence EXCEPT !.issues = c], [evidence EXCEPT !.zones = z]} :
                    c \in Counts, z \in SUBSET {"stable", "hot"}} :
       t.count <= evidence.count /\ t.changes <= evidence.changes /\ t.breaks <= evidence.breaks
       /\ t.issues <= evidence.issues /\ t.zones \subseteq evidence.zones}

(* More evidence never makes a file look safer, to the analyzer of risks or *)
(* to the proactive warnings, and more faults never improve a session;      *)
(* dependents alone ask for caution, never for a review.                    *)
RiskAdds == answered("risk") =>
    /\ \A t \in lesser(task) :
         LET before == judged(t)
         IN  /\ before.level <= result.level /\ before.warning <= result.warning
             /\ before.stability >= result.stability /\ before.listed \subseteq result.listed
             /\ before.score.compliance >= result.score.compliance
             /\ before.score.penalty <= result.score.penalty
    /\ task.breaks + task.issues = 0 /\ task.zones = {} => result.warning <= 2

\* ends(out, s)[n]: where the chains of n steps from s end.
ends(out, s) ==
    LET after[n \in 0..(MaxChain + Cardinality(Files))] ==
            IF n = 0 THEN {s} ELSE UNION {out[f] : f \in after[n - 1]}
    IN  after

\* dist has what chains from File reach, with the length of the shortest chain, if that is at
\* most max_depth.
measures(dist, out, max_depth) ==
    LET after == ends(out, File)
    IN  /\ \A f \in DOMAIN dist : /\ dist[f] \in 0..max_depth /\ f \in after[dist[f]]
                                  /\ \A n \in 0..(dist[f] - 1) : f \notin after[n]
        /\ \A n \in 0..Min({max_depth, MaxChain}) : after[n] \subseteq DOMAIN dist

(* The searches over the graph find all that chains of imports of whatever  *)
(* length reach, each file at its distance: the distances the importance    *)
(* rests on, the files a change of File affects, at most max_depth steps    *)
(* away, and those the compiler keeps, in whatever direction.  Two files    *)
(* are in one circular group just when chains lead from each to the other.  *)
ReachExact == answered("reach") =>
    LET out == task.out
        either == [f \in Files |-> out[f] \cup mirror(out)[f]]
        leads(s, t) == \E n \in 0..Cardinality(Files) : t \in ends(out, s)[n]
    IN  /\ measures(result.distances, out, MaxChain + Cardinality(Files))
        /\ measures(with(result.affected, File, 0), mirror(out), task.depth) /\ File \notin DOMAIN result.affected
        /\ measures(result.relevant, either, task.depth)
        /\ \A s, t \in Files : s # t =>
             ((\E c \in result.groups : {s, t} \subseteq c) <=> leads(s, t) /\ leads(t, s))

-----------------------------------------------------------------------------
(* The instance TLC checks: bodies with two signatures and one without,     *)
(* empty sections and worthless ones.                                       *)
MCFeatureKinds == [name : {"f", "g"}, body : 1..3, tags : {{}}]
MCSignature == <<1, 2, NoSignature>>
MCSectionKinds == [id : {1, 2}, priority : {0, 1, 3}, tokens : 0..3]
===============================================================================
