--------------------------------- MODULE Agents ---------------------------------
(***************************************************************************)
(* The agents of AGENTS.md (agents/mod.rs): how a section of the file      *)
(* becomes a configuration, and what an agent reports of a saved file.     *)
(*                                                                         *)
(* A section is its name and the fields of its yaml block, a field being   *)
(* what the parser tells apart in its text: for a trigger the keywords the *)
(* text contains, for a cooldown its amount, its unit and whether it       *)
(* starts with "every".  The texts of reports are left out, not what       *)
(* decides whether there is one and how severe it is.                      *)
(***************************************************************************)
EXTENDS CodeGraphs

Severities == <<"Info", "Warning", "Critical">>
severity_at_least(s, floor) == IndexFirstSubSeq(<<floor>>, Severities) <= IndexFirstSubSeq(<<s>>, Severities)

\* A name's characters but letters and digits become "_": names may share an entry.
agent_entry_id(name) == IF name \in {"Doc Writer", "Doc-Writer"} THEN "doc_writer" ELSE name

-----------------------------------------------------------------------------
\* The first keyword of this order that the text contains.
Keywords == <<"file_save", "file_open", "function_signature_change", "session_start", "git_commit", "manual">>

parse_trigger(text) ==
    IF text.keywords # {}
    THEN Keywords[Min({i \in DOMAIN Keywords : Keywords[i] \in text.keywords})]
    ELSE IF text.every THEN "interval" ELSE "unknown"

Millis == [ms |-> 1, s |-> 1000, m |-> 60000, h |-> 3600000]
Seconds == [second |-> 1, seconds |-> 1, minute |-> 60, minutes |-> 60, hour |-> 3600, hours |-> 3600]

\* "every 5 minutes", or nothing.
parse_interval_seconds(text) ==
    IF text.every /\ text.unit \in DOMAIN Seconds THEN text.amount * Seconds[text.unit] ELSE 0

\* "5s", or an interval; any other text is no cooldown.
parse_cooldown_ms(text) ==
    IF ~text.every /\ text.unit \in DOMAIN Millis THEN text.amount * Millis[text.unit]
    ELSE 1000 * parse_interval_seconds(text)

field(fields, key, default) == IF key \in DOMAIN fields THEN fields[key] ELSE default

parse_agent_section(section) ==
    [name |-> section.name,
     trigger |-> parse_trigger(field(section.fields, "trigger", [keywords |-> {"manual"}, every |-> FALSE])),
     cooldown |-> parse_cooldown_ms(field(section.fields, "cooldown", [amount |-> 0, unit |-> "ms", every |-> FALSE]))]

\* A section without a yaml block, or with an empty one, is no agent.
parse_agents_markdown(sections) ==
    LET configured == SelectSeq(sections, LAMBDA section : section.fields # <<>>)
    IN  [i \in DOMAIN configured |-> parse_agent_section(configured[i])]

Unreadable == "unreadable"

\* The first candidate that can be read: one that exists and cannot be is passed over.
load_agent_configs(candidates) ==
    LET readable == {i \in DOMAIN candidates : candidates[i].sections # Unreadable}
    IN  IF readable = {} THEN <<>> ELSE parse_agents_markdown(candidates[Min(readable)].sections)

-----------------------------------------------------------------------------
DefaultRules == {"hardcoded-secret", "unsafe-eval", "sql-concatenation", "env-exposure"}

\* The scanner asks without a workspace: only the file in the home directory can take the
\* place of the defaults, and only if it has a rule.
load_security_rules(home) == IF home # {} THEN home ELSE DefaultRules

security_findings(content, home) == content \cap load_security_rules(home)

\* A path: the words its directories and its file begin with, and the infix of the file.
is_test_path(path) == path.words \cap {"test", "spec"} # {} \/ path.infix \in {"test", "spec"}

NoReport == "none"

\* Severity of the report, or NoReport.  ctx: breaking, whether a signature changed; modified
\* and added, the complexities of those nodes; content; importers; sure, confidence >= 0.8.
execute_file_save_agent(name, ctx, home) ==
    CASE name = "CodeObserver" -> IF ctx.breaking THEN "Warning" ELSE "Info"
      [] name = "IntentPredictor" -> IF ctx.sure THEN "Info" ELSE "Warning"
      [] name = "SecurityScanner" -> IF security_findings(ctx.content, home) # {} THEN "Critical" ELSE NoReport
      [] name = "ComplexityWatcher" -> IF \E c \in ctx.modified \cup ctx.added : c > 10 THEN "Warning" ELSE NoReport
      [] name = "TestSentinel" ->
           IF (ctx.breaking \/ ctx.modified # {}) /\ \E p \in ctx.importers : is_test_path(p) THEN "Warning" ELSE NoReport
      [] name = "DocumentationTracker" -> IF ctx.breaking THEN "Warning" ELSE NoReport
      [] OTHER -> "Info"
=============================================================================
