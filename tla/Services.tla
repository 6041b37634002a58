-------------------------------- MODULE Services --------------------------------
(***************************************************************************)
(* The services of the daemon that share no state with each other, checked *)
(* side by side: `service` names the one a behaviour is about, and the     *)
(* others keep their initial state.                                        *)
(***************************************************************************)
EXTENDS EmbeddingStore, SaveEffects, Licensing, EntryUpdates, SqlitePools, TokenLifetime, SessionCounters

VARIABLE service

tokenVars == <<vars, counterVars>>
servicesVars == <<service, storeVars, saveVars, licenseVars, updateVars, poolVars, tokenVars>>

ServicesInit ==
  /\ service \in {"vectors", "saves", "license", "links", "decisions", "pools", "tokens", "counters"}
  /\ StoreInit /\ SavesInit /\ LicenseInit /\ UpdatesInit /\ PoolsInit /\ Init /\ CountersInit

ServicesNext ==
  \/ service = "vectors" /\ StoreNext /\ UNCHANGED <<service, saveVars, licenseVars, updateVars, poolVars, tokenVars>>
  \/ service = "saves" /\ SavesNext /\ UNCHANGED <<service, storeVars, licenseVars, updateVars, poolVars, tokenVars>>
  \/ service = "license" /\ LicenseNext /\ UNCHANGED <<service, storeVars, saveVars, updateVars, poolVars, tokenVars>>
  \/ service = "links" /\ LinksNext /\ UNCHANGED <<service, storeVars, saveVars, licenseVars, poolVars, tokenVars>>
  \/ service = "decisions" /\ DecisionsNext /\ UNCHANGED <<service, storeVars, saveVars, licenseVars, poolVars, tokenVars>>
  \/ service = "pools" /\ PoolsNext /\ UNCHANGED <<service, storeVars, saveVars, licenseVars, updateVars, tokenVars>>
  \/ service = "tokens" /\ Next /\ UNCHANGED <<service, storeVars, saveVars, licenseVars, updateVars, poolVars, counterVars>>
  \/ service = "counters" /\ CountersNext /\ UNCHANGED <<service, storeVars, saveVars, licenseVars, updateVars, poolVars, vars>>

ServicesSpec == ServicesInit /\ [][ServicesNext]_servicesVars

\* What was stored of the entries of a project is found again: no text and no link is lost but
\* to a writer that read before another wrote, no new dependency goes unsignalled, and the
\* entries are all in one database, whichever operations open it at the same time.
EntriesKept == LinksKept /\ DependenciesSignalled /\ OneDatabase

-----------------------------------------------------------------------------
(* The instance TLC checks. *)
saved(path, intent, breaking, modified, content) ==
    [file |-> path, intent |-> intent, breaking |-> breaking, modified |-> modified, added |-> {},
     content |-> content, importers |-> {[words |-> {"test"}, infix |-> "none"]}, sure |-> breaking]
MCContexts ==
    {saved("a", "refactor", TRUE, {12}, {}), saved("b", "debug", FALSE, {}, {"unsafe-eval"}),
     saved("a", "feature", FALSE, {3}, {"own-rule"})}

section(name, keywords, amount, unit, every) ==
    [name |-> name, fields |-> [trigger |-> [keywords |-> keywords, every |-> FALSE],
                                cooldown |-> [amount |-> amount, unit |-> unit, every |-> every]]]
\* An agent that mostly has nothing to report, names that share an entry, an unreadable first
\* candidate; then one name in two sections, and sections that are no agents.
MCCandidates ==
    { << [sections |-> Unreadable],
         [sections |-> << section("CodeObserver", {"file_save", "manual"}, 2, "s", FALSE),
                          section("SecurityScanner", {"file_save"}, 1, "second", TRUE),
                          section("Doc Writer", {"function_signature_change"}, 0, "ms", FALSE),
                          section("Doc-Writer", {"session_start"}, 1, "m", FALSE) >>] >>,
      << [sections |-> << section("TestSentinel", {"file_save"}, 1, "s", FALSE),
                          section("TestSentinel", {"session_start"}, 3, "hours", FALSE),
                          [name |-> "PatternLearner", fields |-> <<>>],
                          section("ComplexityWatcher", {"function_signature_change"}, 0, "s", FALSE),
                          [name |-> "DocumentationTracker", fields |-> [scope |-> "workspace"]] >>] >> }

MCExpiresAt == [key1 |-> 10, key2 |-> 4]

dependency_rule(id, names) ==
    [id |-> id, trigger |-> "dependency_added", condition |-> IF names = {} THEN <<>> ELSE [dependency_pattern |-> names]]
MCRuleFiles == { << dependency_rule("dep_react", {"react"}), dependency_rule("any_dependency", {}) >>, Unparsed }

\* A changed version, in both sections, and a name with two.
MCPackages ==
    { [dependencies |-> [react |-> 1]],
      [dependencies |-> [react |-> 2, vite |-> 1], devDependencies |-> [react |-> 2, vite |-> 2]] }
=============================================================================
