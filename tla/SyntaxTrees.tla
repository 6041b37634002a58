------------------------------ MODULE SyntaxTrees ------------------------------
(***************************************************************************)
(* How a source file is read for its patterns (observer/patterns.rs): the  *)
(* walk over its syntax tree, and what is noted of every function.         *)
(*                                                                         *)
(* A node is [kind, field, name, words, kids]: field is the name its       *)
(* parent knows it by ("" for the others), words what the detectors find   *)
(* in the text that is its own, kids its named children.  A name is        *)
(* [text, verb, parts]: its first verb and the words in it.                *)
(***************************************************************************)
EXTENDS CodeGraphs

RECURSIVE subtree(_)
subtree(node) == <<node>> \o FlattenSeq([i \in DOMAIN node.kids |-> subtree(node.kids[i])])

node_text(node) == UNION {n.words : n \in Range(subtree(node))}

of_field(node, field) == SelectSeq(node.kids, LAMBDA k : k.field = field)
of_kind(node, kinds) == SelectSeq(node.kids, LAMBDA k : k.kind \in kinds)

has_descendant_kind(nodes, kinds) == \E n \in Range(nodes) : \E m \in Range(subtree(n)) : m.kind \in kinds

-----------------------------------------------------------------------------
(* Statements and bodies.                                                   *)

check_has_validation(text) ==
    text \cap {".parse(", ".safeParse(", ".validate(", "z.object", "z.string", "z.number", "z.array", "z.enum",
               "Joi.", "yup.", ".validateSync("} # {}

check_has_logging(text) ==
    text \cap {"console.log", "console.error", "console.warn", "console.info", "logger.",
               "log.info", "log.error", "log.warn", "log.debug"} # {}

leaves_early(statement) ==
    has_descendant_kind(of_field(statement, "consequence"), {"return_statement", "throw_statement"})

check_guard_clause(body) ==
    body.kids # <<>> /\ Head(body.kids).kind = "if_statement" /\ leaves_early(Head(body.kids))

check_returns_object(body) == \E s \in Range(of_kind(body, {"return_statement"})) :
    "{" \in node_text(s) /\ node_text(s) \cap {"success", "data", "error"} # {}

classify_statement(s) ==
    LET expr == IF s.kids = <<>> THEN "none" ELSE Head(s.kids).kind
        text == IF s.kids = <<>> THEN {} ELSE node_text(Head(s.kids))
    IN  CASE s.kind = "if_statement" -> IF leaves_early(s) THEN "guard" ELSE "if"
          [] s.kind \in {"for_statement", "for_in_statement", "for_of_statement", "while_statement", "do_statement"}
               -> "loop"
          [] s.kind = "expression_statement" ->
               CASE expr = "await_expression" -> "await"
                 [] expr = "call_expression" -> IF check_has_validation(text) THEN "validate"
                                                ELSE IF check_has_logging(text) THEN "log" ELSE "call"
                 [] expr = "assignment_expression" -> "assign"
                 [] expr = "yield_expression" -> "yield"
                 [] OTHER -> "expr"
          [] s.kind \in {"lexical_declaration", "variable_declaration"} ->
               IF "await " \in node_text(s) THEN "declare-await"
               ELSE IF node_text(s) \cap {"= {", "= ["} # {} THEN "destructure" ELSE "declare"
          [] OTHER -> s.kind       \* return, throw, try and switch, without their suffix

extract_body_prefix(body) == [i \in 1..Min({4, Len(body.kids)}) |-> classify_statement(body.kids[i])]

extract_calls(body) ==
    LET calls == SelectSeq(subtree(body), LAMBDA n : n.kind = "call_expression" /\ of_field(n, "function") # <<>>)
    IN  [i \in DOMAIN calls |-> Head(of_field(calls[i], "function")).name.text]

-----------------------------------------------------------------------------
(* A function.  Its traits are what the detectors of known patterns ask of  *)
(* a function, each named like the pattern.                                 *)

when(condition, trait) == IF condition THEN {trait} ELSE {}

factory_prefixes == {"create", "build", "make", "new", "generate", "produce"}
hoc_prefixes == {"with", "enhance", "wrap", "connect"}

extract_function(node, name, exported, path) ==
    LET params == FlattenSeq([i \in DOMAIN of_field(node, "parameters") |-> of_field(node, "parameters")[i].kids])
        named(word) == \E p \in Range(params) : word \in p.name.parts
        bodies == of_field(node, "body")
        in_body(kind) == has_descendant_kind(bodies, {kind})
        returns_object == \E b \in Range(bodies) : check_returns_object(b)
        calls == FlattenSeq([i \in DOMAIN bodies |-> extract_calls(bodies[i])])
    IN  [file |-> path, name |-> name, params |-> Len(params), calls |-> calls,
         prefix |-> IF bodies = <<>> THEN <<>> ELSE extract_body_prefix(Head(bodies)),
         traits |-> when("async" \in node.words, "async-await")
                    \cup when(\E b \in Range(bodies) : check_guard_clause(b), "guard-clause")
                    \cup when(\E p \in Range(params) : p.kind \in {"object_pattern", "array_pattern"}, "destructure")
                    \cup when(in_body("try_statement"), "try") \cup when(in_body("throw_statement"), "throw")
                    \cup when(returns_object, "result-type")
                    \cup when(check_has_validation(node_text(node)), "input-validation")
                    \cup when(check_has_logging(node_text(node)), "logging")
                    \cup when(name.verb \in factory_prefixes /\ exported /\ returns_object, "factory")
                    \cup when(name.verb \in hoc_prefixes /\ exported, "decorator-hoc")
                    \cup when(Len(params) >= 2 /\ (named("next") \/ (named("req") /\ named("res"))), "middleware")
                    \cup when("use" = name.verb, "custom-hooks")
                    \cup when(Range(calls) \cap {"prisma", "findMany", "findUnique", "$transaction", "$queryRaw"} # {},
                              "prisma-orm")]

-----------------------------------------------------------------------------
(* The walk: a node with whether its parent is an export, then what is      *)
(* below it, except a function or a class that is exported where it is      *)
(* declared.                                                                *)

dominated(child, node) ==
    child.kind \in {"function_declaration", "class_declaration"} /\ node.kind = "export_statement"

RECURSIVE walk_node(_, _)
walk_node(node, exported) ==
    LET below == SelectSeq(node.kids, LAMBDA k : ~dominated(k, node))
    IN  <<[node |-> node, exported |-> exported]>>
        \o FlattenSeq([i \in DOMAIN below |-> walk_node(below[i], node.kind = "export_statement")])

function_kinds == {"arrow_function", "function", "function_expression"}

declared_function == {"function_declaration"}

functions_at(visit, path) ==
    LET node == visit.node
        declared == of_kind(node, {"variable_declarator"})
        bound == SelectSeq(declared, LAMBDA d : \E v \in Range(of_field(d, "value")) : v.kind \in function_kinds)
        bodies == of_field(node, "body")
        methods == FlattenSeq([i \in DOMAIN bodies |-> of_kind(bodies[i], {"method_definition"})])
    IN  CASE node.kind \in declared_function -> <<extract_function(node, node.name, visit.exported, path)>>
          [] node.kind \in {"lexical_declaration", "variable_declaration"} ->
               [i \in DOMAIN bound |->
                   extract_function(Head(of_field(bound[i], "value")), bound[i].name, visit.exported, path)]
          [] node.kind = "class_declaration" ->      \* named <class>.<method>, in any class not exported
               [i \in DOMAIN methods |-> extract_function(methods[i], methods[i].name, FALSE, path)]
          [] OTHER -> <<>>

\* The names an export statement gives.
exports_at(node) ==
    LET named(kid) == CASE kid.kind \in {"function_declaration", "class_declaration"} -> <<kid.name>>
                        [] kid.kind \in {"lexical_declaration", "variable_declaration"} ->
                             [i \in DOMAIN of_kind(kid, {"variable_declarator"}) |-> of_kind(kid, {"variable_declarator"})[i].name]
                        [] kid.kind = "export_clause" ->
                             [i \in DOMAIN of_kind(kid, {"export_specifier"}) |-> of_kind(kid, {"export_specifier"})[i].name]
                        [] OTHER -> <<>>
    IN  IF node.kind # "export_statement" THEN <<>>
        ELSE SelectSeq(FlattenSeq([i \in DOMAIN node.kids |-> named(node.kids[i])]), LAMBDA n : n.text # "")

crud_keywords == {"create", "find", "get", "update", "delete", "remove", "list", "upsert", "save", "destroy"}
observer_methods == {"on", "off", "emit", "addEventListener", "removeEventListener", "subscribe", "unsubscribe"}
singleton_export_names == {"db", "prisma", "client", "redis", "supabase", "firebase", "connection", "pool",
                           "cache", "instance", "app"}

\* What the detectors of known patterns ask of a file; places are the parts of its path.
file_traits(functions, exports, has_class, places) ==
    LET parts == UNION {f.name.parts : f \in Range(functions)}
        crud == SelectSeq(exports, LAMBDA n : n.parts \cap crud_keywords # {})
    IN  when(\/ "getinstance" \in parts
             \/ Len(exports) = 1 /\ functions = <<>> /\ ~has_class
             \/ \E n \in Range(exports) : n.text \in singleton_export_names, "singleton")
        \cup when(Len(exports) >= 2 /\ Len(crud) >= 2, "repository")
        \cup when(Cardinality(observer_methods \cap UNION {Range(f.calls) : f \in Range(functions)}) >= 2, "observer")
        \cup when(parts \cap {"handler", "strategy"} # {} \/ (Len(exports) >= 3 /\ Len(functions) >= 3), "strategy")
        \cup when("index" \in places /\ functions = <<>> /\ exports # <<>>, "barrel-exports")

\* What the framework's detectors ask of a file.
framework_traits(directives, has_jsx, places) ==
    when("app/" \in places, "nextjs-app-router") \cup when("pages/" \in places, "nextjs-pages-router")
    \cup when({"tsx", "app/"} \subseteq places /\ "use client" \notin directives /\ has_jsx, "server-components")
    \cup when("use server" \in directives, "server-actions") \cup when("use client" \in directives, "client-components")
    \cup when("api/" \in places /\ places \cap {"route.", "/api/"} # {}, "api-routes")
    \cup when(has_jsx, "ui-components")

\* Directives are the words of the root, from the first five lines; of the imports only those
\* of local modules are looked at later.
analyze_file(path, places, root) ==
    LET visits == walk_node(root, FALSE)
        kinds == {v.node.kind : v \in Range(visits)}
        functions == FlattenSeq([i \in DOMAIN visits |-> functions_at(visits[i], path)])
        exports == FlattenSeq([i \in DOMAIN visits |-> exports_at(visits[i].node)])
        imports == SelectSeq(visits, LAMBDA v : v.node.kind = "import_statement" /\ "local" \in v.node.words)
    IN  [path |-> path, functions |-> functions,
         imports |-> [i \in DOMAIN imports |-> imports[i].node.name.text],
         export_names |-> exports,
         traits |-> file_traits(functions, exports, "class_declaration" \in kinds, places)
                    \cup framework_traits(root.words,
                           kinds \cap {"jsx_element", "jsx_self_closing_element", "jsx_fragment"} # {}, places)]

\* Tests, generated and hidden files are not looked at; an entry is [places, readable, large, tree].
scan_and_parse(entries) ==
    LET scanned == SelectSeq(entries, LAMBDA e :
                      /\ e.places \cap {"hidden", "skipped", "__tests__", ".test.", ".spec.", "__mocks__"} = {}
                      /\ e.places \cap {"ts", "tsx", "js", "jsx", "mjs", "mts"} # {}
                      /\ e.readable /\ ~e.large)
    IN  [i \in DOMAIN scanned |-> analyze_file(scanned[i].path, scanned[i].places, scanned[i].tree)]
===============================================================================
