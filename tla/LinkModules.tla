------------------------------ MODULE LinkModules ------------------------------
(***************************************************************************)
(* From source files to one program (squidc-core, compile.rs): the import  *)
(* graph is loaded depth first, the files of modules are checked, and their *)
(* functions and screens are added to the root's under qualified names.    *)
(*                                                                         *)
(* A disk maps a path, a sequence of directories and a name, to a source   *)
(* file: [imports (pairs of alias and path), required, app, store, state,  *)
(* hasState, bindings, triggers, functions, handlers, screens, inside],    *)
(* where `inside' is that its canonical path lies in the app's directory.  *)
(***************************************************************************)
EXTENDS CheckProgram

CONSTANT MaxFiles  \* how many files may be loaded before one is refused

BadPath(path) == path = <<>> \/ ToSet(path) \cap {"..", "/", "\\"} # {}
-----------------------------------------------------------------------------
(* Loading.  A graph: the label of each loaded file (the alias under which  *)
(* it was met first), the order in which they were completed, the file     *)
(* each import means, what was reported, and the error that ended it.      *)
NoGraph == [labels |-> <<>>, order |-> <<>>, targets |-> <<>>, reported |-> {}, fatal |-> {}]
End(g, code) == [g EXCEPT !.fatal = {code}]

RECURSIVE LoadModule(_, _, _, _, _), LoadImports(_, _, _, _, _)
LoadModule(disk, g, path, label, stack) ==
    IF path \notin DOMAIN disk THEN End(g, "E_IMPORT_IO")
    ELSE IF ~disk[path].inside THEN End(g, "E_IMPORT_PATH")
    ELSE IF path \in ToSet(stack) THEN End(g, "E_IMPORT_CYCLE")
    ELSE IF path \in DOMAIN g.labels THEN g
    \* Only files that are complete count, not those on the stack.
    ELSE IF Cardinality(DOMAIN g.labels) >= MaxFiles THEN End(g, "E_IMPORT_LIMIT")
    ELSE LET loaded == LoadImports(disk, g, path, disk[path].imports, Append(stack, path))
         IN  IF loaded.fatal # {} THEN loaded
             ELSE [loaded EXCEPT !.order = Append(@, path), !.labels = (path :> label) @@ @]
\* An import with a bad path is reported and passed over.
LoadImports(disk, g, path, imports, stack) ==
    IF imports = <<>> \/ g.fatal # {} THEN g
    ELSE LET alias == Head(imports)[1]
             next == Head(imports)[2]
             known == [g EXCEPT !.targets = (<<path, alias>> :> next) @@ @]
         IN  LoadImports(disk,
                 IF BadPath(next) THEN [g EXCEPT !.reported = @ \cup {"E_IMPORT_PATH"}]
                 ELSE IF next \notin DOMAIN disk THEN End(g, "E_IMPORT_IO")
                 ELSE LoadModule(disk, known, next, alias, stack),
                 path, Tail(imports), stack)

LoadGraph(disk, root) == LoadModule(disk, NoGraph, root, "", <<>>)
-----------------------------------------------------------------------------
(* What is checked on the files. *)
ImportOnlyErrors(file) ==
    Errors(file.app # <<>> \/ file.hasState \/ file.bindings # <<>> \/ file.triggers # <<>>
               \/ file.handlers # <<>>,
           {"E_IMPORT_ONLY_DECL"})

Reserved == {"app", "screen", "service", "device", "hardware", "state", "wifi", "display", "file",
             "debug"}
AliasErrors(file) ==
    LET aliases == [i \in DOMAIN file.imports |-> file.imports[i][1]]
        taken == {name[1] : name \in {n \in Names(file.functions) \cup Names(file.screens) : Len(n) = 1}}
    IN  Errors(Repeated(aliases) \/ ToSet(aliases) \cap (Reserved \cup taken) # {},
               {"E_DUPLICATE_IMPORT_ALIAS"})

\* A state field a module requires is one of the root's, of the same type.
ContractErrors(root, file) ==
    Errors(\E r \in ToSet(file.required) :
               ~\E s \in ToSet(root.state) :
                    s.name = r.name /\ s.type = r.type /\ s.nullable = r.nullable,
           {"E_STATE_CONTRACT"})
-----------------------------------------------------------------------------
(* Names.  The scope of a file: its label, its own functions and screens,   *)
(* the aliases it imports, and what these export, under qualified names.   *)
Aliases(g, path) == {a[2] : a \in {t \in DOMAIN g.targets : t[1] = path}}

Functions(file) == file.functions
Screens(file) == file.screens
\* What the file calls alias.symbol, and the name that has in the linked program.
Exports(disk, g, path, decls(_)) ==
    LET pairs == UNION {{<<alias, d.name>> :
                            d \in {x \in ToSet(decls(disk[g.targets[<<path, alias>>]])) : x.exported}} :
                        alias \in Aliases(g, path)}
    IN  [pair \in pairs |-> <<g.labels[g.targets[<<path, pair[1]>>]]>> \o pair[2]]

Scope(disk, g, path) ==
    [label |-> g.labels[path],
     functions |-> Names(disk[path].functions),
     screens |-> Names(disk[path].screens),
     aliases |-> Aliases(g, path),
     calls |-> Exports(disk, g, path, Functions),
     opens |-> Exports(disk, g, path, Screens)]

Dotted(name) == Len(name) > 1
Split(name) == <<Head(name), Tail(name)>>
Qualify(label, name) == IF label = "" THEN name ELSE <<label>> \o name

CallName(name, s) ==
    IF ~Dotted(name) THEN (IF name \in s.functions THEN Qualify(s.label, name) ELSE name)
    ELSE IF Head(name) = s.label /\ Tail(name) \in s.functions THEN name
    ELSE IF Split(name) \in DOMAIN s.calls THEN s.calls[Split(name)]
    ELSE name
UnknownCall(name, s) ==
    /\ Dotted(name)
    /\ ~(Head(name) = s.label /\ Tail(name) \in s.functions)
    /\ Split(name) \notin DOMAIN s.calls
    /\ Head(name) \in s.aliases

ScreenName(name, s) ==
    IF Dotted(name) THEN (IF Split(name) \in DOMAIN s.opens THEN s.opens[Split(name)] ELSE name)
    ELSE IF name \in s.screens THEN Qualify(s.label, name) ELSE name
UnknownScreen(name, s) == Dotted(name) /\ Split(name) \notin DOMAIN s.opens

RECURSIVE RewriteExpr(_, _)
RewriteExpr(e, s) ==
    CASE e.op = "call"  -> [e EXCEPT !.name = CallName(@, s),
                                     !.args = [i \in DOMAIN @ |-> RewriteExpr(@[i], s)]]
      [] e.op = "bin"   -> [e EXCEPT !.left = RewriteExpr(@, s), !.right = RewriteExpr(@, s)]
      [] e.op = "unary" -> [e EXCEPT !.expr = RewriteExpr(@, s)]
      [] e.op = "field" -> [e EXCEPT !.target = RewriteExpr(@, s)]
      [] OTHER          -> e
RewriteExprs(es, s) == [i \in DOMAIN es |-> RewriteExpr(es[i], s)]

\* The operands of host statements that are rewritten; app, file_ref, color and boxes are not.
RewrittenFields == {"interval_ms", "delay_ms", "wake_after_ms", "value", "text", "drawable",
                    "on_ms", "off_ms"}
RewrittenHost(name) ==
    IF name \in {"DisplayText", "DisplayDraw", "GpioWrite", "IndicatorWrite", "IndicatorBlink",
                 "TimerEvery", "TimerAfter", "PowerSleep"}
    THEN RewrittenFields ELSE {}

RECURSIVE RewriteStatements(_, _)
RewriteStatement(st, s) ==
    CASE st.op \in {"let", "assign", "setState"} -> [st EXCEPT !.expr = RewriteExpr(@, s)]
      [] st.op = "open"   -> [st EXCEPT !.screen = ScreenName(@, s)]
      [] st.op = "call"   -> [st EXCEPT !.name = CallName(@, s), !.args = RewriteExprs(@, s)]
      [] st.op = "print"  -> [st EXCEPT !.args = RewriteExprs(@, s)]
      [] st.op = "return" -> [st EXCEPT !.expr = RewriteExprs(@, s)]
      [] st.op = "if"     -> [st EXCEPT !.condition = RewriteExpr(@, s),
                                        !.yes = RewriteStatements(@, s), !.no = RewriteStatements(@, s)]
      [] st.op = "repeat" -> [st EXCEPT !.count = RewriteExpr(@, s), !.body = RewriteStatements(@, s)]
      [] st.op = "for"    -> [st EXCEPT !.list = RewriteExpr(@, s), !.max = RewriteExprs(@, s),
                                        !.body = RewriteStatements(@, s)]
      [] st.op = "debug"  -> [st EXCEPT !.body = RewriteStatements(@, s)]
      [] st.op = "host"   -> [st EXCEPT !.args =
             [f \in DOMAIN @ |-> IF f \in RewrittenHost(st.name) THEN RewriteExpr(@[f], s) ELSE @[f]]]
      [] OTHER            -> st
RewriteStatements(ss, s) == [i \in DOMAIN ss |-> RewriteStatement(ss[i], s)]

\* What rewriting reports: a name behind an alias of this file that its target does not export.
RewrittenExprs(st) == ExprsOf(st, IF st.op = "host" THEN RewrittenHost(st.name) ELSE {})
SymbolErrors(ss, s) ==
    Errors(\E st \in AllOf(ss, Nesting) :
               \/ st.op = "open" /\ UnknownScreen(st.screen, s)
               \/ st.op = "call" /\ UnknownCall(st.name, s)
               \/ \E e \in RewrittenExprs(st) : \E x \in Within(e) : x.op = "call" /\ UnknownCall(x.name, s),
           {"E_UNKNOWN_MODULE_SYMBOL"})

Rewritten(decls, s) ==
    [i \in DOMAIN decls |-> [decls[i] EXCEPT !.statements = RewriteStatements(@, s)]]
Qualified(decls, s) ==
    [i \in DOMAIN decls |-> [Rewritten(decls, s)[i] EXCEPT !.name = Qualify(s.label, @)]]
-----------------------------------------------------------------------------
(* Linking. *)
ModulesOf(g, root) == SelectSeq(g.order, LAMBDA path : path # root)

LinkErrors(disk, g, root) ==
    g.reported
    \cup UNION {ImportOnlyErrors(disk[m]) \cup ContractErrors(disk[root], disk[m]) :
                    m \in ToSet(ModulesOf(g, root))}
    \cup UNION {AliasErrors(disk[m])
                \cup UNION {SymbolErrors(ss, Scope(disk, g, m)) :
                                ss \in ToSet(BodiesOf(disk[m]) \o disk[m].triggers)} :
                    m \in ToSet(g.order)}

Linked(disk, g, root) ==
    LET s == Scope(disk, g, root)
        file == disk[root]
        added(decls(_)) == FlattenSeq([i \in DOMAIN ModulesOf(g, root) |->
            LET m == ModulesOf(g, root)[i] IN Qualified(decls(disk[m]), Scope(disk, g, m))])
    IN  [file EXCEPT !.imports = <<>>, !.required = <<>>,
                     !.functions = Rewritten(@, s) \o added(Functions),
                     !.screens = Rewritten(@, s) \o added(Screens),
                     !.handlers = Rewritten(@, s),
                     !.triggers = [i \in DOMAIN @ |-> RewriteStatements(@[i], s)]]

\* compile_ast: an app without screens gets an empty one.
Defaulted(p) ==
    IF p.app = <<>> \/ p.screens # <<>> THEN p
    ELSE [p EXCEPT !.screens =
              <<[name |-> <<"main">>, render |-> "compose", statements |-> <<>>, exported |-> FALSE]>>]

\* A trigger's interval is a literal, or the trigger is no trigger.
TimerOf(st) ==
    [event |-> TriggerEvent(st), repeating |-> st.name = "TimerEvery", interval |-> Interval(st).value[2]]
TriggersOf(p) ==
    LET timers == SelectSeq(FlattenSeq(p.triggers), LAMBDA st : IsTimer(st) /\ Interval(st).op = "lit")
    IN  [i \in DOMAIN timers |-> TimerOf(timers[i])]

CompileAst(p, target) ==
    LET d == Defaulted(p)
        codes == Errors(p.app = <<>>, {"E_APP_REQUIRED"})
                 \cup Errors(p.app # <<>> /\ target # "portable" /\ p.app[1].target \notin {"", target},
                             {"E_TARGET_MISMATCH"})
                 \cup Diagnostics(d)
    IN  [codes |-> codes, ok |-> ~\E c \in codes : IsError(c),
         program |-> [timers |-> TriggersOf(d)] @@ d]

\* compile_path_with_profile.
CompilePath(disk, root, target) ==
    LET g == LoadGraph(disk, root)
        codes == LinkErrors(disk, g, root)
    IN  IF g.fatal # {} THEN [codes |-> g.fatal, ok |-> FALSE, program |-> <<>>]
        ELSE IF codes # {} THEN [codes |-> codes, ok |-> FALSE, program |-> <<>>]
        ELSE CompileAst(Linked(disk, g, root), target)

\* compile_with_profile: one file and no directory to import from.
CompileSource(file, target) ==
    LET compiled == CompileAst([file EXCEPT !.imports = <<>>], target)
    IN  IF file.imports = <<>> THEN compiled
        ELSE [compiled EXCEPT !.codes = @ \cup {"E_IMPORT_RESOLVER"}, !.ok = FALSE]
=============================================================================
