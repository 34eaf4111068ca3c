----------------------------- MODULE CheckProgram -----------------------------
(***************************************************************************)
(* The checks of squidc on a linked program (squidc-core, semantic.rs):    *)
(* the errors it reports.  Where an error is and how it is worded is left  *)
(* out, and of the warnings only those about ignored results and shadowed  *)
(* state.                                                                  *)
(***************************************************************************)
EXTENDS Programs, Integers, FiniteSets

FallibleBuiltins ==
    {<<"file", "pickFile">>, <<"file", "readText">>, <<"file", "readLines">>, <<"file", "copy">>,
     <<"binbook", "chapters">>, <<"binbook", "chapter">>, <<"content", "binbook", "list">>}
    \cup {<<"service", "wifi", f>> : f \in {"connect", "disconnect", "scan", "operation", "result",
                                            "cancel", "scanNetwork", "startAP", "stopAP"}}
    \cup {<<"service", "http", f>> : f \in {"start", "stop"}}

Errors(condition, codes) == IF condition THEN codes ELSE {}
Repeated(seq) == \E i, j \in DOMAIN seq : i < j /\ seq[i] = seq[j]
-----------------------------------------------------------------------------
(* Names. *)
CheckedFields(st) ==
    {"app", "file_ref", "interval_ms", "delay_ms", "wake_after_ms", "value", "on_ms", "off_ms",
     "text", "drawable"} \cup (IF st.name = "DisplayRect" THEN Boxed ELSE {})
CheckedExprs(st) == ExprsOf(st, IF st.op = "host" THEN CheckedFields(st) ELSE {})

ExprErrors(e, states, visible) ==
    Errors(\E x \in Within(e) : x.op = "state" /\ x.name \notin states, {"E_MISSING_STATE_FIELD"})
    \cup Errors(\E x \in Within(e) : x.op = "var" /\ x.name \notin visible, {"E_UNDECLARED_VARIABLE"})

\* service.ble.start and service.http.start: the profile, the id, the extensions and the routes.
ProfileErrors(st) ==
    LET bad == \/ st.profile # (IF st.name = "BleStart" THEN "file-transfer" ELSE "file-upload")
               \/ st.args["id"].value[2] = <<>>
               \/ st.accept = <<>> \/ \E i \in DOMAIN st.accept : Head(st.accept[i]) # "."
               \/ ~\E i \in DOMAIN st.events : st.events[i].kind = <<"complete">>
               \/ \E i \in DOMAIN st.events : st.events[i].event = <<>>
    IN  Errors(bad, {IF st.name = "BleStart" THEN "E_BLE_PROFILE" ELSE "E_HTTP_PROFILE"})

\* Declarations hold to the end of their list, and in the lists nested in it.
RECURSIVE NameErrors(_, _, _)
NameErrors(ss, states, visible) ==
    IF ss = <<>> THEN {}
    ELSE LET st == Head(ss)
             declared == IF st.op = "let" THEN {st.name} ELSE {}
             item == IF st.op = "for" THEN {st.item} ELSE {}
         IN  UNION {ExprErrors(e, states, visible) : e \in CheckedExprs(st)}
             \cup Errors((declared \cup item) \cap visible # {}, {"E_DUPLICATE_LOCAL"})
             \cup Errors((declared \cup item) \cap states # {}, {"W_STATE_SHADOW"})
             \cup Errors(st.op = "assign" /\ st.name \notin visible, {"E_UNDECLARED_VARIABLE"})
             \cup Errors(st.op = "setState" /\ st.name \notin states, {"E_MISSING_STATE_FIELD"})
             \cup (IF st.op = "host" /\ st.name \in {"BleStart", "HttpStart"}
                   THEN ProfileErrors(st) ELSE {})
             \cup UNION {NameErrors(body, states, visible \cup item) : body \in ToSet(Bodies(st))}
             \cup NameErrors(Tail(ss), states, visible \cup declared)

ProgramNameErrors(p, states) ==
    UNION {NameErrors(h.statements, states, ToSet(h.params)) : h \in ToSet(p.handlers)}
    \cup UNION {NameErrors(block, states, {}) : block \in ToSet(p.triggers)}
    \cup UNION {NameErrors(f.statements, states, ToSet(f.params)) : f \in ToSet(p.functions)}
    \cup UNION {NameErrors(s.statements, states, {}) : s \in ToSet(p.screens)}
-----------------------------------------------------------------------------
(* Debug blocks. *)
DebugLocals(body) ==
    {st.name : st \in {s \in AllOf(body, Nesting) : s.op = "let"}}
    \cup {st.item : st \in {s \in AllOf(body, Nesting) : s.op = "for"}}

\* Wrong: a debug block may call functions.
AnyDebugBody(body) ==
    \A st \in AllOf(body, Nesting) : st.op \in {"let", "assign", "print", "call"} \cup Nesting
\* Only local set-up, bounded control and printing, and nothing that calls.
DebugBodyAllowed(body) ==
    \A st \in AllOf(body, Nesting) :
        /\ st.op \in {"let", "assign", "print"} \cup Nesting
        /\ st.op = "assign" => st.name \in DebugLocals(body)
        /\ \A e \in ExprsOf(st, {}) : \A x \in Within(e) : x.op # "call"

ExprUses(e, names) == \E x \in Within(e) : x.op \in {"state", "var"} /\ x.name \in names
Uses(st, names) ==
    \E s \in AllOf(<<st>>, Nesting \ {"debug"}) :
        \/ s.op \in {"let", "assign", "setState"} /\ s.name \in names
        \/ s.op = "for" /\ s.item \in names
        \/ s.op # "debug" /\ \E e \in CheckedExprs(s) : ExprUses(e, names)

DebugErrors(ss) ==
    LET lists == Lists(ss, Nesting \ {"debug"})
        blocks == {st \in AllOf(ss, Nesting \ {"debug"}) : st.op = "debug"}
        leaks(list) == \E i, j \in DOMAIN list :
                           i < j /\ list[i].op = "debug" /\ Uses(list[j], DebugLocals(list[i].body))
    IN  Errors((\E b \in blocks : ~DebugBodyAllowed(b.body)) \/ (\E l \in lists : leaks(l)),
               {"E_DEBUG_BLOCK"})
-----------------------------------------------------------------------------
(* Screens only draw. *)
Impure(st, functions) ==
    \/ st.op \in {"store", "open", "refresh", "exit", "setState"}
    \/ st.op = "host" /\ st.name \notin DOMAIN DisplayStatements
    \/ st.op = "call" /\ st.name \in FallibleBuiltins \cup functions

\* Wrong: only what a function does itself counts.
DirectlyImpure(p, known) ==
    {f.name : f \in {g \in ToSet(p.functions) : \E st \in AllOf(g.statements, Nesting) : Impure(st, {})}}
RECURSIVE ImpureFrom(_, _)
ImpureFrom(p, known) ==
    LET more == {f.name : f \in {g \in ToSet(p.functions) :
                                     \E st \in AllOf(g.statements, Nesting) : Impure(st, known)}}
    IN  IF more \subseteq known THEN known ELSE ImpureFrom(p, known \cup more)

\* The list of statements a screen may not have is its own one.
ScreenForbids(st, functions) ==
    \/ st.op = "store" /\ st.what # "StateReset"
    \/ st.op \in {"open", "refresh", "exit", "setState"}
    \/ st.op = "host" /\ st.name \notin DOMAIN DisplayStatements
                      /\ st.name \notin {"BleStart", "BleStop", "HttpStart", "HttpStop"}
    \/ st.op = "call" /\ st.name \in FallibleBuiltins \cup functions

UnknownScreens(ss, screens) ==
    Errors(\E st \in AllOf(ss, Nesting) : st.op = "open" /\ st.screen \notin screens,
           {"E_UNKNOWN_SCREEN"})

HandlerErrors(ss, screens) ==
    Errors(\E st \in AllOf(ss, Nesting) : st.op = "host" /\ st.name \in DOMAIN DisplayStatements,
           {"E_DISPLAY_OUTSIDE_SCREEN"})
    \cup UnknownScreens(ss, screens)

IgnoredResults(ss) ==
    Errors(\E st \in AllOf(ss, Nesting) : st.op = "call" /\ st.name \in FallibleBuiltins,
           {"W_IGNORED_RESULT"})
-----------------------------------------------------------------------------
(* Triggers, profiles, tables. *)
IsTimer(st) == st.op = "host" /\ st.name \in {"TimerEvery", "TimerAfter"}
Interval(st) == IF st.name = "TimerEvery" THEN st.args["interval_ms"] ELSE st.args["delay_ms"]
TriggerEvent(st) == st.args["event"].value[2]

\* Wrong: an interval may be 0.
AnyInterval(block) ==
    Errors(\E i \in DOMAIN block : \/ ~IsTimer(block[i]) \/ Interval(block[i]).op # "lit"
                                   \/ Interval(block[i]).value[1] # "int",
           {"E_APP_TRIGGER_STATEMENT"})
TriggerErrors(block) ==
    Errors(\E i \in DOMAIN block :
               \/ ~IsTimer(block[i])
               \/ Interval(block[i]).op # "lit" \/ Interval(block[i]).value[1] # "int"
               \/ Interval(block[i]).value[2] \notin 1 .. MaxI32,
           {"E_APP_TRIGGER_STATEMENT"})

TriggerRouteErrors(p) ==
    LET timers == SelectSeq(FlattenSeq(p.triggers), IsTimer)
        events == [i \in DOMAIN timers |-> TriggerEvent(timers[i])]
        handled == {h.event : h \in ToSet(p.handlers)}
    IN  Errors(Repeated(events), {"E_DUPLICATE_TRIGGER_EVENT"})
        \cup Errors(~(ToSet(events) \subseteq handled), {"E_TRIGGER_HANDLER"})

\* One set of ids for both kinds of profile, over the whole program.
ProfileIdErrors(p) ==
    LET starts == SelectSeq(InOrder(FlattenSeq(BodiesOf(p) \o p.triggers)),
                            LAMBDA st : st.op = "host" /\ st.name \in {"BleStart", "HttpStart"})
    IN  Errors(Repeated([i \in DOMAIN starts |-> starts[i].args["id"]]), {"E_DUPLICATE_PROFILE_ID"})

NamesOf(decls) == [i \in DOMAIN decls |-> decls[i].name]

TableErrors(p) ==
    Errors(Repeated([i \in DOMAIN p.bindings |-> <<p.bindings[i].service, p.bindings[i].binding>>]),
           {"E_DUPLICATE_DEVICE_BINDING"})
    \cup Errors(Repeated([i \in DOMAIN p.handlers |-> p.handlers[i].event]), {"E_DUPLICATE_HANDLER"})

FunctionErrors(p, states) ==
    Errors(Repeated(NamesOf(p.functions)), {"E_DUPLICATE_FUNCTION"})
    \cup Errors(\E f \in ToSet(p.functions) : Repeated(f.params), {"E_DUPLICATE_PARAM"})
    \cup Errors(\E f \in ToSet(p.functions) : ToSet(f.params) \cap states # {}, {"W_STATE_SHADOW"})

ScreenErrors(p) ==
    Errors(Repeated(NamesOf(p.screens)), {"E_DUPLICATE_SCREEN"})
    \cup Errors(\E s \in ToSet(p.screens) : s.render \notin {"compose", "stream"}, {"E_RENDER_POLICY"})
    \cup Errors(\E s \in ToSet(p.screens) : \E st \in AllOf(s.statements, Nesting) :
                    ScreenForbids(st, ImpureFrom(p, {})), {"E_RENDER_PURITY"})

\* validate_semantics: everything that is reported on a program.
Diagnostics(p) ==
    LET states == Names(p.state)
        screens == Names(p.screens)
        lists == ToSet(BodiesOf(p))
    IN  TableErrors(p) \cup TriggerRouteErrors(p) \cup ProfileIdErrors(p)
        \cup FunctionErrors(p, states) \cup ScreenErrors(p)
        \cup Errors(\E h \in ToSet(p.handlers) : h.event = <<"app", "arm">>, {"E_APP_ARM_HANDLER"})
        \cup UNION {HandlerErrors(h.statements, screens) : h \in ToSet(p.handlers)}
        \cup UNION {UnknownScreens(f.statements, screens) : f \in ToSet(p.functions)}
        \cup UNION {TriggerErrors(block) : block \in ToSet(p.triggers)}
        \cup UNION {DebugErrors(ss) \cup IgnoredResults(ss) : ss \in lists}
        \cup ProgramNameErrors(p, states)
IsError(code) == code \notin {"W_STATE_SHADOW", "W_IGNORED_RESULT"}
=============================================================================
