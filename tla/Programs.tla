------------------------------- MODULE Programs -------------------------------
(***************************************************************************)
(* Programs as the compiler's passes see them (squidc-core, ast.rs and     *)
(* ir.rs), and the ways a pass walks through them.  A name or a text is a  *)
(* sequence of parts: "reader.open" is <<"reader", "open">>, so that       *)
(* split_once('.') takes its head and its tail.                            *)
(***************************************************************************)
EXTENDS SequencesExt

CONSTANT MaxI32  \* the greatest i32

(* Expressions: "lit" with a value; "state" and "var" with a name; "bin"    *)
(* with operator, left and right; "unary" with expr; "field" with target   *)
(* and field; "read" with a host function and literal args; "call" with a   *)
(* name and args.  A value is a pair of its type and its content.          *)
Lit(value) == [op |-> "lit", value |-> value]
TextLit(t) == Lit(<<"text", t>>)
IntLit(i) == Lit(<<"int", i>>)
NullLit == Lit(<<"null", 0>>)

SubExprs(e) ==
    CASE e.op = "bin"             -> <<e.left, e.right>>
      [] e.op = "unary"           -> <<e.expr>>
      [] e.op = "field"           -> <<e.target>>
      [] e.op \in {"call", "read"} -> e.args
      [] OTHER                    -> <<>>
RECURSIVE Within(_)
Within(e) == {e} \cup UNION {Within(x) : x \in ToSet(SubExprs(e))}
-----------------------------------------------------------------------------
(* Host statements: the builtin and the operands it is called with, in the  *)
(* order in which they are pushed.                                         *)
Host(builtin, fields) == [builtin |-> builtin, fields |-> fields]

AppStatements ==
    [AppLaunch |-> Host("app_launch", <<"app">>),
     AppArm |-> Host("app_arm", <<"app">>),
     AppDisarm |-> Host("app_disarm", <<"app">>)]
\* An install names the app or leaves that to the package's metadata.
AppInstallStatements ==
    [AppInstall |-> Host("app_install", <<"app_id", "file_ref">>),
     AppInstallMetadata |-> Host("app_install_metadata", <<"file_ref">>)]
ServiceStatements ==
    [TimerEvery |-> Host("timer_every", <<"event", "interval_ms">>),
     TimerAfter |-> Host("timer_after", <<"event", "delay_ms">>),
     BleStart |-> Host("ble_start", <<"id">>),
     BleStop |-> Host("ble_stop", <<>>),
     HttpStart |-> Host("http_start", <<"id">>),
     HttpStop |-> Host("http_stop", <<>>),
     PowerSleep |-> Host("power_sleep", <<"wake_after_ms">>)]
HardwareStatements ==
    [GpioWrite |-> Host("gpio_write", <<"value", "name">>),
     GpioToggle |-> Host("gpio_toggle", <<"name">>),
     IndicatorWrite |-> Host("indicator_write", <<"value">>),
     IndicatorToggle |-> Host("indicator_toggle", <<>>),
     IndicatorBreathe |-> Host("indicator_breathe", <<>>),
     IndicatorBlink |-> Host("indicator_blink", <<"on_ms", "off_ms">>)]
DisplayStatements ==
    [DisplayClear |-> Host("display_clear", <<"color">>),
     DisplayText |-> Host("display_text",
         <<"text", "x", "y", "w", "h", "fontHeight", "textColor", "backgroundColor", "align", "valign">>),
     DisplayRect |-> Host("display_rect", <<"x", "y", "w", "h", "fillColor", "strokeColor">>),
     DisplayLine |-> Host("display_line", <<"x1", "y1", "x2", "y2", "color">>),
     DisplaySelect |-> Host("display_select", <<"name">>),
     DisplayRefreshMode |-> Host("display_refresh_mode", <<"mode">>),
     DisplayImage |-> Host("display_image", <<"path", "x", "y", "w", "h">>),
     DisplayDraw |-> Host("display_draw", <<"drawable", "x", "y", "w", "h">>)]
HostStatements ==
    AppStatements @@ AppInstallStatements @@ ServiceStatements @@ HardwareStatements @@ DisplayStatements

Boxed == {"x", "y", "w", "h"}
OptionalText == {"align", "valign"}
OptionalNumber == {"fontHeight"} \cup Boxed
\* What is pushed for a field: an option that is missing is 0, a colour or an alignment Null.
Operand(st, field) ==
    IF field \in OptionalText
    THEN IF field \in DOMAIN st.args /\ st.args[field].op = "lit" /\ st.args[field].value[1] = "text"
         THEN st.args[field] ELSE NullLit
    ELSE IF field \in DOMAIN st.args THEN st.args[field]
    ELSE IF field \in OptionalNumber THEN IntLit(0) ELSE NullLit
Operands(st) ==
    LET fields == HostStatements[st.name].fields
    IN  [i \in DOMAIN fields |-> Operand(st, fields[i])]
-----------------------------------------------------------------------------
(* Statements: "let", "assign" and "setState" with name and expr; "if" with *)
(* condition, yes and no; "repeat" with count and body; "for" with item,    *)
(* list, max (no or one expression) and body; "return" with expr (no or     *)
(* one); "call" with name and args; "print" with args; "debug" with body;   *)
(* "store" with what; "open" with screen; "refresh"; "exit"; "host" with    *)
(* name and args.                                                          *)
Nesting == {"if", "repeat", "for", "debug"}

Bodies(st) ==
    CASE st.op = "if"                         -> <<st.yes, st.no>>
      [] st.op \in {"repeat", "for", "debug"} -> <<st.body>>
      [] OTHER                                -> <<>>

\* The expressions of a statement, of a host statement those of the given fields.
ExprsOf(st, fields) ==
    CASE st.op \in {"let", "assign", "setState"} -> {st.expr}
      [] st.op = "if"                -> {st.condition}
      [] st.op = "repeat"            -> {st.count}
      [] st.op = "for"               -> {st.list} \cup ToSet(st.max)
      [] st.op = "return"            -> ToSet(st.expr)
      [] st.op \in {"call", "print"} -> ToSet(st.args)
      [] st.op = "host"              -> {st.args[f] : f \in fields \cap DOMAIN st.args}
      [] OTHER                       -> {}

\* The statement lists of a body, down into the statements of the given kinds.
RECURSIVE Lists(_, _)
Lists(ss, ops) ==
    {ss} \cup UNION {UNION {Lists(body, ops) : body \in ToSet(Bodies(st))} :
                         st \in {s \in ToSet(ss) : s.op \in ops}}
AllOf(ss, ops) == UNION {ToSet(list) : list \in Lists(ss, ops)}

\* Statements in document order.
RECURSIVE InOrder(_)
InOrder(ss) ==
    IF ss = <<>> THEN <<>>
    ELSE <<Head(ss)>> \o FlattenSeq([i \in DOMAIN Bodies(Head(ss)) |-> InOrder(Bodies(Head(ss))[i])])
         \o InOrder(Tail(ss))

(* A program: app, store, state, bindings, triggers (blocks of statements), *)
(* functions, handlers and screens; a source file also has imports and     *)
(* required state.                                                         *)
BodiesOf(p) ==
    [i \in DOMAIN p.functions |-> p.functions[i].statements]
    \o [i \in DOMAIN p.handlers |-> p.handlers[i].statements]
    \o [i \in DOMAIN p.screens |-> p.screens[i].statements]
Names(decls) == {decls[i].name : i \in DOMAIN decls}
=============================================================================
