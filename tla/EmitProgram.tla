------------------------------ MODULE EmitProgram ------------------------------
(***************************************************************************)
(* Code generation (squidc-core, sqbc.rs): what the statements and         *)
(* expressions of a checked program compile to.  A unit is                 *)
(*   strings  the string table,                                            *)
(*   code     the instructions so far, [op, v, n] as the VM reads them,    *)
(*            with the ids and addresses of the file, which count from 0,  *)
(*   locals   the slots of the names of the frame that is compiled,        *)
(*   next     its next free slot,                                          *)
(*   bad      whether something could not be compiled.                     *)
(* The environment gives the state fields, the functions and the profile.  *)
(***************************************************************************)
EXTENDS Programs, Integers, FiniteSets

CONSTANT Limits  \* the limits of squidvm-limits, a record

NoUnit == [strings |-> <<>>, code |-> <<>>, locals |-> <<>>, next |-> 0, bad |-> FALSE]
Bad(u) == [u EXCEPT !.bad = TRUE]

StringId(u, t) == (CHOOSE i \in DOMAIN u.strings : u.strings[i] = t) - 1
Intern(u, t) == IF t \in ToSet(u.strings) THEN u ELSE [u EXCEPT !.strings = Append(@, t)]

Ins(op, v, n) == [op |-> op, v |-> v, n |-> n]
Op(op) == Ins(op, 0, 0)
Put(u, ins) == [u EXCEPT !.code = Append(@, ins)]
PutText(u, t) == LET v == Intern(u, t) IN Put(v, Ins("Push", <<"string", StringId(v, t)>>, 0))
PutInt(u, i) == Put(u, Ins("Push", <<"int", i>>, 0))
PutNull(u) == Put(u, Ins("Push", <<"null", 0>>, 0))

\* An address that is known when the code behind it is.
Here(u) == Len(u.code)
PatchHere(u, at) == [u EXCEPT !.code[at].v = Here(u)]

\* A name keeps its slot to the end of the frame.
Define(u, name) ==
    IF name \in DOMAIN u.locals THEN u
    ELSE [u EXCEPT !.locals = (name :> u.next) @@ @, !.next = @ + 1]
PutLocal(u, op, name) ==
    IF name \in DOMAIN u.locals THEN Put(u, Ins(op, u.locals[name], 0)) ELSE Bad(u)
DefineAndSet(u, name) == PutLocal(Define(u, name), "SetLocal", name)

\* The index, from 0, of the last declaration with a name.
IdOf(names, name) ==
    (CHOOSE i \in DOMAIN names : names[i] = name /\ \A j \in DOMAIN names : names[j] = name => j <= i) - 1
PutId(u, op, names, name, n) ==
    IF name \in ToSet(names) THEN Put(u, Ins(op, IdOf(names, name), n)) ELSE Bad(u)
-----------------------------------------------------------------------------
(* Functions of the host that are called by name: the builtin for each      *)
(* number of arguments.                                                    *)
Callee(builtin, counts) == [builtin |-> builtin, counts |-> counts]
Wifi(f) == <<"service", "wifi", f>>
Config(f) == <<"device", "config", f>>

AppCalls ==
    <<"app", "registry">> :> Callee("app_registry_list", {0})
    @@ <<"app", "registry", "get">> :> Callee("app_registry_get", {2})
    @@ <<"app", "processStack">> :> Callee("app_process_stack", {0})
    @@ <<"app", "armedStack">> :> Callee("app_armed_stack", {0})
    @@ <<"app", "armedStack", "get">> :> Callee("app_armed_stack_get", {2})
WifiCalls ==
    Wifi("startAP") :> Callee("wifi_start_ap", {1}) @@ Wifi("connect") :> Callee("wifi_connect", {1})
    @@ Wifi("stopAP") :> Callee("wifi_stop_ap", {0}) @@ Wifi("status") :> Callee("wifi_status", {0})
    @@ Wifi("getAPIP") :> Callee("wifi_get_ap_ip", {0})
    @@ Wifi("disconnect") :> Callee("wifi_disconnect", {0}) @@ Wifi("scan") :> Callee("wifi_scan", {0})
    @@ Wifi("operation") :> Callee("wifi_operation", {0}) @@ Wifi("result") :> Callee("wifi_result", {0})
    @@ Wifi("cancel") :> Callee("wifi_cancel", {0})
    @@ Wifi("scanNetwork") :> Callee("wifi_scan_network", {1})
ConfigCalls ==
    Config("load") :> Callee("device_config_load", {1}) @@ Config("set") :> Callee("device_config_set", {2})
    @@ Config("rebind") :> Callee("device_config_rebind", {1})
    @@ Config("save") :> Callee("device_config_save", {1})
ContentCalls ==
    <<"binbook", "open">> :> Callee("binbook_open", {1})
    @@ <<"binbook", "info">> :> Callee("binbook_info", {1})
    @@ <<"binbook", "readPage">> :> Callee("binbook_read_page", {2})
    @@ <<"file", "pickFile">> :> Callee("file_pick_file", {1})
    @@ <<"file", "readText">> :> Callee("file_read_text", {1})
    @@ <<"file", "readLines">> :> Callee("file_read_lines", {2})
    @@ <<"service", "display", "info">> :> Callee("display_info", {0})
\* The calls whose second argument is an object, or that are compiled by hand.
ObjectCalls ==
    <<"binbook", "chapters">> :> Callee("binbook_chapters", {1, 2})
    @@ <<"content", "binbook", "list">> :> Callee("content_binbook_list", {1, 2})
    @@ <<"binbook", "chapter">> :> Callee("binbook_chapter", {2})
    @@ <<"file", "copy">> :> Callee("file_copy", {2})
Calls == AppCalls @@ WifiCalls @@ ConfigCalls @@ ContentCalls @@ ObjectCalls

\* app.install is two builtins, told apart by the number of arguments.
Resolve(name, count) ==
    IF name = <<"app", "install">>
    THEN CASE count = 1 -> {Callee("app_install_metadata", {1})}
           [] count = 2 -> {Callee("app_install", {2})}
           [] OTHER     -> {}
    ELSE IF name \in DOMAIN Calls THEN {Calls[name]} ELSE {}

PutCall(u, env, name, count) ==
    IF Resolve(name, count) = {} THEN PutId(u, "CallFunction", env.functions, name, count)
    ELSE LET callee == CHOOSE c \in Resolve(name, count) : TRUE
         IN  IF count \in callee.counts THEN Put(u, Ins("Call", callee.builtin, 0)) ELSE Bad(u)

\* The functions of the host that expressions read without a call's syntax.
Reads == [gpio |-> "gpio_read", indicator |-> "indicator_read", memory |-> "system_memory",
          storage |-> "system_storage", startReason |-> "system_start_reason"]

\* Wrong: <= and < are the same instruction.
LaxOperators ==
    [o \in {"+", "-", "==", "!=", "<", "<=", ">", ">="} |->
        CASE o = "+" -> Op("Add") [] o = "-" -> Ins("Binary", "Sub", 0)
          [] o = "==" -> Ins("Binary", "Eq", 0) [] o = "!=" -> Ins("Binary", "Ne", 0)
          [] o \in {"<", "<="} -> Ins("Binary", "Lt", 0)
          [] o = ">" -> Ins("Binary", "Gt", 0) [] o = ">=" -> Ins("Binary", "Gte", 0)]
Operators ==
    [o \in {"+", "-", "==", "!=", "<", "<=", ">", ">="} |->
        CASE o = "+" -> Op("Add") [] o = "-" -> Ins("Binary", "Sub", 0)
          [] o = "==" -> Ins("Binary", "Eq", 0) [] o = "!=" -> Ins("Binary", "Ne", 0)
          [] o = "<" -> Ins("Binary", "Lt", 0) [] o = "<=" -> Ins("Binary", "Lte", 0)
          [] o = ">" -> Ins("Binary", "Gt", 0) [] o = ">=" -> Ins("Binary", "Gte", 0)]
-----------------------------------------------------------------------------
(* Expressions. *)
EmitLiteral(u, v) ==
    CASE v[1] = "text" -> PutText(u, v[2])
      [] v[1] = "int"  -> IF v[2] \in -MaxI32 - 1 .. MaxI32 THEN PutInt(u, v[2]) ELSE Bad(u)
      [] v[1] \in {"bool", "null"} -> Put(u, Ins("Push", v, 0))
      [] OTHER         -> Bad(u)  \* an object

IsObject(args, i) == i \in DOMAIN args /\ args[i].op = "lit" /\ args[i].value[1] = "object"
\* What an option of a page is, in its order.
Page(args) ==
    IF Len(args) = 1 THEN <<IntLit(0), IntLit(8)>>
    ELSE [i \in 1 .. 2 |->
             LET key == <<"offset", "limit">>[i]
                 given == args[2].value[2]
             IN  IF key \in DOMAIN given THEN given[key] ELSE IntLit(0)]
Paged == {<<"binbook", "chapters">>, <<"content", "binbook", "list">>}

\* What is pushed for the arguments of a call in an expression.
Arguments(e) ==
    IF e.name \in Paged /\ e.args # <<>> THEN <<e.args[1]>> \o Page(e.args)
    ELSE IF e.name = <<"file", "copy">> /\ Len(e.args) = 2
         THEN <<e.args[1], e.args[2].value[2]["library"], e.args[2].value[2]["name"]>>
    ELSE e.args
WellFormed(e) ==
    /\ e.name \in Paged => Len(e.args) \in {1, 2} /\ (Len(e.args) = 2 => IsObject(e.args, 2))
    /\ e.name = <<"file", "copy">> =>
         /\ Len(e.args) = 2 /\ IsObject(e.args, 2)
         /\ {"library", "name"} \subseteq DOMAIN e.args[2].value[2]
         /\ e.args[2].value[2]["library"].op = "lit"

RECURSIVE EmitExpr(_, _, _)
EmitExprs(u, env, es) == FoldLeft(LAMBDA v, e : EmitExpr(v, env, e), u, es)
EmitBinary(u, env, e) ==
    Put(EmitExpr(EmitExpr(u, env, e.left), env, e.right), Operators[e.operator])
EmitField(u, env, e) ==
    LET v == Intern(EmitExpr(u, env, e.target), e.field)
    IN  Put(v, Ins("GetField", StringId(v, e.field), 0))
EmitExpr(u, env, e) ==
    CASE u.bad          -> u
      [] e.op = "lit"   -> EmitLiteral(u, e.value)
      [] e.op = "state" -> PutId(u, "GetState", env.states, e.name, 0)
      [] e.op = "var"   -> PutLocal(u, "GetLocal", e.name)
      [] e.op = "bin"   -> IF e.operator \in DOMAIN Operators THEN EmitBinary(u, env, e) ELSE Bad(u)
      [] e.op = "unary" -> Bad(u)
      [] e.op = "field" -> EmitField(u, env, e)
      [] e.op = "read"  -> Put(EmitExprs(u, env, e.args), Ins("Call", Reads[e.host], 0))
      [] e.op = "call"  ->
           IF WellFormed(e) THEN PutCall(EmitExprs(u, env, Arguments(e)), env, e.name, Len(e.args))
           ELSE Bad(u)
-----------------------------------------------------------------------------
(* Statements. *)
RECURSIVE EmitStatements(_, _, _)
EmitIf(u, env, st) ==
    LET tested == Put(EmitExpr(u, env, st.condition), Op("JumpIfFalse"))
        yes == Put(EmitStatements(tested, env, st.yes), Op("Jump"))
        no == EmitStatements(PatchHere(yes, Here(tested)), env, st.no)
    IN  PatchHere(no, Here(yes))

\* Every repeat of a frame counts in the same local.
Counter == <<"__repeat_counter">>
EmitRepeat(u, env, st) ==
    LET entered == DefineAndSet(EmitExpr(u, env, st.count), Counter)
        tested == Put(Put(PutInt(PutLocal(entered, "GetLocal", Counter), 0), Operators[">"]),
                      Op("JumpIfFalse"))
        body == PutLocal(EmitStatements(tested, env, st.body), "GetLocal", Counter)
        counted == PutLocal(Put(PutInt(body, 1), Operators["-"]), "SetLocal", Counter)
    IN  PatchHere(Put(counted, Ins("Jump", Here(entered), 0)), Here(tested))

ForList == <<"__for_list">>
ForIndex == <<"__for_index">>
ForMax == <<"__for_max">>
\* Leaves the loop unless the index is below what `bound' pushes.
LoopTest(u, bound(_)) ==
    Put(Put(bound(PutLocal(u, "GetLocal", ForIndex)), Operators["<"]), Op("JumpIfFalse"))
EmitFor(u, env, st) ==
    LET listed == DefineAndSet(EmitExpr(u, env, st.list), ForList)
        indexed == DefineAndSet(PutInt(listed, 0), ForIndex)
        bounded == IF st.max = <<>> THEN PutInt(indexed, MaxI32) ELSE EmitExpr(indexed, env, st.max[1])
        entered == Define(DefineAndSet(bounded, ForMax), st.item)
        inList == LoopTest(entered, LAMBDA v : Put(PutLocal(v, "GetLocal", ForList), Op("ListLen")))
        inMax == LoopTest(inList, LAMBDA v : PutLocal(v, "GetLocal", ForMax))
        item == PutLocal(PutLocal(inMax, "GetLocal", ForList), "GetLocal", ForIndex)
        bound == PutLocal(Put(item, Op("ListGet")), "SetLocal", st.item)
        body == PutLocal(EmitStatements(bound, env, st.body), "GetLocal", ForIndex)
        counted == PutLocal(Put(PutInt(body, 1), Op("Add")), "SetLocal", ForIndex)
        left == Put(counted, Ins("Jump", Here(entered), 0))
    IN  PatchHere(PatchHere(left, Here(inList)), Here(inMax))

\* The locals of a debug block are its own, and their slots stay reserved.
EmitDebug(u, env, st) ==
    LET body == EmitStatements(u, env, st.body)
    IN  IF env.dev THEN [body EXCEPT !.locals = u.locals] ELSE u
EmitPrint(u, env, st) ==
    IF env.dev THEN Put(EmitExprs(u, env, st.args), Ins("DebugPrint", Len(st.args), 0)) ELSE u

\* Wrong: nothing takes the result of a call away.
CallKept(u, env, st) == PutCall(EmitExprs(u, env, st.args), env, st.name, Len(st.args))
EmitCall(u, env, st) ==
    Put(PutCall(EmitExprs(u, env, st.args), env, st.name, Len(st.args)), Op("Pop"))

EmitHost(u, env, st) ==
    LET called == Put(EmitExprs(u, env, Operands(st)), Ins("Call", HostStatements[st.name].builtin, 0))
    IN  IF st.name \in DOMAIN AppInstallStatements THEN Put(called, Op("Pop")) ELSE called

\* The first error ends it.
EmitStatement(u, env, st) ==
    CASE u.bad              -> u
      [] st.op = "store"    -> Put(u, Op(st.what))
      [] st.op = "exit"     -> Put(u, Op("AppExit"))
      [] st.op = "refresh"  -> Put(u, Op("ScreenRefresh"))
      [] st.op = "open"     -> Put(PutText(u, st.screen), Op("ScreenOpen"))
      [] st.op = "assign"   -> PutLocal(EmitExpr(u, env, st.expr), "SetLocal", st.name)
      [] st.op = "let"      -> DefineAndSet(EmitExpr(u, env, st.expr), st.name)
      [] st.op = "setState" -> PutId(EmitExpr(u, env, st.expr), "SetState", env.states, st.name, 0)
      [] st.op = "return"   ->
           Put(IF st.expr = <<>> THEN PutNull(u) ELSE EmitExpr(u, env, st.expr[1]), Op("Return"))
      [] st.op = "if"       -> EmitIf(u, env, st)
      [] st.op = "repeat"   -> EmitRepeat(u, env, st)
      [] st.op = "for"      -> EmitFor(u, env, st)
      [] st.op = "call"     -> EmitCall(u, env, st)
      [] st.op = "print"    -> EmitPrint(u, env, st)
      [] st.op = "debug"    -> EmitDebug(u, env, st)
      [] st.op = "host"     -> EmitHost(u, env, st)
EmitStatements(u, env, ss) == FoldLeft(LAMBDA v, st : EmitStatement(v, env, st), u, ss)
-----------------------------------------------------------------------------
(* The texts that are in the table whether or not code pushes them. *)
RECURSIVE ExprTexts(_), StatementTexts(_, _)
ExprTexts(e) ==
    CASE e.op = "lit"   -> IF e.value[1] = "text" THEN <<e.value[2]>> ELSE <<>>
      [] e.op = "state" -> <<e.name>>
      [] e.op = "field" -> ExprTexts(e.target) \o <<e.field>>
      [] OTHER          -> (IF e.op = "call" THEN <<e.name>> ELSE <<>>)
                           \o FlattenSeq([i \in DOMAIN SubExprs(e) |-> ExprTexts(SubExprs(e)[i])])
TextsOf(es) == FlattenSeq([i \in DOMAIN es |-> ExprTexts(es[i])])

\* A profile's own texts; "server" is the only role there is.
ProfileTexts(st) ==
    <<<<st.profile>>, st.args["id"].value[2], <<"server">>>> \o st.accept
    \o FlattenSeq([i \in DOMAIN st.events |-> <<st.events[i].kind, st.events[i].event>>])
OwnTexts(st) ==
    CASE st.op = "open" -> <<st.screen>>
      [] st.op \in {"let", "assign", "setState"} -> <<st.name>> \o ExprTexts(st.expr)
      [] st.op = "if"     -> ExprTexts(st.condition)
      [] st.op = "repeat" -> ExprTexts(st.count)
      [] st.op = "for"    -> ExprTexts(st.list) \o TextsOf(st.max)
      [] st.op = "return" -> TextsOf(st.expr)
      [] st.op = "call"   -> <<st.name>> \o TextsOf(st.args)
      [] st.op = "print"  -> TextsOf(st.args)
      [] st.op = "host"   ->
           (IF st.name \in {"BleStart", "HttpStart"} THEN ProfileTexts(st) ELSE <<>>)
           \o TextsOf(Operands(st))
      [] OTHER            -> <<>>
StatementTexts(ss, dev) ==
    FlattenSeq([i \in DOMAIN ss |->
        IF ss[i].op \in {"print", "debug"} /\ ~dev THEN <<>>
        ELSE OwnTexts(ss[i])
             \o FlattenSeq([j \in DOMAIN Bodies(ss[i]) |-> StatementTexts(Bodies(ss[i])[j], dev)])])

ProgramTexts(p, dev) ==
    LET bindings == FlattenSeq([i \in DOMAIN p.bindings |->
            <<p.bindings[i].service, p.bindings[i].binding, p.bindings[i].resource>>])
        slots == FlattenSeq([i \in DOMAIN p.state |->
            <<p.state[i].name>> \o (IF p.state[i].default[1] = "text" THEN <<p.state[i].default[2]>> ELSE <<>>)])
        functions == FlattenSeq([i \in DOMAIN p.functions |->
            <<p.functions[i].name>> \o p.functions[i].params \o StatementTexts(p.functions[i].statements, dev)])
        handlers == FlattenSeq([i \in DOMAIN p.handlers |->
            <<p.handlers[i].event>> \o StatementTexts(p.handlers[i].statements, dev)])
        screens == FlattenSeq([i \in DOMAIN p.screens |->
            <<p.screens[i].name>> \o StatementTexts(p.screens[i].statements, dev)])
    IN  <<p.app[1].id>> \o bindings \o [i \in DOMAIN p.timers |-> p.timers[i].event]
        \o slots \o functions \o handlers \o screens
CollectStrings(p, dev) ==
    LET texts == ProgramTexts(p, dev)
        first == SelectSeq([i \in DOMAIN texts |-> i], LAMBDA i : \A j \in 1 .. i - 1 : texts[j] # texts[i])
    IN  [NoUnit EXCEPT !.strings = [i \in DOMAIN first |-> texts[first[i]]]]
-----------------------------------------------------------------------------
(* Frames: a function falls off its end with null, the others halt. *)
EnterFrame(u, params) == FoldLeft(Define, [u EXCEPT !.locals = <<>>, !.next = 0], params)
Ending(kind) == IF kind = "function" THEN <<Ins("Push", <<"null", 0>>, 0), Op("Return")>> ELSE <<Op("Halt")>>

\* The bytes of an instruction.
Width(ins) ==
    CASE ins.op = "Push" -> (CASE ins.v[1] = "int" -> 5 [] ins.v[1] = "bool" -> 2
                               [] ins.v[1] = "string" -> 3 [] OTHER -> 1)
      [] ins.op \in {"GetState", "SetState", "GetLocal", "SetLocal", "GetField", "DebugPrint"} -> 3
      [] ins.op \in {"Jump", "JumpIfFalse", "CallFunction"} -> 5
      [] ins.op \in {"Call", "AppExit", "ScreenOpen", "ScreenRefresh", "StateLoad", "StateSave",
                     "StateReset"} -> 2
      [] OTHER -> 1
Bytes(code) == FoldLeft(LAMBDA n, ins : n + Width(ins), 0, code)

\* The frames in the order of their code; a screen has no parameters.
Framed(kind, name, params, statements) ==
    [kind |-> kind, name |-> name, params |-> params, statements |-> statements]
FramesOf(p) ==
    [i \in DOMAIN p.functions |->
        Framed("function", p.functions[i].name, p.functions[i].params, p.functions[i].statements)]
    \o [i \in DOMAIN p.handlers |->
        Framed("handler", p.handlers[i].event, p.handlers[i].params, p.handlers[i].statements)]
    \o [i \in DOMAIN p.screens |-> Framed("screen", p.screens[i].name, <<>>, p.screens[i].statements)]

\* One frame at the end of the code, and its entry in the table of its kind.
CloseFrame(acc, done, frame) ==
    LET start == Here(acc.unit)
        meta == [kind |-> frame.kind, name |-> StringId(done, frame.name), params |-> Len(frame.params),
                 locals |-> done.next, start |-> start, len |-> Here(done) - start]
        large == Bytes(SubSeq(done.code, start + 1, Here(done))) > Limits.chunk
    IN  [unit |-> IF large THEN Bad(done) ELSE done, metas |-> Append(acc.metas, meta)]
EmitBody(u, env, frame) ==
    EmitStatements(EnterFrame(Intern(u, frame.name), frame.params), env, frame.statements)
EmitFrame(acc, env, frame) ==
    IF acc.unit.bad THEN acc
    ELSE CloseFrame(acc, [EmitBody(acc.unit, env, frame) EXCEPT !.code = @ \o Ending(frame.kind)], frame)

OverLimits(p, u) ==
    \/ FoldLeft(LAMBDA n, t : n + Len(t), 0, u.strings) > Limits.stringBytes
    \/ Len(u.strings) > Limits.strings
    \/ Len(p.functions) > Limits.functions
    \/ Len(p.handlers) > Limits.handlers
    \/ Len(p.screens) > Limits.screens
    \/ Len(p.state) > Limits.state
    \/ Len(p.timers) > Limits.triggers

\* encode_sqbc_with_profile up to the sections.
Environment(p, dev) ==
    [states |-> [i \in DOMAIN p.state |-> p.state[i].name],
     functions |-> [i \in DOMAIN p.functions |-> p.functions[i].name], dev |-> dev]
Tables(p, done) ==
    LET of(kind) == SelectSeq(done.metas, LAMBDA meta : meta.kind = kind)
    IN  [strings |-> done.unit.strings, code |-> done.unit.code, functions |-> of("function"),
         handlers |-> of("handler"), screens |-> of("screen"),
         ok |-> ~done.unit.bad /\ ~OverLimits(p, done.unit)]
Emit(p, dev) ==
    Tables(p, FoldLeft(LAMBDA acc, frame : EmitFrame(acc, Environment(p, dev), frame),
                       [unit |-> CollectStrings(p, dev), metas |-> <<>>], FramesOf(p)))
=============================================================================
