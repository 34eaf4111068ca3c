---------------------------- MODULE ProgramMeaning ----------------------------
(***************************************************************************)
(* What a program means: an event is worked through on the source files as *)
(* they are written.  Names are looked up in the file they stand in, an    *)
(* alias is the file it imports, a block ends with its own declarations,   *)
(* and every loop has its own count.  No code, slots, strings or linked    *)
(* names: this is what the compiler and the VM together are compared with. *)
(*                                                                         *)
(* A context is [disk, path, dev, answer]; a world is [state, locals, log, *)
(* failed, returned, screen]; a text is its content.                       *)
(***************************************************************************)
EXTENDS EmitProgram

CONSTANT MaxItems  \* the items of a list the host gives

B == INSTANCE VmBuiltins

None == <<"null", 0>>
Text(t) == <<"text", t>>
Out(w, v) == [w |-> w, v |-> v]
Broken(w) == [w EXCEPT !.failed = TRUE]
Stopped(w) == w.failed \/ w.returned # <<>>
Logged(w, name, vs) == [w EXCEPT !.log = Append(@, <<name, vs>>)]

Truthy(v) ==
    CASE v[1] = "null" -> FALSE [] v[1] = "bool" -> v[2] [] v[1] = "int" -> v[2] # 0 [] OTHER -> TRUE
Accepted(slot, v) ==
    IF v = None THEN slot.nullable ELSE v[1] = (IF slot.type = "string" THEN "text" ELSE slot.type)
-----------------------------------------------------------------------------
(* The host. *)
\* What the VM takes from the stack, the first popped first, by the name of the operand.
VmTakes ==
    [app_launch |-> <<"app">>, app_arm |-> <<"app">>, app_disarm |-> <<"app">>,
     app_install |-> <<"file_ref", "app_id">>, app_install_metadata |-> <<"file_ref">>,
     timer_every |-> <<"interval_ms", "event">>, timer_after |-> <<"delay_ms", "event">>,
     ble_start |-> <<"id">>, ble_stop |-> <<>>, http_start |-> <<"id">>, http_stop |-> <<>>,
     power_sleep |-> <<"wake_after_ms">>,
     gpio_write |-> <<"name", "value">>, gpio_toggle |-> <<"name">>,
     indicator_write |-> <<"value">>, indicator_toggle |-> <<>>, indicator_breathe |-> <<>>,
     indicator_blink |-> <<"off_ms", "on_ms">>,
     display_clear |-> <<"color">>,
     display_text |-> <<"valign", "align", "backgroundColor", "textColor", "fontHeight",
                        "h", "w", "y", "x", "text">>,
     display_rect |-> <<"strokeColor", "fillColor", "h", "w", "y", "x">>,
     display_line |-> <<"color", "y2", "x2", "y1", "x1">>,
     display_select |-> <<"name">>, display_refresh_mode |-> <<"mode">>,
     display_image |-> <<"h", "w", "y", "x", "path">>,
     display_draw |-> <<"h", "w", "y", "x", "drawable">>,
     binbook_chapters |-> <<"limit", "offset", "first">>,
     content_binbook_list |-> <<"limit", "offset", "first">>,
     file_copy |-> <<"name", "library", "first">>]

\* The operands of a call: by name when an object gives them, else by position.
Option(e, name) ==
    IF name = "first" THEN e.args[1]
    ELSE IF IsObject(e.args, 2) /\ name \in DOMAIN e.args[2].value[2] THEN e.args[2].value[2][name]
    ELSE IntLit(IF name = "limit" /\ Len(e.args) = 1 THEN 8 ELSE 0)
CallOperands(e, builtin) ==
    IF e.name \in DOMAIN ObjectCalls /\ builtin \in DOMAIN VmTakes
    THEN [i \in DOMAIN VmTakes[builtin] |-> Option(e, VmTakes[builtin][i])]
    ELSE Reverse(e.args)

Suits(type, v) ==
    CASE type = "any"        -> TRUE
      [] type = "literal"    -> v[1] = "text"
      [] type = "optLiteral" -> v[1] \in {"text", "null"}
      [] type = "color"      -> v[1] = "int" /\ v[2] \in 0 .. 15
      [] type = "optColor"   -> v = None \/ (v[1] = "int" /\ v[2] \in 0 .. 15)
      [] OTHER               -> v[1] = type
Answerable(sig, vs) ==
    /\ \A i \in DOMAIN vs : Suits(sig.pops[i], vs[i]) /\ (sig.strings => vs[i][1] = "text")
    /\ sig.gives.what \in {"item", "entry"} => vs[1][2] + 1 \in DOMAIN vs[2][2]
    /\ sig.gives.what = "entry" => vs[2][2][vs[1][2] + 1][1] = "text"

FieldValues(shape, a) ==
    [f \in shape.bools \cup shape.ints \cup shape.texts \cup shape.optTexts \cup shape.handles |->
        CASE f \in shape.bools    -> <<"bool", a.flag>>
          [] f \in shape.ints     -> <<"int", a.number>>
          [] f \in shape.texts    -> Text(a.text)
          [] f \in shape.optTexts -> IF a.some THEN Text(a.text) ELSE None
          [] f \in shape.handles  -> IF a.some THEN <<"handle", a.number>> ELSE None]
Several(a, v) == <<"list", [i \in 1 .. (IF a.count < MaxItems THEN a.count ELSE MaxItems) |-> v]>>
Result(gives, a, vs) ==
    LET fields == FieldValues(gives.shape, a)
        entry == <<"record", FieldValues(gives.entry, a)>>
    IN  CASE gives.what = "nothing" -> None
          [] gives.what = "bool"    -> <<"bool", a.flag>>
          [] gives.what = "text"    -> Text(a.text)
          [] gives.what = "texts"   -> Several(a, Text(a.text))
          [] gives.what = "records" -> Several(a, entry)
          [] gives.what \in {"record", "entry"} -> <<"record", fields>>
          [] gives.what = "page"    -> <<"record", ("items" :> Several(a, entry)) @@ fields>>
          [] gives.what = "lines"   -> <<"record", ("lines" :> Several(a, Text(a.text))) @@ fields>>
          [] gives.what = "item"    -> vs[2][2][vs[1][2] + 1]
-----------------------------------------------------------------------------
(* Names, in the file they stand in. *)
Declared(c, name, decls(_)) ==
    IF Len(name) = 1 THEN {<<c.path, d>> : d \in {x \in ToSet(decls(c.disk[c.path])) : x.name = name}}
    ELSE UNION {{<<i[2], d>> : d \in {x \in ToSet(decls(c.disk[i[2]])) : x.exported /\ x.name = Tail(name)}} :
                    i \in {j \in ToSet(c.disk[c.path].imports) : j[1] = Head(name)}}
FunctionOf(c, name) == Declared(c, name, LAMBDA file : file.functions)
ScreenOf(c, name) == Declared(c, name, LAMBDA file : file.screens)
-----------------------------------------------------------------------------
(* Expressions. *)
Comparable(v, w) == "text" \in {v[1], w[1]} \/ "handle" \notin {v[1], w[1]}
Ordered(op, l, r) ==
    CASE op = "<" -> l < r [] op = "<=" -> l <= r [] op = ">" -> l > r [] op = ">=" -> l >= r
BinaryOf(w, op, l, r) ==
    LET ints == l[1] = "int" /\ r[1] = "int"
    IN  CASE op \in {"==", "!="} /\ Comparable(l, r) -> Out(w, <<"bool", (l = r) = (op = "==")>>)
          [] op = "+" /\ ints -> Out(w, <<"int", l[2] + r[2]>>)
          [] op = "+" /\ l[1] = "text" /\ r[1] = "text" -> Out(w, Text(l[2] \o r[2]))
          [] op = "-" /\ ints -> Out(w, <<"int", l[2] - r[2]>>)
          [] op \in {"<", "<=", ">", ">="} /\ ints -> Out(w, <<"bool", Ordered(op, l[2], r[2])>>)
          [] OTHER -> Out(Broken(w), None)

RECURSIVE Eval(_, _, _), Perform(_, _, _)
Joined(acc, o) == Out(o.w, Append(acc.v, o.v))
\* The values of several expressions, from left to right.
EvalAll(c, w, es) ==
    FoldLeft(LAMBDA acc, e : Joined(acc, Eval(c, acc.w, e)), Out(w, <<>>), es)

\* What the host answers to operands in the order in which the VM takes them.
Answer(c, w, builtin, sig, vs) ==
    IF w.failed \/ ~Answerable(sig, vs) \/ (sig.refuses /\ c.answer.refuse) THEN Out(Broken(w), None)
    ELSE Out(Logged(w, builtin, vs), Result(sig.gives, c.answer, vs))
AnswerTo(c, builtin, got) == Answer(c, got.w, builtin, B!Signature(builtin), Reverse(got.v))
\* es are the operands as the VM takes them, so the last one is worked out first.
Ask(c, w, builtin, es) == AnswerTo(c, builtin, EvalAll(c, w, Reverse(es)))

\* A function works with its arguments and no other locals, in the file it is written in.
Handed(w, inner) ==
    Out([inner EXCEPT !.locals = w.locals, !.returned = <<>>],
        IF inner.returned = <<>> THEN None ELSE inner.returned[1])
WithArguments(w, params, vs) ==
    [w EXCEPT !.locals = [x \in ToSet(params) |-> vs[CHOOSE i \in DOMAIN params : params[i] = x]]]
Enter(c, path, f, got) ==
    IF got.w.failed \/ Len(got.v) # Len(f.params) THEN Out(Broken(got.w), None)
    ELSE Handed(got.w, Perform([c EXCEPT !.path = path], WithArguments(got.w, f.params, got.v), f.statements))
Invoke(c, declared, got) ==
    IF declared = {} THEN Out(Broken(got.w), None)
    ELSE LET target == CHOOSE d \in declared : TRUE IN Enter(c, target[1], target[2], got)

BuiltinsFor(e) == {callee.builtin : callee \in Resolve(e.name, Len(e.args))}
AskOne(c, w, e, builtin) == Ask(c, w, builtin, CallOperands(e, builtin))
EvalCall(c, w, e) ==
    IF BuiltinsFor(e) = {} THEN Invoke(c, FunctionOf(c, e.name), EvalAll(c, w, e.args))
    ELSE AskOne(c, w, e, CHOOSE b \in BuiltinsFor(e) : TRUE)

FieldOf(o, name) ==
    IF o.w.failed THEN o
    ELSE IF o.v[1] = "record" /\ name \in DOMAIN o.v[2] THEN Out(o.w, o.v[2][name])
    ELSE Out(Broken(o.w), None)
Combined(op, left, right) ==
    IF right.w.failed THEN Out(right.w, None) ELSE BinaryOf(right.w, op, left.v, right.v)
RightOf(c, left, e) == Combined(e.operator, left, Eval(c, left.w, e.right))

Eval(c, w, e) ==
    CASE w.failed       -> Out(w, None)
      [] e.op = "lit"   -> Out(w, e.value)
      [] e.op = "state" -> Out(w, w.state[e.name])
      [] e.op = "var"   -> IF e.name \in DOMAIN w.locals THEN Out(w, w.locals[e.name])
                           ELSE Out(Broken(w), None)
      [] e.op = "bin"   -> RightOf(c, Eval(c, w, e.left), e)
      [] e.op = "field" -> FieldOf(Eval(c, w, e.target), e.field[1])
      [] e.op = "read"  -> Ask(c, w, Reads[e.host], Reverse(e.args))
      [] e.op = "call"  -> EvalCall(c, w, e)
-----------------------------------------------------------------------------
(* Statements. *)
\* A block: what it declares is gone behind it.
Left(w, done) == [done EXCEPT !.locals = [x \in DOMAIN w.locals |-> @[x]]]
Block(c, w, ss) == Left(w, Perform(c, w, ss))

Bind(w, name, v) == [w EXCEPT !.locals = (name :> v) @@ @]
SetSlot(c, w, name, v) ==
    LET slot == CHOOSE s \in ToSet(c.slots) : s.name = name
    IN  IF ~w.failed /\ Accepted(slot, v) THEN [w EXCEPT !.state[name] = v] ELSE Broken(w)
Defaults(slots) == [x \in Names(slots) |-> (CHOOSE s \in ToSet(slots) : s.name = x).default]

Loop(c, w, n, body, bind(_, _)) ==
    FoldLeft(LAMBDA v, i : IF Stopped(v) THEN v ELSE Block(c, bind(v, i), body), w, [i \in 1 .. n |-> i])
Repeat(c, o, body) ==
    IF o.w.failed \/ o.v[1] # "int" THEN Broken(o.w) ELSE Loop(c, o.w, o.v[2], body, LAMBDA v, i : v)
ForEach(c, w, listed, bound, st) ==
    IF bound.w.failed \/ listed[1] # "list" \/ bound.v[1] # "int" THEN Broken(bound.w)
    ELSE LET n == IF bound.v[2] < Len(listed[2]) THEN bound.v[2] ELSE Len(listed[2])
         IN  Left(w, Loop(c, bound.w, n, st.body, LAMBDA v, i : Bind(v, st.item, listed[2][i])))
ForListed(c, w, listed, st) ==
    ForEach(c, w, listed.v,
            IF st.max = <<>> THEN Out(listed.w, <<"int", MaxI32>>) ELSE Eval(c, listed.w, st.max[1]), st)
For(c, w, st) == ForListed(c, w, Eval(c, w, st.list), st)

\* A screen is drawn with locals of its own; a return in it ends only the drawing.
Painted(c, w, screens, path, screen) ==
    [Perform([c EXCEPT !.path = path], [w EXCEPT !.locals = <<>>, !.screen = screens], screen.statements)
        EXCEPT !.locals = w.locals, !.returned = <<>>]
Draw(c, w, screens) ==
    IF screens = {} THEN Broken(w)
    ELSE LET target == CHOOSE d \in screens : TRUE IN Painted(c, w, screens, target[1], target[2])

Store(c, w, what) ==
    Logged(IF what = "StateReset" THEN [w EXCEPT !.state = Defaults(c.slots)] ELSE w, what, <<>>)

HostOperands(st) ==
    LET takes == VmTakes[HostStatements[st.name].builtin]
    IN  [i \in DOMAIN takes |-> Operand(st, takes[i])]

Choose(c, o, st) ==
    IF o.w.failed THEN o.w ELSE Block(c, o.w, IF Truthy(o.v) THEN st.yes ELSE st.no)
Printed(o) == IF o.w.failed THEN o.w ELSE Logged(o.w, "debug_print", o.v)
Returned(o) == [o.w EXCEPT !.returned = <<o.v>>]
Bound(o, name) == Bind(o.w, name, o.v)
Assigned(c, o, name) == SetSlot(c, o.w, name, o.v)

Do(c, w, st) ==
    CASE st.op \in {"let", "assign"} -> Bound(Eval(c, w, st.expr), st.name)
      [] st.op = "setState" -> Assigned(c, Eval(c, w, st.expr), st.name)
      [] st.op = "if"     -> Choose(c, Eval(c, w, st.condition), st)
      [] st.op = "repeat" -> Repeat(c, Eval(c, w, st.count), st.body)
      [] st.op = "for"    -> For(c, w, st)
      [] st.op = "return" -> Returned(IF st.expr = <<>> THEN Out(w, None) ELSE Eval(c, w, st.expr[1]))
      [] st.op = "call"   -> EvalCall(c, w, st).w
      [] st.op = "print"  -> IF c.dev THEN Printed(EvalAll(c, w, st.args)) ELSE w
      [] st.op = "debug"  -> IF c.dev THEN Block(c, w, st.body) ELSE w
      [] st.op = "store"  -> Store(c, w, st.what)
      [] st.op = "open"   -> Draw(c, w, ScreenOf(c, st.screen))
      [] st.op = "refresh" -> Draw(c, w, w.screen)
      [] st.op = "exit"   -> IF c.answer.refuse THEN Broken(w) ELSE Logged(w, "app_exit", <<>>)
      [] st.op = "host"   -> Ask(c, w, HostStatements[st.name].builtin, HostOperands(st)).w
Perform(c, w, ss) == FoldLeft(LAMBDA v, st : IF Stopped(v) THEN v ELSE Do(c, v, st), w, ss)

\* What an event does: the world when its handler is through.
Meaning(disk, root, dev, answer, event) ==
    LET file == disk[root]
        h == CHOOSE x \in ToSet(file.handlers) : x.event = event
        c == [disk |-> disk, path |-> root, slots |-> file.state, dev |-> dev, answer |-> answer]
        begun == [state |-> Defaults(file.state), log |-> <<>>, failed |-> FALSE, returned |-> <<>>,
                  locals |-> [x \in ToSet(h.params) |-> None], screen |-> {}]
    IN  Perform(c, begun, h.statements)
=============================================================================
