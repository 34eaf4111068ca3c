---------------------------- MODULE VmInstructions ----------------------------
(***************************************************************************)
(* The instruction set of the portable VM (squidvm-core, vm.rs): what one  *)
(* instruction does to a machine whose code is at hand.  A machine is a    *)
(* record, and every operator below maps a machine to the machine after    *)
(* it; `failed' stands for a returned VmError, and what was popped before  *)
(* the error stays popped, as in the code.                                 *)
(*                                                                         *)
(* A value is a pair of its type and its content.  A string is a sequence  *)
(* of tokens; it is a "literal" when the string table of the image holds   *)
(* it and a "dynamic" one otherwise, because some builtins take only the   *)
(* former.  The arena that stores dynamic strings is StringInterner's.     *)
(***************************************************************************)
EXTENDS VmBuiltins, Integers, FiniteSets

CONSTANTS
    Image,      \* the program: strings, slots, functions, handlers, screens, code
    MaxStack,   \* MAX_STACK
    MaxLocals,  \* MAX_LOCALS
    MaxDepth,   \* MAX_CALL_DEPTH
    MaxRecs,    \* MAX_RUNTIME_RECORDS
    MaxLists,   \* MAX_RUNTIME_LISTS
    MaxItems,   \* MAX_RUNTIME_LIST_ITEMS
    MaxText,    \* MAX_RUNTIME_STRING_BYTES
    MaxTexts,   \* MAX_SERVICE_STRINGS
    MinInt, MaxInt  \* the range of an i32

ASSUME VmLimits ==
    /\ {MaxStack, MaxLocals, MaxRecs, MaxLists, MaxItems, MaxText, MaxTexts} \subseteq Nat \ {0}
    /\ MaxDepth \in Nat
    /\ MinInt \in Int /\ MaxInt \in Int /\ MinInt < 0 /\ 0 < MaxInt

-----------------------------------------------------------------------------
(* Values. *)
Null == <<"null", 0>>
IntVal(i) == <<"int", i>>
BoolVal(b) == <<"bool", b>>
Literal(t) == <<"literal", t>>
Handle(n) == <<"handle", n>>

Type(v) == v[1]
IsString(v) == Type(v) \in {"literal", "dynamic"}

\* Value::truthy, as a jump tests it.
Truthy(v) ==
    CASE Type(v) = "null" -> FALSE
      [] Type(v) = "bool" -> v[2]
      [] Type(v) = "int"  -> v[2] # 0
      [] OTHER            -> TRUE

\* What a state slot of the declared type accepts.
Accepts(slot, v) ==
    IF v = Null THEN slot.nullable
    ELSE Type(v) \in (IF slot.type = "string" THEN {"literal", "dynamic"} ELSE {slot.type})

\* Two's complement on the width MinInt .. MaxInt.
Wrap(i) == LET width == MaxInt - MinInt + 1 IN MinInt + ((i - MinInt) % width)

\* values_equal: strings by content, handles not at all, the rest by type and content.
SameValue(v, w) == IF IsString(v) /\ IsString(w) THEN v[2] = w[2] ELSE v = w
Comparable(v, w) ==
    IsString(v) \/ IsString(w) \/ (Type(v) # "handle" /\ Type(w) # "handle")
-----------------------------------------------------------------------------
(* The machine. *)
Fail(m) == [m EXCEPT !.failed = TRUE]
Depth(m) == Len(m.frames)
Top(m) == m.frames[Depth(m)]
SetTop(m, f) == [m EXCEPT !.frames[Depth(m)] = f]
GoTo(m, ip) == [m EXCEPT !.frames[Depth(m)].ip = ip]

\* The i-th value a pop would give.
Arg(m, i) == m.stack[Len(m.stack) - i + 1]
Drop(m, n) == [m EXCEPT !.stack = SubSeq(@, 1, Len(@) - n)]

Push(m, v) == IF Len(m.stack) = MaxStack THEN Fail(m) ELSE [m EXCEPT !.stack = Append(@, v)]

Fits(type, v) ==
    CASE type = "any"        -> TRUE
      [] type = "color"      -> Type(v) = "int" /\ v[2] \in 0 .. 15
      [] type = "optColor"   -> v = Null \/ (Type(v) = "int" /\ v[2] \in 0 .. 15)
      [] type = "optLiteral" -> v = Null \/ Type(v) = "literal"
      [] OTHER               -> Type(v) = type

\* Operands are popped one by one; the first that does not fit is popped and ends it.
Pop(m, types) ==
    LET have == Len(m.stack)
        bad == {i \in 1 .. Len(types) : i > have \/ ~Fits(types[i], Arg(m, i))}
    IN  IF bad = {} THEN Drop(m, Len(types))
        ELSE LET first == CHOOSE i \in bad : \A j \in bad : i <= j
             IN  Fail(Drop(m, IF first > have THEN have ELSE first))

\* Go on with `rest' unless what came before failed.
Then(m, rest) == IF m.failed THEN m ELSE rest
-----------------------------------------------------------------------------
(* Runtime strings, records and lists. *)
TextVal(t) == <<IF t \in Image.strings THEN "literal" ELSE "dynamic", t>>

\* Interning: a text the string table or the arena has costs nothing.
Intern(m, t) ==
    IF Len(t) > MaxText THEN Fail(m)
    ELSE IF t \in Image.strings \cup m.texts THEN m
    ELSE IF Cardinality(m.texts) = MaxTexts THEN Fail(m)
    ELSE [m EXCEPT !.texts = @ \cup {t}]

\* Records and lists are rings: the oldest slot is used again.
AllocRecords(m, fields, n) ==
    LET fresh == {(m.nextRec + j) % MaxRecs : j \in 0 .. n - 1}
    IN  [m EXCEPT !.recs = [r \in 0 .. MaxRecs - 1 |-> IF r \in fresh THEN fields ELSE @[r]],
                  !.nextRec = (@ + n) % MaxRecs]

AllocList(m, items) ==
    [m EXCEPT !.lists[m.nextList] = items, !.nextList = (@ + 1) % MaxLists]

\* Hand the program the record that is allocated next.
PushRecord(m, fields) == Push(AllocRecords(m, fields, 1), <<"record", m.nextRec>>)

\* The host's answer a: [refuse, flag, some, number, count, text].
OptText(a) == IF a.some THEN TextVal(a.text) ELSE Null
FieldsOf(shape, a) ==
    [f \in shape.bools \cup shape.ints \cup shape.texts \cup shape.optTexts \cup shape.handles |->
        CASE f \in shape.bools    -> BoolVal(a.flag)
          [] f \in shape.ints     -> IntVal(a.number)
          [] f \in shape.texts    -> TextVal(a.text)
          [] f \in shape.optTexts -> OptText(a)
          [] f \in shape.handles  -> IF a.some THEN Handle(a.number) ELSE Null]
WithField(fields, name, v) ==
    [f \in DOMAIN fields \cup {name} |-> IF f = name THEN v ELSE fields[f]]

UsesText(gives, a) ==
    \/ gives.shape.texts # {}
    \/ gives.shape.optTexts # {} /\ a.some
    \/ a.count > 0 /\ (gives.what \in {"texts", "lines"} \/ gives.entry.texts # {})
    \/ gives.what = "text"

Items(a) == IF a.count < MaxItems THEN a.count ELSE MaxItems
TextItems(a) == [i \in 1 .. Items(a) |-> TextVal(a.text)]
\* The entries of a page are allocated one after the other, then the list that holds them.
RecordItems(m, a) == [i \in 1 .. Items(a) |-> <<"record", (m.nextRec + i - 1) % MaxRecs>>]
WithEntries(m, gives, a) ==
    AllocList(AllocRecords(m, FieldsOf(gives.entry, a), Items(a)), RecordItems(m, a))

Give(m, gives, a) ==
    LET list == <<"list", m.nextList>>
        fields == FieldsOf(gives.shape, a)
    IN  CASE gives.what = "nothing" -> m
          [] gives.what = "bool"    -> Push(m, BoolVal(a.flag))
          [] gives.what = "text"    -> Push(m, TextVal(a.text))
          [] gives.what = "texts"   -> Push(AllocList(m, TextItems(a)), list)
          [] gives.what = "records" -> Push(WithEntries(m, gives, a), list)
          [] gives.what \in {"record", "entry"} -> PushRecord(m, fields)
          [] gives.what = "page" ->
               PushRecord(WithEntries(m, gives, a), WithField(fields, "items", list))
          [] gives.what = "lines" ->
               PushRecord(AllocList(m, TextItems(a)), WithField(fields, "lines", list))
          [] gives.what = "item" -> m
-----------------------------------------------------------------------------
(* Builtins that the host answers at once. *)
ListItem(m, list, index) == m.lists[list[2]][index[2] + 1]
HasItem(m, list, index) == index[2] \in 0 .. Len(m.lists[list[2]]) - 1

Call(m, name, a) ==
    LET sig == Signature(name)
        n == Len(sig.pops)
        popped == Pop(m, sig.pops)
        notStrings == sig.strings /\ \E i \in 1 .. n : ~IsString(Arg(m, i))
        \* The two that look into a list: the index is popped before the list.
        picks == sig.gives.what \in {"entry", "item"}
        noItem == picks /\ ~HasItem(m, Arg(m, 2), Arg(m, 1))
        notText == sig.gives.what = "entry" /\ ~IsString(ListItem(m, Arg(m, 2), Arg(m, 1)))
        refused == sig.refuses /\ a.refuse
        texted == IF UsesText(sig.gives, a) THEN Intern(popped, a.text) ELSE popped
    IN  IF name \notin BuiltinNames THEN Fail(m)
        ELSE IF popped.failed THEN popped
        ELSE IF notStrings \/ noItem \/ notText \/ refused THEN Fail(popped)
        ELSE IF sig.gives.what = "item" THEN Push(popped, ListItem(m, Arg(m, 2), Arg(m, 1)))
        ELSE Then(texted, Give(texted, sig.gives, a))

AppExit(m, a) == IF a.refuse THEN Fail(m) ELSE [m EXCEPT !.exited = TRUE]
DebugPrint(m, n) == IF n > Len(m.stack) THEN Fail(m) ELSE Drop(m, n)

ResetState(m) == [m EXCEPT !.state = [i \in DOMAIN @ |-> Image.slots[i].default]]
-----------------------------------------------------------------------------
(* Frames. *)
NoLocals == [i \in 1 .. MaxLocals |-> Null]
Frame(chunk, depth) == [chunk |-> chunk, ip |-> 1, locals |-> NoLocals, depth |-> depth]

\* Wrong: a call always gets its frame.
PushAnyFrame(m, chunk, depth) == [m EXCEPT !.frames = Append(@, Frame(chunk, depth))]
\* frames[MAX_CALL_DEPTH + 1]: the depth and the array give out together.
PushFrame(m, chunk, depth) ==
    IF depth > MaxDepth \/ Depth(m) > MaxDepth THEN Fail(m)
    ELSE [m EXCEPT !.frames = Append(@, Frame(chunk, depth))]

\* A function hands its caller a value; a handler or a screen hands nothing.
CompleteFrame(m, v) ==
    LET below == [m EXCEPT !.frames = SubSeq(@, 1, Len(@) - 1)]
    IN  IF Top(m).chunk[1] = "function" /\ Depth(below) > 0 THEN Push(below, v) ELSE below

\* The chunk a screen or function instruction enters, once its checks have passed.
Target(m, ins) ==
    CASE ins.op = "ScreenOpen" -> <<"screen", Arg(m, 1)[2]>>
      [] ins.op = "ScreenRefresh" -> <<"screen", m.screen[2]>>
      [] ins.op = "CallFunction" -> <<"function", ins.v>>

Enters(m, ins) ==
    \/ ins.op = "ScreenOpen" /\ ~Pop(m, <<"literal">>).failed
                             /\ Arg(m, 1)[2] \in Image.screens
    \/ ins.op = "ScreenRefresh" /\ m.screen # Null /\ m.screen[2] \in Image.screens
    \/ /\ ins.op = "CallFunction"
       /\ ins.v \in DOMAIN Image.functions
       /\ ins.n = Image.functions[ins.v].params
       /\ Image.functions[ins.v].locals <= MaxLocals
       /\ ins.n <= Len(m.stack)

\* The screen named last is the current one even when there is no such screen.
OpenScreen(m, ins) ==
    LET popped == Pop(m, <<"literal">>)
        current == [popped EXCEPT !.screen = Arg(m, 1)]
    IN  IF popped.failed THEN popped
        ELSE IF ~Enters(m, ins) THEN Fail(current)
        ELSE PushFrame(current, Target(m, ins), Top(m).depth + 1)

RefreshScreen(m, ins) ==
    IF ~Enters(m, ins) THEN Fail(m) ELSE PushFrame(m, Target(m, ins), Top(m).depth + 1)

CallFunction(m, ins) ==
    LET entered == PushFrame(m, Target(m, ins), Top(m).depth + 1)
        args == SubSeq(m.stack, Len(m.stack) - ins.n + 1, Len(m.stack))
        locals == [i \in 1 .. MaxLocals |-> IF i <= ins.n THEN args[i] ELSE Null]
    IN  IF ~Enters(m, ins) \/ entered.failed THEN Fail(m)
        ELSE Drop(SetTop(entered, [Top(entered) EXCEPT !.locals = locals]), ins.n)
-----------------------------------------------------------------------------
(* The instructions.  Each is executed with the counter already behind it. *)
GetState(m, i) == IF i \in DOMAIN m.state THEN Push(m, m.state[i]) ELSE Fail(m)
\* Wrong: a slot takes any value.
SetAnyState(m, i) ==
    LET popped == Pop(m, <<"any">>)
    IN  IF popped.failed THEN popped ELSE [popped EXCEPT !.state[i] = Arg(m, 1)]
SetState(m, i) ==
    LET popped == Pop(m, <<"any">>)
    IN  IF popped.failed THEN popped
        ELSE IF i \in DOMAIN m.state /\ Accepts(Image.slots[i], Arg(m, 1))
             THEN [popped EXCEPT !.state[i] = Arg(m, 1)]
             ELSE Fail(popped)

GetLocal(m, i) == IF i \in 1 .. MaxLocals THEN Push(m, Top(m).locals[i]) ELSE Fail(m)
SetLocal(m, i) ==
    LET popped == Pop(m, <<"any">>)
    IN  IF popped.failed \/ i \notin 1 .. MaxLocals THEN Fail(popped)
        ELSE [popped EXCEPT !.frames[Depth(m)].locals[i] = Arg(m, 1)]

GetField(m, name) ==
    LET popped == Pop(m, <<"record">>)
        fields == m.recs[Arg(m, 1)[2]]
    IN  IF popped.failed THEN popped
        ELSE IF name \in DOMAIN fields THEN Push(popped, fields[name]) ELSE Fail(popped)

ListLen(m) ==
    LET popped == Pop(m, <<"list">>)
    IN  Then(popped, Push(popped, IntVal(Len(m.lists[Arg(m, 1)[2]]))))
ListGet(m) ==
    LET popped == Pop(m, <<"int", "list">>)
    IN  IF popped.failed THEN popped
        ELSE IF HasItem(m, Arg(m, 2), Arg(m, 1)) THEN Push(popped, ListItem(m, Arg(m, 2), Arg(m, 1)))
        ELSE Fail(popped)

\* Integers wrap; two strings are joined; the rest cannot be added.
Add(m) ==
    LET popped == Pop(m, <<"any", "any">>)
        left == Arg(m, 2)
        right == Arg(m, 1)
        text == left[2] \o right[2]
        joined == Intern(popped, text)
    IN  IF popped.failed THEN popped
        ELSE IF Type(left) = "int" /\ Type(right) = "int"
             THEN Push(popped, IntVal(Wrap(left[2] + right[2])))
        ELSE IF IsString(left) /\ IsString(right) THEN Then(joined, Push(joined, TextVal(text)))
        ELSE Fail(popped)

Compare(op, l, r) ==
    CASE op = "Lt" -> l < r [] op = "Lte" -> l <= r [] op = "Gt" -> l > r [] op = "Gte" -> l >= r

\* Both operands are popped before either is looked at.
Binary(m, op) ==
    LET popped == Pop(m, <<"any", "any">>)
        left == Arg(m, 2)
        right == Arg(m, 1)
        ints == Type(left) = "int" /\ Type(right) = "int"
    IN  IF popped.failed THEN popped
        ELSE IF op \in {"Eq", "Ne"}
             THEN IF Comparable(left, right)
                  THEN Push(popped, BoolVal(SameValue(left, right) = (op = "Eq")))
                  ELSE Fail(popped)
        ELSE IF ~ints THEN Fail(popped)
        ELSE IF op = "Sub" THEN Push(popped, IntVal(Wrap(left[2] - right[2])))
        ELSE Push(popped, BoolVal(Compare(op, left[2], right[2])))

Jump(m, to) == IF to > Len(Image.code[Top(m).chunk]) + 1 THEN Fail(m) ELSE GoTo(m, to)
JumpIfFalse(m, to) ==
    LET popped == Pop(m, <<"any">>)
    IN  IF popped.failed \/ Truthy(Arg(m, 1)) THEN popped ELSE Jump(popped, to)

Return(m) ==
    LET popped == Pop(m, <<"any">>) IN Then(popped, CompleteFrame(popped, Arg(m, 1)))

Execute(m, ins, a) ==
    CASE ins.op = "Push"          -> Push(m, ins.v)
      [] ins.op = "GetState"      -> GetState(m, ins.v)
      [] ins.op = "SetState"      -> SetState(m, ins.v)
      [] ins.op = "GetLocal"      -> GetLocal(m, ins.v)
      [] ins.op = "SetLocal"      -> SetLocal(m, ins.v)
      [] ins.op = "GetField"      -> GetField(m, ins.v)
      [] ins.op = "Add"           -> Add(m)
      [] ins.op = "Binary"        -> Binary(m, ins.v)
      [] ins.op = "ListLen"       -> ListLen(m)
      [] ins.op = "ListGet"       -> ListGet(m)
      [] ins.op = "Jump"          -> Jump(m, ins.v)
      [] ins.op = "JumpIfFalse"   -> JumpIfFalse(m, ins.v)
      [] ins.op = "Call"          -> Call(m, ins.v, a)
      [] ins.op = "AppExit"       -> AppExit(m, a)
      [] ins.op = "DebugPrint"    -> DebugPrint(m, ins.v)
      [] ins.op = "ScreenOpen"    -> OpenScreen(m, ins)
      [] ins.op = "ScreenRefresh" -> RefreshScreen(m, ins)
      [] ins.op = "CallFunction"  -> CallFunction(m, ins)
      [] ins.op = "Return"        -> Return(m)
      [] ins.op = "Halt"          -> CompleteFrame(m, Null)
      [] ins.op = "Pop"           -> Pop(m, <<"any">>)
      [] OTHER                    -> Fail(m)

AsksHost(ins) == ins.op \in {"Call", "AppExit"}
Stores(ins) == ins.op \in {"StateLoad", "StateSave", "StateReset"}

\* Instructions always at hand: read one, count it, step behind it.
AtEnd(m) == Top(m).ip > Len(Image.code[Top(m).chunk])
\* Wrong: jumps are free.
SteppedFree(m) ==
    GoTo(IF Image.code[Top(m).chunk][Top(m).ip].op = "Jump" THEN m ELSE [m EXCEPT !.count = @ + 1],
         Top(m).ip + 1)
Stepped(m) == GoTo([m EXCEPT !.count = @ + 1], Top(m).ip + 1)
=============================================================================
