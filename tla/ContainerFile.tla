----------------------------- MODULE ContainerFile -----------------------------
(***************************************************************************)
(* The file a program is stored in: how squidc-core's sqbc.rs writes it and *)
(* how squidvm-core's program.rs and the C interface read it back.  A file *)
(* is a sequence of cells, one for each number, text or instruction, so    *)
(* that offsets and lengths count cells.                                   *)
(***************************************************************************)
EXTENDS EmitProgram

Kinds == <<"appMeta", "bindings", "strings", "state", "functions", "triggers", "bleProfiles",
           "httpProfiles", "handlers", "screens", "code">>
HeaderCells == 4
RecordCells == 3
-----------------------------------------------------------------------------
(* Writing. *)
EncodeStrings(strings) == <<Len(strings)>> \o strings

Id(strings, t) == (CHOOSE i \in DOMAIN strings : strings[i] = t) - 1
EncodeValue(strings, v) == IF v[1] = "text" THEN <<"string", Id(strings, v[2])>> ELSE v
EncodeRows(rows) == <<Len(rows)>> \o FlattenSeq(rows)

EncodeState(strings, slots) ==
    EncodeRows([i \in DOMAIN slots |->
        <<Id(strings, slots[i].name), slots[i].type, slots[i].nullable,
          EncodeValue(strings, slots[i].default)>>])
EncodeFunctions(metas) ==
    EncodeRows([i \in DOMAIN metas |->
        <<metas[i].name, metas[i].params, metas[i].locals, metas[i].start, metas[i].len>>])
EncodeHandlers(metas, handlers) ==
    EncodeRows([i \in DOMAIN metas |->
        <<metas[i].name, handlers[i].preload, metas[i].params, metas[i].locals, metas[i].start,
          metas[i].len>>])
EncodeScreens(metas) ==
    EncodeRows([i \in DOMAIN metas |-> <<metas[i].name, metas[i].start, metas[i].len>>])
EncodeTriggers(strings, timers) ==
    EncodeRows([i \in DOMAIN timers |->
        <<Id(strings, timers[i].event), timers[i].repeating, timers[i].interval>>])
EncodeBindings(strings, bindings) ==
    EncodeRows([i \in DOMAIN bindings |->
        <<Id(strings, bindings[i].service), Id(strings, bindings[i].binding),
          Id(strings, bindings[i].resource)>>])
EncodeAppMeta(p) == <<p.app[1].id, p.store>>

\* The first start of each id, in document order.
FirstStarts(starts) ==
    FoldLeft(LAMBDA acc, st : IF \E i \in DOMAIN acc : acc[i].args["id"] = st.args["id"]
                              THEN acc ELSE Append(acc, st),
             <<>>, starts)
StartsIn(p, name) ==
    SelectSeq(InOrder(FlattenSeq(BodiesOf(p))), LAMBDA st : st.op = "host" /\ st.name = name)
BleProfiles(p) == FirstStarts(StartsIn(p, "BleStart"))
HttpProfiles(p) == FirstStarts(StartsIn(p, "HttpStart"))

EncodeProfile(strings, st) ==
    <<Id(strings, <<st.profile>>), Id(strings, st.args["id"].value[2]), Id(strings, <<"server">>),
      Len(st.accept)>>
    \o [i \in DOMAIN st.accept |-> Id(strings, st.accept[i])]
    \o <<Len(st.events)>>
    \o FlattenSeq([i \in DOMAIN st.events |->
           <<Id(strings, st.events[i].kind), Id(strings, st.events[i].event)>>])
EncodeBleProfiles(strings, p) ==
    EncodeRows([i \in DOMAIN BleProfiles(p) |-> EncodeProfile(strings, BleProfiles(p)[i])])
EncodeHttpProfiles(strings, p) ==
    EncodeRows([i \in DOMAIN HttpProfiles(p) |-> EncodeProfile(strings, HttpProfiles(p)[i])])

\* The sections one after the other behind a header that says where each one is.
Container(sections) ==
    LET header == HeaderCells + RecordCells * Len(Kinds)
        lengths == [i \in DOMAIN Kinds |-> Len(sections[Kinds[i]])]
        offset(i) == header + FoldLeft(+, 0, SubSeq(lengths, 1, i - 1))
        records == FlattenSeq([i \in DOMAIN Kinds |-> <<Kinds[i], offset(i), lengths[i]>>])
    IN  <<"SQBC", header, offset(Len(Kinds) + 1), Len(Kinds)>> \o records
        \o FlattenSeq([i \in DOMAIN Kinds |-> sections[Kinds[i]]])

\* What a compiled program is written as; what is too large is not written.
Encode(p, unit) ==
    Container([appMeta |-> EncodeAppMeta(p), bindings |-> EncodeBindings(unit.strings, p.bindings),
               strings |-> EncodeStrings(unit.strings), state |-> EncodeState(unit.strings, p.state),
               functions |-> EncodeFunctions(unit.functions),
               triggers |-> EncodeTriggers(unit.strings, p.timers),
               bleProfiles |-> EncodeBleProfiles(unit.strings, p),
               httpProfiles |-> EncodeHttpProfiles(unit.strings, p),
               handlers |-> EncodeHandlers(unit.handlers, p.handlers),
               screens |-> EncodeScreens(unit.screens), code |-> unit.code])
-----------------------------------------------------------------------------
(* Reading.  A result is a sequence: empty when something was refused.      *)
\* Wrong: what lies behind the end of the file is not missed.
ReadWhatIsThere(file, offset, len) ==
    <<SubSeq(file, offset + 1, IF offset + len > Len(file) THEN Len(file) ELSE offset + len)>>
\* read_exact_at: all of a range or nothing.
ReadAt(file, offset, len) ==
    IF offset + len > Len(file) THEN <<>> ELSE <<SubSeq(file, offset + 1, offset + len)>>

HeaderOk(file) ==
    /\ Len(file) >= HeaderCells
    /\ file[1] = "SQBC"
    /\ file[2] = HeaderCells + RecordCells * file[4]
    /\ file[2] <= Len(file)
Record(file, i) ==
    LET base == HeaderCells + RecordCells * (i - 1)
    IN  [kind |-> file[base + 1], offset |-> file[base + 2], len |-> file[base + 3]]
Records(file) == [i \in 1 .. file[4] |-> Record(file, i)]
RecordsOk(file) ==
    /\ \A i, j \in 1 .. file[4] : Record(file, i).kind = Record(file, j).kind => i = j
    /\ \A i \in 1 .. file[4] : /\ Record(file, i).offset >= file[2]
                               /\ Record(file, i).offset + Record(file, i).len <= file[3]

RecordOf(file, kind) == CHOOSE r \in ToSet(Records(file)) : r.kind = kind
Present(file, kind) == \E r \in ToSet(Records(file)) : r.kind = kind
SectionOf(file, kind) ==
    IF Present(file, kind) THEN ReadAt(file, RecordOf(file, kind).offset, RecordOf(file, kind).len)
    ELSE <<>>

\* A table of rows of the same width fills its section.
RowsOf(data, width) ==
    [i \in 1 .. data[1] |-> SubSeq(data, 2 + (i - 1) * width, 1 + i * width)]
TableOk(data, width, max) == Len(data) >= 1 /\ data[1] <= max /\ Len(data) = 1 + data[1] * width
\* An optional table that is missing has no rows.
Table(file, kind, width, max) ==
    IF ~Present(file, kind) THEN <<<<>>>>
    ELSE IF SectionOf(file, kind) = <<>> \/ ~TableOk(SectionOf(file, kind)[1], width, max) THEN <<>>
    ELSE <<RowsOf(SectionOf(file, kind)[1], width)>>

InRange(start, len, total) == start + len <= total

FunctionRow(row) ==
    [name |-> row[1], params |-> row[2], locals |-> row[3], start |-> row[4], len |-> row[5]]
HandlerRow(row) ==
    [name |-> row[1], preload |-> row[2], params |-> row[3], locals |-> row[4], start |-> row[5],
     len |-> row[6]]
ScreenRow(row) == [name |-> row[1], start |-> row[2], len |-> row[3]]
StateRow(row) == [name |-> row[1], type |-> row[2], nullable |-> row[3], default |-> row[4]]
TimerRow(row) == [name |-> row[1], repeating |-> row[2], interval |-> row[3]]
Mapped(rows, f(_)) == [i \in DOMAIN rows |-> f(rows[i])]

HandlersOk(handlers) ==
    \A h \in ToSet(handlers) : h.params <= h.locals /\ h.locals <= Limits.locals
TimersOk(timers) == \A t \in ToSet(timers) : t.interval > 0
DefaultFits(slot) ==
    IF slot.default[1] = "null" THEN slot.nullable ELSE slot.default[1] = slot.type

\* The names of a table: ids of strings, each string once.
NamesOk(strings, rows) ==
    /\ \A i \in DOMAIN rows : rows[i].name < Len(strings)
    /\ \A i, j \in DOMAIN rows : strings[rows[i].name + 1] = strings[rows[j].name + 1] => i = j
TablesOk(strings, tables) ==
    /\ \A t \in tables : NamesOk(strings, t)
    /\ \A t \in tables : \A i \in DOMAIN t :
         "default" \in DOMAIN t[i] /\ t[i].default[1] = "string" => t[i].default[2] < Len(strings)

\* The tables of a program; the code is only measured.
Parse(file) ==
    LET strings == SectionOf(file, "strings")
        state == Table(file, "state", 4, Limits.state)
        functions == Table(file, "functions", 5, Limits.functions)
        handlers == Table(file, "handlers", 6, Limits.handlers)
        timers == Table(file, "triggers", 3, Limits.triggers)
        screens == Table(file, "screens", 3, Limits.screens)
        index == [strings |-> Tail(strings[1]), state |-> Mapped(state[1], StateRow),
                  functions |-> Mapped(functions[1], FunctionRow),
                  handlers |-> Mapped(handlers[1], HandlerRow),
                  timers |-> Mapped(timers[1], TimerRow), screens |-> Mapped(screens[1], ScreenRow),
                  offset |-> RecordOf(file, "code").offset, len |-> RecordOf(file, "code").len]
        frames == ToSet(index.functions) \cup ToSet(index.handlers) \cup ToSet(index.screens)
    IN  IF <<>> \in {strings, state, functions, handlers, timers, screens} \/ ~Present(file, "code")
        THEN <<>>
        ELSE IF /\ TableOk(strings[1], 1, Limits.strings)
                /\ \A f \in frames : InRange(f.start, f.len, index.len)
                /\ HandlersOk(index.handlers) /\ TimersOk(index.timers)
                /\ \A s \in ToSet(index.state) : DefaultFits(s)
                /\ TablesOk(index.strings, {index.state, index.functions, index.handlers,
                                            index.timers, index.screens})
             THEN <<index>> ELSE <<>>

\* ProgramIndex::parse_from_reader; the length in the header is not compared with the file's.
ParseIndex(file) == IF HeaderOk(file) /\ RecordsOk(file) THEN Parse(file) ELSE <<>>
\* Program::parse, of a whole file in memory.
ParseProgram(file) ==
    IF Len(file) <= Limits.appCells /\ HeaderOk(file) /\ file[3] = Len(file) /\ RecordsOk(file)
       /\ SectionOf(file, "code") # <<>>
    THEN Parse(file) ELSE <<>>
-----------------------------------------------------------------------------
(* The readers of the firmware: one row of a table at a time. *)
TextOf(file, id) ==
    LET strings == SectionOf(file, "strings")
    IN  IF strings = <<>> \/ id >= strings[1][1] THEN <<>> ELSE <<strings[1][id + 2]>>
\* A text that is copied into a field of the C interface.
CText(file, id, size) ==
    IF TextOf(file, id) = <<>> \/ Len(TextOf(file, id)[1]) >= size THEN <<>> ELSE TextOf(file, id)

Readable(file) == HeaderOk(file) /\ RecordsOk(file) /\ Present(file, "strings")
Count(file, kind, width, max) ==
    IF ~Readable(file) \/ Table(file, kind, width, max) = <<>> THEN -1
    ELSE Len(Table(file, kind, width, max)[1])

TimerCount(file) == Count(file, "triggers", 3, Limits.triggers)
TimerAt(file, i) ==
    LET row == TimerRow(Table(file, "triggers", 3, Limits.triggers)[1][i])
        event == CText(file, row.name, Limits.eventText)
    IN  IF i > TimerCount(file) \/ row.interval <= 0 \/ event = <<>> THEN <<>>
        ELSE <<[event |-> event[1], repeating |-> row.repeating, interval |-> row.interval]>>

BindingCount(file) == Count(file, "bindings", 3, Limits.bindings)
BindingAt(file, i) ==
    LET row == Table(file, "bindings", 3, Limits.bindings)[1][i]
        texts == [j \in 1 .. 3 |-> CText(file, row[j], Limits.eventText)]
    IN  IF i > BindingCount(file) \/ \E j \in 1 .. 3 : texts[j] = <<>> THEN <<>>
        ELSE <<[service |-> texts[1][1], binding |-> texts[2][1], resource |-> texts[3][1]]>>

\* Wrong: a route is one cell.
ShortEnd(data, at) == at + 5 + data[at + 3] + data[at + 4 + data[at + 3]]
\* A profile's cells: three ids, the extensions, the routes.
ProfileEnd(data, at) ==
    LET accepts == data[at + 3]
        events == data[at + 4 + accepts]
    IN  at + 5 + accepts + 2 * events
ProfileFits(data, at) ==
    /\ at + 3 <= Len(data) /\ data[at + 3] <= Limits.accept
    /\ at + 4 + data[at + 3] <= Len(data) /\ data[at + 4 + data[at + 3]] <= Limits.events
    /\ ProfileEnd(data, at) <= Len(data) + 1
\* Where the profile after n others begins, 0 when one of them does not fit.
RECURSIVE ProfileStart(_, _)
ProfileStart(data, n) ==
    IF n = 0 THEN 2
    ELSE LET at == ProfileStart(data, n - 1)
         IN  IF at = 0 \/ ~ProfileFits(data, at) THEN 0 ELSE ProfileEnd(data, at)

Profile(file, data, at) ==
    LET accepts == data[at + 3]
        text(cell) == CText(file, data[cell], Limits.eventText)
        fixed == [j \in 1 .. 3 |-> text(at + j - 1)]
        accept == [j \in 1 .. accepts |-> text(at + 3 + j)]
        first == at + 5 + accepts
        events == [j \in 1 .. data[first - 1] |-> <<text(first + 2 * (j - 1)), text(first + 2 * j - 1)>>]
    IN  IF \/ \E j \in 1 .. 3 : fixed[j] = <<>>
           \/ \E j \in DOMAIN accept : accept[j] = <<>>
           \/ \E j \in DOMAIN events : <<>> \in ToSet(events[j])
        THEN <<>>
        ELSE <<[profile |-> fixed[1][1], id |-> fixed[2][1], role |-> fixed[3][1],
                accept |-> [j \in DOMAIN accept |-> accept[j][1]],
                events |-> [j \in DOMAIN events |-> [kind |-> events[j][1][1], event |-> events[j][2][1]]]]>>
\* All profiles have to fit before one is read.
ProfileAt(file, kind, i) ==
    IF ~Readable(file) \/ SectionOf(file, kind) = <<>> THEN <<>>
    ELSE LET data == SectionOf(file, kind)[1]
         IN  IF i > data[1] \/ ProfileStart(data, data[1]) # Len(data) + 1 THEN <<>>
             ELSE Profile(file, data, ProfileStart(data, i - 1))
BleProfileAt(file, i) == ProfileAt(file, "bleProfiles", i)
HttpProfileAt(file, i) == ProfileAt(file, "httpProfiles", i)

ProfileCount(file, kind) ==
    IF ~Readable(file) THEN -1
    ELSE IF ~Present(file, kind) THEN 0
    ELSE IF SectionOf(file, kind) = <<>> \/ SectionOf(file, kind)[1][1] > Limits.profiles THEN -1
    ELSE SectionOf(file, kind)[1][1]

\* The id of the app, as the command line tools read it.
ReadAppId(file) ==
    IF ~HeaderOk(file) \/ file[3] # Len(file) \/ SectionOf(file, "appMeta") = <<>> THEN <<>>
    ELSE <<SectionOf(file, "appMeta")[1][1]>>
-----------------------------------------------------------------------------
(* What the machine runs: the chunk of a frame, with the jumps made its own *)
(* and the ids of the file replaced by what they stand for.                *)
Rebased(ins, start, index) ==
    LET text(id) == index.strings[id + 1]
    IN  CASE ins.op \in {"Jump", "JumpIfFalse"} -> [ins EXCEPT !.v = @ - start + 1]
          [] ins.op \in {"GetLocal", "SetLocal", "GetState", "SetState", "CallFunction"} ->
               [ins EXCEPT !.v = @ + 1]
          [] ins.op = "GetField" -> [ins EXCEPT !.v = text(@)[1]]
          [] ins.op = "Push" /\ ins.v[1] = "string" -> [ins EXCEPT !.v = <<"literal", text(@[2])>>]
          [] OTHER -> ins
ChunkOf(file, index, frame) ==
    LET code == ReadAt(file, index.offset + frame.start, frame.len)
    IN  IF code = <<>> THEN <<>>
        ELSE [i \in DOMAIN code[1] |-> Rebased(code[1][i], frame.start, index)]

LoadedValue(v, index) == IF v[1] = "string" THEN <<"literal", index.strings[v[2] + 1]>> ELSE v
Load(file, index) ==
    LET text(id) == index.strings[id + 1]
        handler(e) == CHOOSE h \in ToSet(index.handlers) : text(h.name) = e
        screen(s) == CHOOSE x \in ToSet(index.screens) : text(x.name) = s
        events == {text(h.name) : h \in ToSet(index.handlers)}
        screens == {text(s.name) : s \in ToSet(index.screens)}
        chunks == {<<"handler", e>> : e \in events} \cup {<<"screen", s>> : s \in screens}
                  \cup {<<"function", i>> : i \in DOMAIN index.functions}
        frame(c) == CASE c[1] = "handler"  -> handler(c[2])
                      [] c[1] = "screen"   -> screen(c[2])
                      [] c[1] = "function" -> index.functions[c[2]]
    IN  [strings |-> ToSet(index.strings),
         slots |-> [i \in DOMAIN index.state |->
                       [name |-> text(index.state[i].name), type |-> index.state[i].type,
                        nullable |-> index.state[i].nullable,
                        default |-> LoadedValue(index.state[i].default, index)]],
         handlers |-> [e \in events |-> [params |-> handler(e).params, locals |-> handler(e).locals,
                                         preload |-> handler(e).preload]],
         functions |-> [i \in DOMAIN index.functions |->
                           [params |-> index.functions[i].params, locals |-> index.functions[i].locals]],
         screens |-> screens,
         code |-> [c \in chunks |-> ChunkOf(file, index, frame(c))]]
=============================================================================
