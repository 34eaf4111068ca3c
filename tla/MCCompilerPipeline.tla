--------------------------- MODULE MCCompilerPipeline ---------------------------
(* Small apps for CompilerPipeline: one for each thing the host can be asked, programs for the    *)
(* control flow, apps of several files, and programs that have to be refused.                    *)
EXTENDS CompilerPipeline

MCLimits == [chunk |-> 640, stringBytes |-> 1536, strings |-> 128, functions |-> 3, handlers |-> 2,
             screens |-> 2, state |-> 3, triggers |-> 2, locals |-> 8, appCells |-> 8192,
             eventText |-> 4, bindings |-> 2, accept |-> 2, events |-> 2, profiles |-> 2]
MCMinI32 == -101
MCAnswer == [refuse |-> FALSE, flag |-> TRUE, some |-> TRUE, number |-> 1, count |-> 1, text |-> <<"z">>]
MCAnswers == {MCAnswer, [MCAnswer EXCEPT !.refuse = TRUE],
              [MCAnswer EXCEPT !.flag = FALSE, !.some = FALSE, !.count = 0],
              [MCAnswer EXCEPT !.number = 0, !.count = 3]}
-----------------------------------------------------------------------------
(* Source files. *)
N(x) == <<x>>
T(x) == TextLit(<<x>>)
V(x) == [op |-> "var", name |-> N(x)]
S(x) == [op |-> "state", name |-> N(x)]
Bin(o, l, r) == [op |-> "bin", operator |-> o, left |-> l, right |-> r]
Field(e, f) == [op |-> "field", target |-> e, field |-> N(f)]
CallE(name, args) == [op |-> "call", name |-> name, args |-> args]
Read(h, args) == [op |-> "read", host |-> h, args |-> args]
LetS(x, e) == [op |-> "let", name |-> N(x), expr |-> e]
AssignS(x, e) == [op |-> "assign", name |-> N(x), expr |-> e]
SetS(x, e) == [op |-> "setState", name |-> N(x), expr |-> e]
IfS(c, yes, no) == [op |-> "if", condition |-> c, yes |-> yes, no |-> no]
RepeatS(n, body) == [op |-> "repeat", count |-> n, body |-> body]
ForS(x, list, max, body) == [op |-> "for", item |-> N(x), list |-> list, max |-> max, body |-> body]
ReturnS(es) == [op |-> "return", expr |-> es]
CallS(name, args) == [op |-> "call", name |-> name, args |-> args]
PrintS(es) == [op |-> "print", args |-> es]
DebugS(body) == [op |-> "debug", body |-> body]
StoreS(w) == [op |-> "store", what |-> w]
OpenS(name) == [op |-> "open", screen |-> name]
RefreshS == [op |-> "refresh"]
ExitS == [op |-> "exit"]
HostS(name, args) == [op |-> "host", name |-> name, args |-> args]
Profiled(name, profile, id) ==
    [op |-> "host", name |-> name, args |-> [id |-> T(id)], profile |-> profile,
     accept |-> <<<<".", "a">>, <<".", "b">>>>,
     events |-> <<[kind |-> N("complete"), event |-> N("go")], [kind |-> N("failed"), event |-> N("no")]>>]

Slot(x, type, nullable, default) ==
    [name |-> N(x), type |-> type, nullable |-> nullable, default |-> default]
Slots == <<Slot("n", "int", FALSE, <<"int", 2>>), Slot("t", "string", TRUE, <<"null", 0>>),
           Slot("d", "string", FALSE, <<"text", N("k")>>)>>
Handler(e, ss) == [event |-> N(e), params |-> <<>>, preload |-> FALSE, statements |-> ss]
Fn(x, params, ss) == [name |-> N(x), params |-> params, statements |-> ss, exported |-> TRUE]
Private(f) == [f EXCEPT !.exported = FALSE]
ScreenD(x, ss) == [name |-> N(x), render |-> "compose", statements |-> ss, exported |-> TRUE]
Empty == [imports |-> <<>>, required |-> <<>>, app |-> <<>>, store |-> "none", hasState |-> FALSE,
          state |-> <<>>, bindings |-> <<>>, triggers |-> <<>>, functions |-> <<>>, handlers |-> <<>>,
          screens |-> <<>>, inside |-> TRUE]
AppFile(ss) == [Empty EXCEPT !.app = <<[id |-> N("app"), target |-> ""]>>, !.hasState = TRUE,
                             !.state = Slots, !.handlers = <<Handler("go", ss)>>]
With(f, functions, screens) == [f EXCEPT !.functions = functions, !.screens = screens]
Drawn(ss) == With(AppFile(<<OpenS(N("home"))>>), <<>>, <<ScreenD("home", ss)>>)

Root == N("root")
Source(disk) == [disk |-> disk, root |-> Root, alone |-> FALSE, target |-> "portable",
                 event |-> N("go"), answers |-> {MCAnswer}, cut |-> FALSE]
Alone(f) == [Source(Root :> f) EXCEPT !.alone = TRUE]
Asking(f) == [Alone(f) EXCEPT !.answers = MCAnswers]
-----------------------------------------------------------------------------
(* What the host is asked. *)
Sample(f) ==
    CASE f \in {"x", "x1", "on_ms", "interval_ms"} -> IntLit(1)
      [] f \in {"y", "y1", "off_ms", "delay_ms"} -> IntLit(2)
      [] f \in {"w", "x2", "color", "wake_after_ms"} -> IntLit(3)
      [] f \in {"h", "y2", "textColor", "fillColor"} -> IntLit(4)
      [] f \in {"backgroundColor", "strokeColor", "fontHeight"} -> IntLit(5)
      [] f = "value" -> Lit(<<"bool", TRUE>>)
      [] OTHER -> T(f)
Optional == {"fontHeight", "textColor", "backgroundColor", "fillColor", "strokeColor", "align", "valign"}
FieldsOfHost(name) == ToSet(HostStatements[name].fields)
Asked(name, fields) ==
    CASE name = "BleStart"  -> Profiled(name, "file-transfer", "b")
      [] name = "HttpStart" -> Profiled(name, "file-upload", "h")
      [] OTHER              -> HostS(name, [f \in fields |-> Sample(f)])
HostFile(name, fields) ==
    IF name \in DOMAIN DisplayStatements THEN Drawn(<<Asked(name, fields)>>)
    ELSE AppFile(<<Asked(name, fields)>>)
HostSources ==
    {<<"host", name>> : name \in DOMAIN HostStatements} \cup {<<"bare", "DisplayText">>, <<"bare", "DisplayRect">>}
HostSource(id) ==
    Asking(HostFile(id[2], IF id[1] = "bare" THEN FieldsOfHost(id[2]) \ Optional ELSE FieldsOfHost(id[2])))

\* The operands of a call, with what they have to be got from.
Given1(type) ==
    CASE type = "int" -> IntLit(0)
      [] type = "handle" -> Field(CallE(<<"binbook", "open">>, <<T("book")>>), "book")
      [] type = "list" -> CallE(<<"app", "registry">>, <<>>)
      [] OTHER -> T(type)
ArgsOf(name) ==
    CASE name \in {<<"binbook", "chapters">>} ->
           <<Given1("handle"), Lit(<<"object", [offset |-> IntLit(3), limit |-> IntLit(4)]>>)>>
      [] name = <<"content", "binbook", "list">> -> <<T("books")>>
      [] name = <<"file", "copy">> -> <<T("ref"), Lit(<<"object", [library |-> T("lib"), name |-> T("new")]>>)>>
      [] name = <<"app", "armedStack", "get">> -> <<CallE(<<"app", "armedStack">>, <<>>), IntLit(0)>>
      [] OTHER -> LET pops == Vm!Signature(Calls[name].builtin).pops
                  IN  [i \in DOMAIN pops |-> Given1(pops[Len(pops) - i + 1])]
Called(name, args) == AppFile(<<LetS("r", CallE(name, args)), PrintS(<<V("r")>>)>>)
CallSources == {<<"call", name>> : name \in DOMAIN Calls}
InstallSources == {<<"install", n>> : n \in 1 .. 2}
ReadSources == {<<"read", h>> : h \in DOMAIN Reads}
ReadFile(h) ==
    AppFile(<<LetS("r", Read(h, IF h \in {"gpio", "storage"} THEN <<T("k")>> ELSE <<>>)), PrintS(<<V("r")>>)>>)
-----------------------------------------------------------------------------
(* Control flow. *)
OperatorSources == {<<"op", o, n>> : o \in DOMAIN Operators, n \in 1 .. 3}
OperatorFile(o, n) ==
    AppFile(<<LetS("r", Bin(o, IntLit(n), IntLit(2))), PrintS(<<V("r")>>),
              IfS(V("r"), <<SetS("n", IntLit(7))>>, <<SetS("n", IntLit(8))>>)>>)

Twice(e) == Bin("+", e, e)
Inc == SetS("n", Bin("+", S("n"), IntLit(1)))
ControlFiles ==
    [text |-> AppFile(<<SetS("t", Bin("+", S("d"), T("q"))), SetS("t", Twice(S("t"))),
                        IfS(Bin("!=", S("t"), S("d")), <<Inc>>, <<>>), SetS("n", S("t"))>>),
     nulls |-> AppFile(<<SetS("t", NullLit), IfS(S("t"), <<Inc>>, <<IfS(Bin("==", S("t"), NullLit), <<Inc>>, <<>>)>>),
                         SetS("d", NullLit), Inc>>),
     arms |-> AppFile(<<IfS(S("n"), <<LetS("x", IntLit(5)), AssignS("x", Twice(V("x"))), SetS("n", V("x"))>>,
                            <<LetS("x", IntLit(1))>>),
                        LetS("y", IntLit(3)), PrintS(<<V("y"), S("n")>>)>>),
     loop |-> AppFile(<<RepeatS(S("n"), <<LetS("x", S("n")), Inc, IfS(Bin(">", V("x"), IntLit(2)), <<StoreS("StateSave")>>, <<>>)>>),
                        RepeatS(IntLit(0), <<Inc>>), RepeatS(T("a"), <<Inc>>)>>),
     for |-> AppFile(<<ForS("x", CallE(<<"app", "registry">>, <<>>), <<>>, <<SetS("t", V("x")), Inc>>),
                       ForS("y", CallE(<<"app", "armedStack">>, <<>>), <<IntLit(1)>>,
                            <<SetS("t", Field(V("y"), "event")), RepeatS(IntLit(2), <<Inc>>)>>)>>),
     missing |-> AppFile(<<Inc, SetS("t", Field(CallE(<<"app", "processStack">>, <<>>), "t")), Inc>>),
     functions |-> With(AppFile(<<SetS("n", CallE(N("f"), <<Bin("-", S("n"), IntLit(1)), IntLit(9)>>)),
                                  CallS(N("g"), <<>>), SetS("t", CallE(N("g"), <<>>)), CallS(N("e"), <<>>)>>),
                        <<Fn("f", <<N("a"), N("b")>>, <<IfS(Bin("<", V("a"), V("b")), <<ReturnS(<<V("b")>>)>>, <<>>), ReturnS(<<V("a")>>)>>),
                          Fn("g", <<>>, <<LetS("a", CallE(N("f"), <<IntLit(4), IntLit(1)>>)), SetS("n", Bin("+", S("n"), V("a")))>>),
                          Fn("e", <<>>, <<RepeatS(IntLit(2), <<CallS(N("g"), <<>>)>>), ReturnS(<<>>), Inc>>)>>, <<>>),
     screens |-> With(AppFile(<<LetS("x", IntLit(1)), OpenS(N("home")), RefreshS, SetS("n", V("x")),
                                OpenS(N("other")), RefreshS, ReturnS(<<IntLit(1)>>), Inc>>),
                      <<Fn("label", <<N("x")>>, <<ReturnS(<<Bin("+", V("x"), S("d"))>>)>>)>>,
                      <<ScreenD("home", <<LetS("y", CallE(N("label"), <<T("s")>>)),
                                          HostS("DisplayText", [text |-> V("y"), x |-> S("n")]), ReturnS(<<>>),
                                          HostS("DisplayClear", [color |-> IntLit(1)])>>),
                        ScreenD("other", <<ForS("i", CallE(<<"app", "registry">>, <<>>), <<>>,
                                               <<HostS("DisplayText", [text |-> V("i")])>>)>>)>>),
     store |-> AppFile(<<StoreS("StateLoad"), Inc, StoreS("StateSave"), SetS("t", T("a")), StoreS("StateReset"),
                         IfS(Bin("==", S("n"), IntLit(2)), <<ExitS>>, <<>>), Inc>>),
     refreshed |-> AppFile(<<Inc, RefreshS>>),
     debug |-> AppFile(<<PrintS(<<S("n"), T("a")>>),
                         DebugS(<<LetS("x", S("n")), AssignS("x", Twice(V("x"))), RepeatS(V("x"), <<PrintS(<<V("x")>>)>>),
                                  DebugS(<<PrintS(<<V("x")>>)>>), IfS(V("x"), <<PrintS(<<S("d")>>)>>, <<>>)>>),
                         LetS("y", IntLit(6)), SetS("n", V("y"))>>),
     wrong |-> AppFile(<<SetS("n", T("a")), Inc>>),
     tables |-> [AppFile(<<Inc>>) EXCEPT
                    !.handlers = <<Handler("go", <<Profiled("BleStart", "file-transfer", "b"),
                                                   Profiled("HttpStart", "file-upload", "h")>>),
                                   Handler("no", <<Inc, Profiled("BleStart", "file-transfer", "c")>>)>>,
                    !.triggers = <<<<HostS("TimerEvery", [event |-> T("go"), interval_ms |-> IntLit(5)]),
                                     HostS("TimerAfter", [event |-> T("no"), delay_ms |-> IntLit(1)])>>>>,
                    !.bindings = <<[service |-> N("display"), binding |-> N("main"), resource |-> N("epd")],
                                   [service |-> N("wifi"), binding |-> N("sta"), resource |-> N("radio")]>>]]

\* Programs that are refused, or run as they say where they are not.
RefusedFiles ==
    [zero |-> [ControlFiles["wrong"] EXCEPT !.triggers =
                   <<<<HostS("TimerEvery", [event |-> T("go"), interval_ms |-> IntLit(0)])>>>>],
     arm |-> AppFile(<<IfS(S("n"), <<LetS("x", IntLit(5))>>, <<>>), SetS("n", V("x"))>>),
     after |-> AppFile(<<DebugS(<<LetS("x", IntLit(5))>>), SetS("n", V("x"))>>),
     effect |-> With(AppFile(<<DebugS(<<CallS(N("f"), <<>>)>>)>>), <<Fn("f", <<>>, <<Inc>>)>>, <<>>),
     paints |-> With(AppFile(<<OpenS(N("home"))>>),
                     <<Fn("f", <<>>, <<CallS(N("g"), <<>>)>>), Fn("g", <<>>, <<Inc>>)>>,
                     <<ScreenD("home", <<CallS(N("f"), <<>>)>>)>>),
     sets |-> Drawn(<<IfS(S("n"), <<Inc>>, <<>>)>>),
     display |-> AppFile(<<HostS("DisplayClear", [color |-> IntLit(1)])>>),
     nowhere |-> AppFile(<<OpenS(N("home"))>>),
     names |-> With(AppFile(<<>>), <<Fn("f", <<N("a"), N("a")>>, <<>>), Fn("f", <<>>, <<>>)>>,
                    <<ScreenD("s", <<>>), ScreenD("s", <<>>)>>),
     routes |-> [AppFile(<<>>) EXCEPT !.triggers = <<<<Inc, HostS("TimerAfter", [event |-> T("x"), delay_ms |-> S("n")])>>>>],
     noApp |-> [AppFile(<<>>) EXCEPT !.app = <<>>],
     profiles |-> AppFile(<<Profiled("BleStart", "other", "b"), Profiled("HttpStart", "file-upload", "b"),
                            SetS("no", IntLit(1)), LetS("n", IntLit(1)), CallS(<<"file", "pickFile">>, <<T("a")>>)>>)]
-----------------------------------------------------------------------------
(* Apps of several files. *)
Lib == N("lib")
More == N("more")
Module(imports, functions, screens) ==
    [Empty EXCEPT !.imports = imports, !.functions = functions, !.screens = screens]
UsesLib(ss) == [AppFile(ss) EXCEPT !.imports = <<<<"l", Lib>>>>]
Tools == Module(<<>>, <<Fn("f", <<N("a")>>, <<ReturnS(<<Bin("+", CallE(N("own"), <<>>), V("a"))>>)>>),
                        Private(Fn("own", <<>>, <<ReturnS(<<S("n")>>)>>))>>,
                <<ScreenD("page", <<HostS("DisplayText", [text |-> S("d")])>>)>>)
Chain == Module(<<<<"m", More>>>>, <<Fn("f", <<N("a")>>, <<LetS("b", CallE(<<"m", "f">>, <<V("a")>>)), ReturnS(<<Twice(V("b"))>>)>>)>>, <<>>)
Calling == <<SetS("n", CallE(<<"l", "f">>, <<IntLit(5)>>)), OpenS(<<"l", "page">>), RefreshS>>
\* The disks; `f' of the root and of the files is a function of its own each time.
Disks ==
    [one |-> (Root :> [UsesLib(Calling) EXCEPT !.functions = <<Fn("f", <<N("a")>>, <<ReturnS(<<IntLit(0)>>)>>)>>]) @@ (Lib :> Tools),
     chain |-> (Root :> UsesLib(<<SetS("n", CallE(<<"l", "f">>, <<IntLit(5)>>)), CallS(<<"l", "f">>, <<IntLit(1)>>)>>))
               @@ (Lib :> Chain) @@ (More :> Module(<<>>, <<Fn("f", <<N("a")>>, <<Inc, ReturnS(<<V("a")>>)>>)>>, <<>>)),
     twice |-> (Root :> [UsesLib(<<SetS("n", Bin("+", CallE(<<"l", "f">>, <<IntLit(5)>>), CallE(<<"m", "f">>, <<IntLit(1)>>)))>>)
                            EXCEPT !.imports = <<<<"l", Lib>>, <<"m", More>>>>])
               @@ (Lib :> Chain) @@ (More :> Tools),
     private |-> (Root :> UsesLib(<<CallS(<<"l", "own">>, <<>>)>>)) @@ (Lib :> Tools),
     cycle |-> (Root :> UsesLib(Calling)) @@ (Lib :> Chain) @@ (More :> [Tools EXCEPT !.imports = <<<<"back", Lib>>>>]),
     gone |-> (Root :> UsesLib(Calling)),
     many |-> (Root :> [UsesLib(<<>>) EXCEPT !.imports = <<<<"l", Lib>>, <<"l", More>>, <<"up", <<"..", "x">>>>, <<"x", N("x")>>, <<"y", N("y")>>>>])
              @@ (Lib :> [AppFile(<<>>) EXCEPT !.required = <<Slot("z", "int", FALSE, 0)>>])
              @@ (More :> Tools) @@ (N("x") :> Tools) @@ (N("y") :> Tools),
     contract |-> (Root :> UsesLib(<<>>)) @@ (Lib :> [AppFile(<<>>) EXCEPT !.required = <<Slot("z", "int", FALSE, 0)>>]),
     outside |-> (Root :> UsesLib(Calling)) @@ (Lib :> [Tools EXCEPT !.inside = FALSE])]
Orphan == [Alone(UsesLib(Calling)) EXCEPT !.target = "device"]
-----------------------------------------------------------------------------
ProgramSources == {<<"control", x>> : x \in DOMAIN ControlFiles} \cup {<<"refused", x>> : x \in DOMAIN RefusedFiles}
                  \cup {<<"disk", x>> : x \in DOMAIN Disks} \cup {<<"orphan">>}
MCIds == HostSources \cup CallSources \cup InstallSources \cup ReadSources \cup OperatorSources \cup ProgramSources
SourceOf(id) ==
    CASE id[1] \in {"host", "bare"} -> HostSource(id)
      [] id[1] = "call"     -> Asking(Called(id[2], ArgsOf(id[2])))
      [] id[1] = "install"  -> Asking(Called(<<"app", "install">>, [i \in 1 .. id[2] |-> T("ref")]))
      [] id[1] = "read"     -> Asking(ReadFile(id[2]))
      [] id[1] = "op"       -> Alone(OperatorFile(id[2], id[3]))
      [] id[1] = "control"  -> [Source(Root :> ControlFiles[id[2]]) EXCEPT
                                  !.answers = IF id[2] = "tables" THEN @ ELSE MCAnswers, !.cut = id[2] \in {"screens", "tables"}]
      [] id[1] = "refused"  -> Source(Root :> RefusedFiles[id[2]])
      [] id[1] = "disk"     -> Source(Disks[id[2]])
      [] id[1] = "orphan"   -> Orphan
MCSources == [id \in MCIds |-> SourceOf(id)]
=============================================================================
