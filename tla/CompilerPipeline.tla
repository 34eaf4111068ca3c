---------------------------- MODULE CompilerPipeline ----------------------------
(***************************************************************************)
(* An app from its source files to what it does: squidc links, checks and  *)
(* compiles it, writes the file, the file is copied to a device and may    *)
(* lose its end, the VM reads it and runs the handler of one event.  What  *)
(* the host is asked to do is compared with what the source means.         *)
(***************************************************************************)
EXTENDS LinkModules, ContainerFile, ProgramMeaning

CONSTANTS
    Sources,    \* source name -> [disk, root, alone, target, event, answers, cut]: what the host may
                \* answer, as in AppMachine, and whether the file may lose its end
    MaxStack, MaxLocals, MaxDepth, MaxRecs, MaxLists, MaxText, MaxTexts, MinI32  \* of the VM

VARIABLES
    source, answer, dev,  \* what is compiled, for whom, with which profile
    stage,  \* "source", "refused", "unemitted", "file", "unloadable", "run", "done"
    whole,  \* has the file kept its end?
    file, image, m, log

vars == <<source, answer, dev, stage, whole, file, image, m, log>>
given == <<source, answer, dev>>

Vm == INSTANCE VmOperands WITH Image <- image, MinInt <- MinI32, MaxInt <- MaxI32

App == Sources[source]
Compiled == IF App.alone THEN CompileSource(App.disk[App.root], App.target)
            ELSE CompilePath(App.disk, App.root, App.target)
Means(profile) == Meaning(App.disk, App.root, profile, answer, App.event)
-----------------------------------------------------------------------------
\* squidc: what is refused by the checks, what by code generation, and the rest is written.
Refused == <<"refused", <<>>>>
Unemitted == <<"unemitted", <<>>>>
Packed(p, unit) == IF unit.ok THEN <<"file", Encode(p, unit)>> ELSE Unemitted
Built(compiled) ==
    IF compiled.ok THEN Packed(compiled.program, Emit(compiled.program, dev)) ELSE Refused
Written(built) == stage' = built[1] /\ file' = built[2]
Compile ==
    /\ stage = "source"
    /\ Written(Built(Compiled))
    /\ UNCHANGED <<given, whole, image, m, log>>

\* A copy of the file that ends too early.
Lose ==
    /\ stage = "file" /\ whole /\ App.cut
    /\ \E n \in 0 .. Len(file) - 1 : file' = SubSeq(file, 1, n)
    /\ whole' = FALSE
    /\ UNCHANGED <<given, stage, image, m, log>>

Machine(loaded) ==
    [state |-> [i \in DOMAIN loaded.slots |-> loaded.slots[i].default],
     stack |-> <<>>, frames |-> <<Vm!Frame(<<"handler", App.event>>, 0)>>, screen |-> Vm!Null,
     exited |-> FALSE, count |-> 0,
     recs |-> [r \in 0 .. MaxRecs - 1 |-> <<>>], nextRec |-> 0,
     lists |-> [l \in 0 .. MaxLists - 1 |-> <<>>], nextList |-> 0, texts |-> {}, failed |-> FALSE]

\* The VM takes the file in and an event arrives.
Start ==
    /\ stage = "file"
    /\ LET index == ParseIndex(file)
       IN  IF index = <<>> THEN stage' = "unloadable" /\ UNCHANGED <<image, m>>
           ELSE /\ image' = Load(file, index[1])
                /\ m' = Machine(image')
                /\ stage' = "run"
    /\ UNCHANGED <<given, whole, file, log>>
-----------------------------------------------------------------------------
(* One instruction after the other.                                         *)
Code == image.code[Vm!Top(m).chunk]
Next1 == Code[Vm!Top(m).ip]
Goes == stage' = IF m'.failed \/ m'.frames = <<>> THEN "done" ELSE "run"

\* Every frame has code, so no code is code that could not be read.
Unreadable ==
    /\ stage = "run" /\ Code = <<>>
    /\ m' = Vm!Fail(m) /\ Goes
    /\ UNCHANGED <<given, whole, file, image, log>>

\* A value as the host sees it.
RECURSIVE Seen(_, _)
Seen(machine, v) ==
    CASE v[1] \in {"literal", "dynamic"} -> Text(v[2])
      [] v[1] = "record" -> <<"record", [f \in DOMAIN machine.recs[v[2]] |->
                                            Seen(machine, machine.recs[v[2]][f])]>>
      [] v[1] = "list"   -> <<"list", [i \in DOMAIN machine.lists[v[2]] |->
                                          Seen(machine, machine.lists[v[2]][i])]>>
      [] OTHER           -> v

\* What an instruction tells the host: the operands as they are taken, what is printed as written.
Tells(ins) ==
    CASE ins.op = "Call"       -> <<<<ins.v, [i \in 1 .. Vm!Arity(ins.v) |-> Seen(m, Vm!Arg(m, i))]>>>>
      [] ins.op = "AppExit"    -> <<<<"app_exit", <<>>>>>>
      [] ins.op = "DebugPrint" -> <<<<"debug_print", [i \in 1 .. ins.v |-> Seen(m, Vm!Arg(m, ins.v - i + 1))]>>>>
      [] OTHER                 -> <<>>

Store1 ==
    /\ stage = "run" /\ Code # <<>> /\ ~Vm!AtEnd(m) /\ Vm!Stores(Next1)
    /\ m' = IF Next1.op = "StateReset" THEN Vm!ResetState(Vm!Stepped(m)) ELSE Vm!Stepped(m)
    /\ log' = Append(log, <<Next1.op, <<>>>>)
    /\ UNCHANGED <<given, stage, whole, file, image>>

\* Behind its last instruction a frame is complete, with null.
Run1 ==
    /\ stage = "run" /\ Code # <<>> /\ (Vm!AtEnd(m) \/ ~Vm!Stores(Next1))
    /\ m' = IF Vm!AtEnd(m) THEN Vm!CompleteFrame(m, Vm!Null) ELSE Vm!Execute(Vm!Stepped(m), Next1, answer)
    /\ Goes
    /\ log' = IF Vm!AtEnd(m) \/ m'.failed THEN log ELSE log \o Tells(Next1)
    /\ UNCHANGED <<given, whole, file, image>>

NoMachine == [failed |-> FALSE, frames |-> <<>>]
Init ==
    /\ source \in DOMAIN Sources /\ answer \in App.answers /\ dev \in BOOLEAN
    /\ stage = "source" /\ whole = TRUE
    /\ file = <<>> /\ image = <<>> /\ m = NoMachine /\ log = <<>>
Next == Compile \/ Lose \/ Start \/ Unreadable \/ Store1 \/ Run1
Spec == Init /\ [][Next]_vars
-----------------------------------------------------------------------------
(***************************************************************************)
(* Properties                                                              *)
(***************************************************************************)
StateIs(w) ==
    \A i \in DOMAIN m.state : Seen(m, m.state[i]) = w.state[image.slots[i].name]

DoneAs(w) == m.failed = w.failed /\ log = w.log /\ StateIs(w)
DoneSilently(w) == log = SelectSeq(w.log, LAMBDA entry : entry[1] # "debug_print") /\ StateIs(w)
DoneSoFar(w) == IF m.failed THEN IsPrefix(log, w.log) ELSE log = w.log /\ ~w.failed

\* What the host is asked to do, with which operands and in which order, how the app state ends
\* and whether the event fails is what the source says: through linking, slots, jumps, string
\* ids, sections and the operand stack (sqbc.rs compile_statement, compile.rs, vm.rs).
RunsAsWritten ==
    stage = "done" /\ whole => DoneAs(Means(dev))

\* An event leaves nothing on the operand stack, which no dispatch clears: whatever a builtin or
\* a function hands back is taken away.  And code finds its operands among those its own frame
\* has put there, on every path and not only those a run takes: read from its first instruction
\* to its last, each takes what those before it left, and a jump goes where no more is expected
\* (sqbc.rs compile_statement, compile_expr, vm.rs call_builtin).  The second is what the
\* theorem TextsStayAlive asks of an image.
HeightAt(code, i) ==
    FoldLeft(LAMBDA height, ins : height - Vm!Takes(ins) + Vm!Leaves(ins), 0, SubSeq(code, 1, i - 1))
Heights == [c \in DOMAIN image.code |-> [i \in 1 .. Len(image.code[c]) + 1 |-> HeightAt(image.code[c], i)]]
OperandsAreOwn == stage = "run" /\ m = Machine(image) => Vm!Balanced(Heights)
NothingIsLeft == stage = "done" /\ ~m.failed => m.stack = <<>>
StackBalanced == NothingIsLeft /\ OperandsAreOwn

\* A release does what a development build does, but prints nothing: taking the debug statements
\* away takes no effect away (semantic.rs validate_debug_blocks, sqbc.rs compile_statement).
DebugIsSilent == stage = "done" /\ whole /\ ~dev => DoneSilently(Means(TRUE))

\* What passes the checks compiles, and what compiles is a file the VM takes
\* (semantic.rs validate_semantics, sqbc.rs check_program_limits, program.rs ProgramIndex).
AcceptedLoads == stage # "unemitted" /\ (whole => stage # "unloadable")

\* What the firmware reads row by row, timers, bindings and profiles, is what the source
\* declares, in its order; from a file that lost its end it reads that or nothing
\* (squidvm-ffi sqvm_*_read_from_reader, sqbc.rs encode_triggers, encode_ble_profiles).
RowsAgree(count, at(_), rows) ==
    /\ whole => count = Len(rows)
    /\ count > 0 => \A i \in 1 .. count : at(i) = <<rows[i]>> \/ (~whole /\ at(i) = <<>>)
Declares(st) ==
    [profile |-> <<st.profile>>, id |-> st.args["id"].value[2], role |-> <<"server">>,
     accept |-> st.accept, events |-> st.events]
ProfilesAgree(profiles, section, at(_)) ==
    RowsAgree(ProfileCount(file, section), at, [i \in DOMAIN profiles |-> Declares(profiles[i])])
ReadersAgreeOn(p) ==
    /\ RowsAgree(TimerCount(file), LAMBDA i : TimerAt(file, i), p.timers)
    /\ RowsAgree(BindingCount(file), LAMBDA i : BindingAt(file, i), p.bindings)
    /\ ProfilesAgree(BleProfiles(p), "bleProfiles", LAMBDA i : BleProfileAt(file, i))
    /\ ProfilesAgree(HttpProfiles(p), "httpProfiles", LAMBDA i : HttpProfileAt(file, i))
    /\ whole => ReadAppId(file) = <<p.app[1].id>> /\ ParseProgram(file) = ParseIndex(file)
ReadersAgree == stage = "file" => ReadersAgreeOn(Compiled.program)

\* A file that lost its end never runs as another program: it is refused, or the event fails
\* where the code is missing and has done no more than the app does (program.rs
\* parse_from_reader_in_place, squidvm-ffi read_exact_at).
CutIsNoticed == stage = "done" /\ ~whole => DoneSoFar(Means(dev))

\* Drawing a screen changes nothing but the display: not the app's state, not its services, not
\* the screen or the app that runs (semantic.rs validate_screen_statements).
Drawing == stage = "run" /\ \E i \in DOMAIN m.frames : m.frames[i].chunk[1] = "screen"
Effects == {HostStatements[s].builtin : s \in DOMAIN HostStatements \ DOMAIN DisplayStatements}
           \cup {"app_exit", "StateLoad", "StateSave", "StateReset"}
ScreensOnlyDraw ==
    [][Drawing => /\ m'.state = m.state /\ m'.screen = m.screen
                  /\ log' = log \/ Last(log')[1] \notin Effects]_vars
=============================================================================
