------------------------------ MODULE AppMachine ------------------------------
(***************************************************************************)
(* What the portable VM promises about one app: an event runs its handler  *)
(* instruction by instruction as if all of the app's code were in memory,  *)
(* stops for the host when it loads, saves or resets the app state, and    *)
(* ends after a bounded number of instructions.                            *)
(***************************************************************************)
EXTENDS VmInstructions, SequencesExt

CONSTANTS
    Events,      \* the events the host dispatches
    Payloads,    \* what an event may carry: [fields, text]
    Answers,     \* what the host may answer: [refuse, flag, some, number, count, text]
    OldRecords,  \* state records found at first: of this app, an older one, a broken one
    MaxSaved,    \* MAX_SAVED_STATE_BYTES, in tokens
    MaxInstr     \* MAX_INSTRUCTIONS_PER_EVENT

ASSUME MachineLimits == MaxInstr \in Nat /\ MaxSaved \in Nat

IsSeq(s) == Len(s) \in Nat /\ DOMAIN s = 1 .. Len(s)

\* What the loader has checked of an image before it runs, and what its encoding can say.
ASSUME ImageAssumption ==
    /\ IsSeq(Image.slots)
    /\ \A i \in DOMAIN Image.slots :
           /\ Image.slots[i].type \in {"int", "bool", "string"}
           /\ Accepts(Image.slots[i], Image.slots[i].default)
           /\ \A j \in DOMAIN Image.slots : Image.slots[i].name = Image.slots[j].name => i = j
    /\ \A c \in DOMAIN Image.code :
           /\ IsSeq(Image.code[c])
           /\ \A i \in DOMAIN Image.code[c] : LET ins == Image.code[c][i] IN
                 /\ ins.op \in {"Jump", "JumpIfFalse"} => ins.v \in Nat \ {0}
                 /\ ins.op = "DebugPrint" => ins.v \in Nat
    /\ \A event \in DOMAIN Image.handlers : <<"handler", event>> \in DOMAIN Image.code
    /\ \A screen \in Image.screens : <<"screen", screen>> \in DOMAIN Image.code
    /\ \A f \in DOMAIN Image.functions :
           <<"function", f>> \in DOMAIN Image.code /\ Image.functions[f].params \in Nat

\* What a list of the host has, and what the encoding of a state record can say.
IsEntry(e) ==
    /\ e = [name |-> e.name, type |-> e.type, nullable |-> e.nullable, value |-> e.value]
    /\ e.value[1] \in {"null", "int", "bool", "text"}
    /\ e.value[1] = "text" => e.value = <<"text", e.value[2]>>
IsRecord(rec) == IsSeq(rec.entries) /\ \A i \in DOMAIN rec.entries : IsEntry(rec.entries[i])
ASSUME HostAssumption ==
    (\A a \in Answers : a.count \in Nat) /\ (\A rec \in OldRecords : IsRecord(rec))

\* A text of the image, be it an operand or a default, is in its string table.
IsConstant(v) == v[1] \in {"null", "int", "bool", "literal"}
ASSUME ConstantsAssumption ==
    /\ \A i \in DOMAIN Image.slots : IsConstant(Image.slots[i].default)
    /\ \A c \in DOMAIN Image.code : \A i \in DOMAIN Image.code[c] :
           Image.code[c][i].op = "Push" => IsConstant(Image.code[c][i].v)

VARIABLES
    m,      \* the machine
    phase,  \* "idle", "run", or what the machine waits for: "load", "save", "reset"
    saved   \* the state record in the app's storage, or NoRecord

appVars == <<m, phase, saved>>

NoAnswer == [refuse |-> FALSE, flag |-> FALSE, some |-> FALSE, number |-> 0, count |-> 0,
             text |-> <<>>]
NoPayload == [fields |-> {}, text |-> <<>>]
NoRecord == [ok |-> TRUE, entries |-> <<>>]
-----------------------------------------------------------------------------
Fresh ==
    [state |-> [i \in DOMAIN Image.slots |-> Image.slots[i].default],
     stack |-> <<>>, frames |-> <<>>, screen |-> Null, exited |-> FALSE, count |-> 0,
     recs |-> [r \in 0 .. MaxRecs - 1 |-> <<>>], nextRec |-> 0,
     lists |-> [l \in 0 .. MaxLists - 1 |-> <<>>], nextList |-> 0,
     texts |-> {}, failed |-> FALSE]

\* Wrong: the cleanup keeps nothing.
NoTexts(st) == {}
\* Only the texts that the state refers to outlive the event that made them.
StateTexts(st) == {st[i][2] : i \in {j \in DOMAIN st : Type(st[j]) = "dynamic"}}

WithPayload(n, payload) ==
    LET texted == Intern(n, payload.text)
        fields == [f \in payload.fields |-> TextVal(payload.text)]
        stored == AllocRecords(texted, fields, 1)
    IN  Then(texted, SetTop(stored, [Top(stored) EXCEPT !.locals[1] = <<"record", texted.nextRec>>]))

Prologue(event, payload) ==
    LET h == Image.handlers[event]
        begun == [m EXCEPT !.texts = StateTexts(m.state), !.nextRec = 0, !.nextList = 0,
                           !.count = 0, !.failed = FALSE,
                           !.frames = <<Frame(<<"handler", event>>, 0)>>]
    IN  IF h.locals > MaxLocals \/ h.params > h.locals THEN Fail(m)
        ELSE IF h.params > 1 THEN Fail(begun)
        ELSE IF h.params = 1 /\ payload # NoPayload THEN WithPayload(begun, payload)
        ELSE begun

\* A machine that failed or has no frame left is done with its event.
Settled(n) == IF n.failed \/ n.frames = <<>> THEN "idle" ELSE "run"

Start(event, payload) ==
    /\ phase = "idle" /\ ~m.exited
    /\ event \in DOMAIN Image.handlers
    /\ m' = Prologue(event, payload)
    /\ phase' = Settled(m')
    /\ UNCHANGED saved

EndFrame ==
    /\ phase = "run" /\ AtEnd(m)
    /\ m' = CompleteFrame(m, Null)
    /\ phase' = Settled(m')
    /\ UNCHANGED saved

Fetch == Image.code[Top(m).chunk][Top(m).ip]
OutOfBudget == m.count >= MaxInstr

Exceed ==
    /\ phase = "run" /\ ~AtEnd(m) /\ OutOfBudget
    /\ m' = Fail([m EXCEPT !.count = @ + 1])
    /\ phase' = "idle"
    /\ UNCHANGED saved

\* One instruction that stays inside the machine, or that the host answers at once.
Run(ins) ==
    \E a \in IF AsksHost(ins) THEN Answers ELSE {NoAnswer} :
        /\ m' = Execute(Stepped(m), ins, a)
        /\ phase' = Settled(m')
        /\ UNCHANGED saved
-----------------------------------------------------------------------------
(* State records: the values by name, with the type they were declared with. *)
Entry(i, st) == [name |-> Image.slots[i].name, type |-> Image.slots[i].type,
                 nullable |-> Image.slots[i].nullable,
                 value |-> IF IsString(st[i]) THEN <<"text", st[i][2]>> ELSE st[i]]
SavedRecord(st) == [ok |-> TRUE, entries |-> [i \in DOMAIN st |-> Entry(i, st)]]
EntrySize(e) == 1 + (IF e.value[1] = "text" THEN Len(e.value[2]) ELSE 0)
RecordSize(rec) == FoldLeft(LAMBDA n, e : n + EntrySize(e), 0, rec.entries)

\* A storing instruction, which suspends the event; a record too large for the buffer fails it.
Ask(ins) ==
    /\ CASE ins.op = "StateLoad" -> m' = Stepped(m) /\ phase' = "load"
         [] ins.op = "StateSave" ->
              IF RecordSize(SavedRecord(m.state)) > MaxSaved
              THEN m' = Fail(Stepped(m)) /\ phase' = "idle"
              ELSE m' = Stepped(m) /\ phase' = "save"
         [] ins.op = "StateReset" -> m' = ResetState(Stepped(m)) /\ phase' = "reset"
    /\ UNCHANGED saved

Step(ins) == IF Stores(ins) THEN Ask(ins) ELSE Run(ins)
RunStep == phase = "run" /\ ~AtEnd(m) /\ ~OutOfBudget /\ Step(Fetch)

\* saved_state_value_matches: Null by the record's own mark, a text by its length too.
Readable(e) ==
    \/ e.value = Null /\ e.nullable
    \/ e.value[1] = "text" /\ e.type = "string" /\ Len(e.value[2]) <= MaxText
    \/ e.value # Null /\ e.value[1] = e.type
SlotsNamed(name) == {i \in DOMAIN Image.slots : Image.slots[i].name = name}

\* Wrong: a null of the record leaves the slot alone.
ApplyValue(n, e) ==
    LET i == CHOOSE j \in SlotsNamed(e.name) : TRUE
        texted == IF e.value[1] = "text" THEN Intern(n, e.value[2]) ELSE n
        v == IF e.value[1] = "text" THEN TextVal(e.value[2]) ELSE e.value
    IN  IF n.failed \/ ~Readable(e) THEN Fail(n)
        ELSE IF SlotsNamed(e.name) = {} \/ v = Null THEN n
        ELSE IF Image.slots[i].type # e.type \/ Image.slots[i].nullable # e.nullable THEN Fail(n)
        ELSE Then(texted, [texted EXCEPT !.state[i] = v])

\* One entry: a name the app does not have is skipped, a type that differs is an error.
ApplyEntry(n, e) ==
    LET i == CHOOSE j \in SlotsNamed(e.name) : \A k \in SlotsNamed(e.name) : j <= k
        texted == IF e.value[1] = "text" THEN Intern(n, e.value[2]) ELSE n
        v == IF e.value[1] = "text" THEN TextVal(e.value[2]) ELSE e.value
    IN  IF n.failed \/ ~Readable(e) THEN Fail(n)
        ELSE IF SlotsNamed(e.name) = {} THEN n
        ELSE IF Image.slots[i].type # e.type \/ Image.slots[i].nullable # e.nullable THEN Fail(n)
        ELSE Then(texted, [texted EXCEPT !.state[i] = v])

\* What was applied before an error stays applied.
ApplyRecord(rec) ==
    LET applied == FoldLeft(ApplyEntry, m, rec.entries) IN IF rec.ok THEN applied ELSE Fail(applied)

LoadDone ==
    /\ phase = "load"
    /\ m' = ApplyRecord(saved)
    /\ phase' = Settled(m')
    /\ UNCHANGED saved
SaveDone ==
    /\ phase = "save"
    /\ saved' = SavedRecord(m.state) /\ phase' = "run"
    /\ UNCHANGED m
ResetDone ==
    /\ phase = "reset"
    /\ saved' = NoRecord /\ phase' = "run"
    /\ UNCHANGED m

\* The host's storage failed: it does not resume, and the event is over.
Abandon ==
    /\ phase \in {"load", "save", "reset"}
    /\ phase' = "idle"
    /\ UNCHANGED <<m, saved>>

\* The code could not be read; the machine keeps what it has done so far.
Unreadable ==
    /\ phase = "run" /\ ~AtEnd(m)
    /\ m' \in {m, Fail(m)}
    /\ phase' = "idle"
    /\ UNCHANGED saved

\* The app is left, or the power is cut, and the app starts again from its storage.
Relaunch ==
    /\ m # Fresh \/ phase # "idle"
    /\ m' = Fresh /\ phase' = "idle"
    /\ UNCHANGED saved

HostDone == LoadDone \/ SaveDone \/ ResetDone \/ Abandon
Work == EndFrame \/ Exceed \/ RunStep \/ Unreadable

AppInit == m = Fresh /\ phase = "idle" /\ saved \in OldRecords
AppNext ==
    \/ \E event \in Events, payload \in Payloads : Start(event, payload)
    \/ Work \/ HostDone \/ Relaunch
AppSpec == AppInit /\ [][AppNext]_appVars
AppFairness == WF_appVars(Work) /\ WF_appVars(HostDone)
=============================================================================
