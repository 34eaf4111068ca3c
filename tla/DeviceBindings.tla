--------------------------- MODULE DeviceBindings ---------------------------
(***************************************************************************)
(* The firmware's device bindings: the draft configuration that an app's   *)
(* device.config calls edit, the bindings they activate, the configuration *)
(* saved to flash and the bindings of an app's start                       *)
(* (vm_runtime_device_config.c, over the sqdc_ functions of DeviceConfig). *)
(*                                                                         *)
(* The calls and the start run on the VM's worker, one after the other.    *)
(* configure_input_button_gpio may fail on the pins of `faulty'; a file may*)
(* fail to be read, written or found, and the scratch buffer may be taken  *)
(* (`io' FALSE).  The file system commits a file when it is closed, so a   *)
(* save that loses power leaves the old file, or an empty one it created.  *)
(***************************************************************************)
EXTENDS DeviceConfig, FiniteSets

CONSTANTS
    Apps, NoApp,
    Section,      \* [Apps -> the device section of the app]
    Package,      \* [paths -> the SQDEVICE text an app holds there]
    Calls,        \* what apps call: [op, source | record | alias]
    Defaults,     \* the builds' indicator: pins or NoPin
    NoPin,
    PinNumber,    \* the pin names with a number, and their pins
    CapablePins,  \* SQ_TARGET_GPIO_CAPABLE_MASK
    FragilePins,  \* the pins whose driver may fail, one at a time
    MaxBindings,  \* SQ_VM_RUNTIME_ACTIVE_BINDING_MAX
    MaxButtons,   \* SQ_VM_RUNTIME_INPUT_BUTTON_MAX
    MaxSection    \* MAX_DEVICE_BINDINGS

ASSUME BindingsAssumption ==
    /\ {MaxBindings, MaxButtons, MaxSection} \subseteq Nat /\ MaxBindings # 0
    /\ \A a \in Apps : Section[a] \in Seq(ToSet(Section[a]))
    /\ \A path \in DOMAIN Package : Package[path].lines \in Seq(ToSet(Package[path].lines))

VARIABLES
    target,       \* the build's default indicator, never changes
    draft,        \* device_config_draft
    draftLoaded,  \* device_config_draft_loaded
    bound,        \* the active bindings
    file,         \* /system/device-config.sqdc
    app,          \* the app that runs
    last          \* the last call and what it answered

vars == <<target, draft, draftLoaded, bound, file, app, last>>

NoButton == [active |-> FALSE, pin |-> 0, event |-> "none", low |-> FALSE]
NoIndicator == [active |-> FALSE, pin |-> 0, low |-> FALSE]
(* active_bindings are only added to or cleared: their count is Len(active)*)
Unbound ==
    [active |-> <<>>, indicator |-> NoIndicator,
     buttons |-> [i \in 1..MaxButtons |-> NoButton], buttonCount |-> 0]

Indicator == "indicator.default"

Answer(op, what, ok, calm) == [op |-> op, what |-> what, ok |-> ok, calm |-> calm]

(* What the firmware writes into a draft itself fits: the five keys of a   *)
(* planned configuration, pins, events and aliases that are not too long.  *)
ASSUME TextsAssumption ==
    /\ MaxRecords >= 5
    /\ {"service", "mode", "pinName", "event", "activeLow"} \cap BadKeys = {}
    /\ LongText \notin {Indicator, "gpio", "gpio-button"} \cup Defaults \cup PinTexts \cup KeyEvents
    /\ \A a \in Apps : \A i \in DOMAIN Section[a] :
          Alias(Section[a][i]) = LongText => LongText \in LongAliases

-----------------------------------------------------------------------------
(* Activation.  An outcome is [bound, ok].                                 *)
Activate(b, alias) ==
    IF alias \in ToSet(b.active) THEN [bound |-> b, ok |-> TRUE]
    ELSE IF Len(b.active) < MaxBindings
         THEN [bound |-> [b EXCEPT !.active = Append(@, alias)], ok |-> TRUE]
         ELSE [bound |-> b, ok |-> FALSE]

ActivateIndicator(b, pin, low) ==
    Activate([b EXCEPT !.indicator = [active |-> TRUE, pin |-> pin, low |-> low]],
             Indicator)

(* The slot of the pin, else the first free one.                           *)
ButtonSlots(b, pin) ==
    LET held == {i \in 1..MaxButtons : b.buttons[i].active /\ b.buttons[i].pin = pin}
        free == {i \in 1..MaxButtons : ~b.buttons[i].active}
        slots == IF held # {} THEN held ELSE free
    IN {i \in slots : \A j \in slots : i <= j}

\* Wrong: a pin that does not configure keeps its count.
LeaveButton(b, pin, button, works) ==
    IF ButtonSlots(b, pin) = {} THEN [bound |-> b, ok |-> FALSE]
    ELSE LET i == CHOOSE i \in ButtonSlots(b, pin) : TRUE
             taken == IF b.buttons[i].active THEN 0 ELSE 1
         IN [bound |-> [b EXCEPT !.buttons[i] = IF works THEN button ELSE NoButton,
                                 !.buttonCount = @ + taken], ok |-> works]
ActivateButton(b, pin, button, works) ==
    IF ButtonSlots(b, pin) = {} THEN [bound |-> b, ok |-> FALSE]
    ELSE LET i == CHOOSE i \in ButtonSlots(b, pin) : TRUE
             taken == IF b.buttons[i].active THEN 0 ELSE 1
         IN IF works
            THEN [bound |-> [b EXCEPT !.buttons[i] = button, !.buttonCount = @ + taken],
                  ok |-> TRUE]
            ELSE [bound |-> [b EXCEPT !.buttons[i] = NoButton,
                                      !.buttonCount = @ + taken - 1],
                  ok |-> FALSE]

HasPin(config) ==
    /\ HasA(config, "pinName", "string")
    /\ TextOf(config, "pinName") \in DOMAIN PinNumber
    /\ HasA(config, "activeLow", "bool")
    /\ PinNumber[TextOf(config, "pinName")] \in CapablePins

IsButton(config) == Says(config, "mode", "string", "gpio-button")
ForAlias(config, alias) == Says(config, "service", "string", alias)

(* What a configuration must say to be bound under an alias.               *)
Bindable(config, alias) ==
    /\ ForAlias(config, alias)
    /\ IsButton(config) => HasPin(config) /\ HasA(config, "event", "string")
    /\ ~IsButton(config) /\ alias = Indicator =>
          HasPin(config) /\ Says(config, "mode", "string", "gpio")

(* sq_vm_runtime_device_config_rebind with a loaded draft.                 *)
Bind(b, config, alias, faulty) ==
    LET pin == PinNumber[TextOf(config, "pinName")]
        low == TextOf(config, "activeLow") = "true"
        button == [active |-> TRUE, pin |-> pin, event |-> TextOf(config, "event"), low |-> low]
        made == Activate(b, alias)
    IN CASE ~Bindable(config, alias) -> [bound |-> b, ok |-> FALSE]
         [] Bindable(config, alias) /\ IsButton(config) ->
              IF made.ok THEN ActivateButton(made.bound, pin, button, pin \notin faulty)
              ELSE made
         [] Bindable(config, alias) /\ ~IsButton(config) /\ alias = Indicator ->
              ActivateIndicator(b, pin, low)
         [] OTHER -> made

-----------------------------------------------------------------------------
(* The start of an app: prepare_app_start.  Its steps take and leave       *)
(* [draft, loaded, bound, ok], and none is taken after one that failed.    *)
Fails(p) == [p EXCEPT !.ok = FALSE]
Drafted(p, config) == [p EXCEPT !.draft = config, !.loaded = TRUE]
Rebound(p, alias, faulty) ==
    LET o == Bind(p.bound, p.draft, alias, faulty)
    IN [p EXCEPT !.bound = o.bound, !.ok = o.ok]

DefaultConfig(pin) == GpioConfig(Indicator, pin, TRUE)
\* Wrong: the bindings of the former app stay.
KeepBindings(b) ==
    IF target = NoPin
    THEN [draft |-> <<>>, loaded |-> FALSE, ok |-> TRUE, bound |-> b]
    ELSE [draft |-> DefaultConfig(target), loaded |-> TRUE, ok |-> TRUE,
          bound |-> ActivateIndicator(b, PinNumber[target], TRUE).bound]
ApplyTarget(b) ==
    IF target = NoPin
    THEN [draft |-> <<>>, loaded |-> FALSE, ok |-> TRUE, bound |-> Unbound]
    ELSE [draft |-> DefaultConfig(target), loaded |-> TRUE, ok |-> TRUE,
          bound |-> ActivateIndicator(Unbound, PinNumber[target], TRUE).bound]

ApplySaved(p, io, faulty) ==
    IF ~io THEN Fails(p)
    ELSE IF ~file.there THEN p
    ELSE IF ~FirmwareDecodes(file) THEN Fails(p)
    ELSE Rebound(Drafted(p, file.records), Indicator, faulty)

ApplyBinding(p, b, faulty) ==
    IF ~p.ok THEN p
    ELSE IF ~Plannable(b) THEN Fails(p)
    ELSE IF b.resource.form # "package"
         THEN Rebound(Drafted(p, Planned(b)), Alias(b), faulty)
    ELSE LET emptied == [p EXCEPT !.draft = <<>>]
         IN IF /\ b.resource.path \in DOMAIN Package
               /\ FirmwareReads(Package[b.resource.path])
            THEN Rebound(Drafted(emptied, Records(Package[b.resource.path])), Alias(b), faulty)
            ELSE Fails(emptied)

ApplySection(p, bindings, faulty) ==
    IF ~p.ok THEN p
    ELSE IF Len(bindings) > MaxSection THEN Fails(p)
    ELSE FoldLeft(LAMBDA q, b : ApplyBinding(q, b, faulty), p, bindings)

Start(a, io, faulty) ==
    LET p == ApplySection(ApplySaved(ApplyTarget(bound), io, faulty), Section[a], faulty)
    IN /\ draft' = p.draft /\ draftLoaded' = p.loaded /\ bound' = p.bound
       /\ app' = IF p.ok THEN a ELSE NoApp
       /\ last' = Answer("start", a, p.ok, io /\ faulty = {})
       /\ UNCHANGED <<target, file>>

-----------------------------------------------------------------------------
(* The device.config calls of the app that runs.                           *)
Load(path, io) ==
    LET ok == /\ io /\ path \in SafePaths
              /\ path \in DOMAIN Package
              /\ FirmwareReads(Package[path])
    IN /\ app # NoApp
       /\ IF ok THEN draft' = Records(Package[path]) /\ draftLoaded' = TRUE
                ELSE UNCHANGED <<draft, draftLoaded>>
       /\ last' = Answer("load", path, ok, io)
       /\ UNCHANGED <<target, bound, file, app>>

SetKey(record) ==
    LET ok == draftLoaded /\ CanSet(draft, record)
    IN /\ app # NoApp
       /\ draft' = IF ok THEN Set(draft, record) ELSE draft
       /\ last' = Answer("set", record.key, ok, TRUE)
       /\ UNCHANGED <<target, draftLoaded, bound, file, app>>

Rebind(alias, faulty) ==
    LET o == IF draftLoaded THEN Bind(bound, draft, alias, faulty)
             ELSE [bound |-> bound, ok |-> FALSE]
    IN /\ app # NoApp
       /\ bound' = o.bound
       /\ last' = Answer("rebind", alias, o.ok, faulty = {})
       /\ UNCHANGED <<target, draft, draftLoaded, file, app>>

(* A file that cannot be written may have been created.                    *)
Created == IF file.there THEN file ELSE Empty
Save(io) ==
    LET ok == draftLoaded /\ io
    IN /\ app # NoApp
       /\ file' \in IF ok THEN {Encode(draft)}
                    ELSE IF draftLoaded THEN {file, Created} ELSE {file}
       /\ last' = Answer("save", "flash", ok, io)
       /\ UNCHANGED <<target, draft, draftLoaded, bound, app>>

(* The device restarts, or the runtime is initialised; during a save the   *)
(* file may have been created.                                             *)
Reset ==
    /\ draft' = <<>> /\ draftLoaded' = FALSE /\ bound' = Unbound /\ app' = NoApp
    /\ file' \in IF app # NoApp /\ draftLoaded THEN {file, Created} ELSE {file}
    /\ last' = Answer("reset", NoApp, TRUE, TRUE)
    /\ UNCHANGED target

Init ==
    /\ target \in Defaults
    /\ draft = <<>> /\ draftLoaded = FALSE /\ bound = Unbound
    /\ file = Absent /\ app = NoApp
    /\ last = Answer("reset", NoApp, TRUE, TRUE)

Faults == {{}} \cup {{p} : p \in FragilePins}

Call(c) ==
    \/ c.op = "load" /\ \E io \in BOOLEAN : Load(c.source, io)
    \/ c.op = "set" /\ SetKey(c.record)
    \/ c.op = "rebind" /\ \E faulty \in Faults : Rebind(c.alias, faulty)

Next ==
    \/ \E a \in Apps, io \in BOOLEAN, faulty \in Faults : Start(a, io, faulty)
    \/ \E c \in Calls : Call(c)
    \/ \E io \in BOOLEAN : Save(io)
    \/ Reset

Spec == Init /\ [][Next]_vars

-----------------------------------------------------------------------------
Buttons(b) == {b.buttons[i] : i \in {j \in 1..MaxButtons : b.buttons[j].active}}

(* The draft is a configuration of distinct, valid keys within its bound;  *)
(* the aliases are distinct, no two buttons share a pin, and the count of  *)
(* buttons is the number of active slots                                   *)
(* (runtime_activate_binding, runtime_activate_input_button).              *)
BindingsTypeOK ==
    /\ target \in Defaults /\ app \in Apps \cup {NoApp}
    /\ draftLoaded \in BOOLEAN /\ Valid(draft)
    /\ Len(bound.active) <= MaxBindings /\ IsInjective(bound.active)
    /\ bound.buttonCount = Cardinality({i \in 1..MaxButtons : bound.buttons[i].active})
    /\ Cardinality(Buttons(bound)) = Cardinality({x.pin : x \in Buttons(bound)})

(* A draft the firmware loaded is what the compiler crate reads in the same*)
(* text: the two readers of SQDEVICE texts, which are written separately,  *)
(* differ only in what they refuse (parse_sqdevice, sqdc_parse_sqdevice).  *)
LoadsAgree ==
    last.op = "load" /\ last.ok =>
        /\ CompilerReads(Package[last.what])
        /\ draft = Records(Package[last.what])

(* After a save that answered ok, the firmware's next start and the        *)
(* compiler's decoder both read the draft back, whatever loads and sets    *)
(* made it (sqdc_encode_sqdc, sqdc_decode_sqdc, decode_sqdc).              *)
SavedReadsBack ==
    last.op = "save" /\ last.ok =>
        /\ FirmwareDecodes(file) /\ CompilerDecodes(file)
        /\ file.records = draft

(* The configurations of a start, in the order in which they override each *)
(* other: the target's, the saved one, then the app's.                     *)
ConfigOf(b) ==
    IF b.resource.form = "package" THEN Records(Package[b.resource.path]) ELSE Planned(b)
Layers(a) ==
    (IF target = NoPin THEN <<>>
     ELSE <<[alias |-> Indicator, config |-> DefaultConfig(target)]>>)
    \o (IF file.there THEN <<[alias |-> Indicator, config |-> file.records]>> ELSE <<>>)
    \o [i \in DOMAIN Section[a] |->
          [alias |-> Alias(Section[a][i]), config |-> ConfigOf(Section[a][i])]]

PinOf(config) == PinNumber[TextOf(config, "pinName")]
LowOf(config) == TextOf(config, "activeLow") = "true"

(* What an app may count on when its start was answered ok, and when it is *)
(* refused although nothing failed.                                        *)
Startable(a) ==
    /\ file.there => FirmwareDecodes(file) /\ Bindable(file.records, Indicator)
    /\ Len(Section[a]) <= MaxSection
    /\ \A i \in DOMAIN Section[a] :
          LET b == Section[a][i]
          IN /\ Plannable(b)
             /\ b.resource.form = "package" =>
                   /\ b.resource.path \in DOMAIN Package
                   /\ FirmwareReads(Package[b.resource.path])
             /\ Bindable(ConfigOf(b), Alias(b))
    /\ LET l == Layers(a)
           pins == {PinOf(l[i].config) : i \in {j \in DOMAIN l : IsButton(l[j].config)}}
       IN /\ Cardinality({l[i].alias : i \in DOMAIN l}) <= MaxBindings
          /\ Cardinality(pins) <= MaxButtons

Wanted(a) ==
    LET l == Layers(a)
        lamps == {i \in DOMAIN l : l[i].alias = Indicator /\ ~IsButton(l[i].config)}
        keys == {i \in DOMAIN l : IsButton(l[i].config)}
    IN /\ ToSet(bound.active) = {l[i].alias : i \in DOMAIN l}
       /\ IF lamps = {} THEN bound.indicator = NoIndicator
          ELSE \E i \in lamps : /\ \A j \in lamps : j <= i
                                /\ bound.indicator = [active |-> TRUE, pin |-> PinOf(l[i].config),
                                                      low |-> LowOf(l[i].config)]
       /\ Buttons(bound) =
            {[active |-> TRUE, pin |-> PinOf(l[i].config), event |-> TextOf(l[i].config, "event"),
              low |-> LowOf(l[i].config)] :
                i \in {k \in keys : \A j \in keys :
                          PinOf(l[j].config) = PinOf(l[k].config) => j <= k}}

(* An app starts with the target's default, the saved and its own bindings,*)
(* later ones before earlier ones and nothing of the app before it; where  *)
(* nothing failed, only a saved file, a declaration or a limit that the    *)
(* runtime cannot bind refuses it (sq_vm_runtime_prepare_app_start).       *)
StartBinds ==
    last.op = "start" =>
        /\ last.ok => Startable(last.what) /\ Wanted(last.what)
        /\ ~last.ok /\ last.calm => ~Startable(last.what)
=============================================================================
