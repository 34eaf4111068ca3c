---------------------------- MODULE DeviceConfig ----------------------------
(***************************************************************************)
(* Device configurations: SQDEVICE texts, SQDC files and the resources an  *)
(* app's device section names, as the bounded core of the firmware (the    *)
(* sqdc_ C ABI) and the compiler crate read them.                          *)
(*                                                                         *)
(* A configuration is a sequence of records [key, kind, text]; the text of *)
(* a value is what it says, whatever its kind.  A line of an SQDEVICE text *)
(* adds how its value is written: plainly, with a plus sign before the     *)
(* number or the length, or in a form nothing reads.  Comments and blank   *)
(* lines are skipped by both readers and left out.                         *)
(***************************************************************************)
EXTENDS Naturals, Sequences, SequencesExt

CONSTANTS
    MaxRecords,   \* SQDC_CONFIG_MAX_RECORDS
    BadKeys,      \* empty, over SQDC_CONFIG_KEY_CAP, or with other characters
    LongText,     \* a string of more than SQDC_CONFIG_STRING_CAP bytes
    BadNames,     \* service and binding names of 32 bytes or more, or with
                  \* other characters than letters, digits, _ and -
    LongAliases,  \* aliases of 32 bytes or more
    LongPath,     \* a package path of SQVM_DEVICE_BINDING_RESOURCE_CAP bytes
    SafePaths,    \* package-relative .sqdevice paths
    PinTexts,     \* GPIO and one or two digits
    KeyEvents     \* the logical key events

ASSUME ConfigAssumption ==
    /\ MaxRecords \in Nat
    /\ LongPath \in SafePaths

ValueKinds == {"null", "bool", "int", "string"}

ValidKey(key) == key \notin BadKeys

Keys(config) == {config[i].key : i \in DOMAIN config}

IsBounded(r) == r.kind = "string" => r.text # LongText

Valid(config) ==
    /\ Len(config) <= MaxRecords
    /\ \A i \in DOMAIN config : ValidKey(config[i].key) /\ IsBounded(config[i])
    /\ \A i, j \in DOMAIN config : config[i].key = config[j].key => i = j

StringAt(key, text) == [key |-> key, kind |-> "string", text |-> text]
BoolAt(key, b) == [key |-> key, kind |-> "bool", text |-> IF b THEN "true" ELSE "false"]

(* runtime_device_config_find and its readers.                             *)
Says(config, key, kind, text) ==
    \E i \in DOMAIN config : config[i] = [key |-> key, kind |-> kind, text |-> text]
HasA(config, key, kind) ==
    \E i \in DOMAIN config : config[i].key = key /\ config[i].kind = kind
TextOf(config, key) ==
    (CHOOSE r \in ToSet(config) : r.key = key).text

-----------------------------------------------------------------------------
(* SQDEVICE texts: [header, lines].                                        *)
Record(line) == [key |-> line.key, kind |-> line.kind, text |-> line.text]
Records(t) == [i \in DOMAIN t.lines |-> Record(t.lines[i])]

FirmwareValue(line) ==
    line.kind \in ValueKinds /\ line.form = "plain" /\ IsBounded(line)
CompilerValue(line) ==
    /\ line.kind \in ValueKinds
    /\ \/ line.form = "plain"
       \/ line.form = "plus" /\ line.kind \in {"int", "string"}

\* Wrong: a second record of a key is taken.
FirmwareReadsTwice(t) == t.header /\ \A i \in DOMAIN t.lines : FirmwareValue(t.lines[i])
FirmwareReads(t) ==
    /\ t.header
    /\ \A i \in DOMAIN t.lines : FirmwareValue(t.lines[i])
    /\ Valid(Records(t))
CompilerReads(t) ==
    /\ t.header
    /\ \A i \in DOMAIN t.lines : CompilerValue(t.lines[i])
    /\ \A i, j \in DOMAIN t.lines : t.lines[i].key = t.lines[j].key => i = j

(* sqdc_config_set_*: a record of the key is replaced, else one is added.  *)
CanSet(config, r) ==
    /\ ValidKey(r.key) /\ IsBounded(r)
    /\ r.key \in Keys(config) \/ Len(config) < MaxRecords
\* Wrong: always added.
SetByAppending(config, r) == Append(config, r)
Set(config, r) ==
    IF r.key \in Keys(config)
    THEN [i \in DOMAIN config |-> IF config[i].key = r.key THEN r ELSE config[i]]
    ELSE Append(config, r)

-----------------------------------------------------------------------------
(* SQDC files: the magic, the count, then the records; the compiler writes its records*)
(* in the order of the keys, and both read any order.                      *)
Absent == [there |-> FALSE, magic |-> FALSE, count |-> 0, records |-> <<>>]
Empty == [Absent EXCEPT !.there = TRUE]
Encode(config) == [there |-> TRUE, magic |-> TRUE, count |-> Len(config), records |-> config]

Whole(f) == f.magic /\ f.count = Len(f.records)
FirmwareDecodes(f) == Whole(f) /\ Valid(f.records)
CompilerDecodes(f) ==
    /\ Whole(f)
    /\ \A i, j \in DOMAIN f.records : f.records[i].key = f.records[j].key => i = j

-----------------------------------------------------------------------------
(* Device bindings: [service, binding, resource], the resource of a form   *)
(* with its parts.                                                         *)
Alias(b) == b.service \o "." \o b.binding

GpioText(r) == r.form = "gpio" /\ r.pin \in PinTexts
ButtonText(r) ==
    /\ r.form = "gpio-button" /\ r.pin \in PinTexts
    /\ r.event \in KeyEvents /\ r.polarity \in {"activeLow", "activeHigh"}
PackagePath(r) == r.form = "package" /\ r.path \in SafePaths

(* What the compiler takes in a device section, one binding a name.        *)
CompilerTakes(bindings) ==
    /\ \A i \in DOMAIN bindings :
          LET r == bindings[i].resource
          IN GpioText(r) \/ ButtonText(r) \/ PackagePath(r)
    /\ \A i, j \in DOMAIN bindings : Alias(bindings[i]) = Alias(bindings[j]) => i = j

SupportsPackage(b) ==
    b.service = "display" \/ (b.service = "indicator" /\ b.binding = "default")

(* What the firmware's planner takes of one of them.                       *)
Plannable(b) ==
    /\ b.service \notin BadNames /\ b.binding \notin BadNames
    /\ Alias(b) \notin LongAliases
    /\ \/ GpioText(b.resource) /\ b.service = "indicator" /\ b.binding = "default"
       \/ ButtonText(b.resource) /\ b.service = "input"
       \/ /\ PackagePath(b.resource) /\ b.resource.path # LongPath
          /\ SupportsPackage(b)

GpioConfig(alias, pin, low) ==
    <<StringAt("service", alias), StringAt("mode", "gpio"), StringAt("pinName", pin),
      BoolAt("activeLow", low)>>
ButtonConfig(alias, r) ==
    <<StringAt("service", alias), StringAt("mode", "gpio-button"),
      StringAt("pinName", r.pin), StringAt("event", r.event),
      BoolAt("activeLow", r.polarity = "activeLow")>>

(* The configuration a planned binding leaves in the draft.                *)
Planned(b) ==
    CASE b.resource.form = "gpio" -> GpioConfig(Alias(b), b.resource.pin, FALSE)
      [] b.resource.form = "gpio-button" -> ButtonConfig(Alias(b), b.resource)
      [] b.resource.form = "package" -> <<>>
=============================================================================
