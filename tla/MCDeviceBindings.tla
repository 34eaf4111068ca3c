-------------------------- MODULE MCDeviceBindings --------------------------
(***************************************************************************)
(* Apps, package files and calls for DeviceBindings.                       *)
(***************************************************************************)
EXTENDS DeviceBindings

MCBadKeys == {"", "a key"}
MCBadNames == {"a.b"}
MCSafePaths == {"lamp.sqdevice", "panel.sqdevice", "up.sqdevice", "plus.sqdevice",
                "twice.sqdevice", "wordy.sqdevice", "long.sqdevice"}
MCPinNumber == [GPIO2 |-> 2, GPIO02 |-> 2, GPIO3 |-> 3, GPIO8 |-> 8, GPIO11 |-> 11]
MCPinTexts == DOMAIN MCPinNumber \cup {"GPIO77"}

Plain(key, kind, text) == [key |-> key, kind |-> kind, text |-> text, form |-> "plain"]
Text(lines) == [header |-> TRUE, lines |-> lines]
Str(key, text) == Plain(key, "string", text)

MCPackage ==
    "lamp.sqdevice" :> Text(<<Str("service", Indicator), Str("mode", "gpio"),
                              Str("pinName", "GPIO3"), Plain("activeLow", "bool", "true")>>)
    @@ "panel.sqdevice" :> Text(<<Str("service", "display.default"), Plain("width", "int", "78")>>)
    @@ "up.sqdevice" :> Text(<<Str("service", "input.up"), Str("mode", "gpio-button"),
                               Str("pinName", "GPIO3"), Str("event", "key.UP"),
                               Plain("activeLow", "bool", "true")>>)
    @@ "plus.sqdevice" :> Text(<<Str("service", Indicator),
                                 [key |-> "width", kind |-> "int", text |-> "5", form |-> "plus"]>>)
    @@ "twice.sqdevice" :> Text(<<Str("service", Indicator), Str("service", "input.up")>>)
    @@ "wordy.sqdevice" :> Text(<<Str("service", LongText)>>)

Gpio(pin) == [form |-> "gpio", pin |-> pin, event |-> "", polarity |-> "", path |-> ""]
Button(pin, event, polarity) ==
    [form |-> "gpio-button", pin |-> pin, event |-> event, polarity |-> polarity, path |-> ""]
File(path) == [form |-> "package", pin |-> "", event |-> "", polarity |-> "", path |-> path]
Binding(service, name, resource) ==
    [service |-> service, binding |-> name, resource |-> resource]

MCSection ==
    [plain |-> <<>>,
     lamp |-> <<Binding("indicator", "default", Gpio("GPIO2"))>>,
     keys |-> <<Binding("input", "up", Button("GPIO2", "key.UP", "activeLow")),
                Binding("input", "down", Button("GPIO02", "key.DOWN", "activeHigh"))>>,
     panel |-> <<Binding("display", "default", File("panel.sqdevice")),
                 Binding("indicator", "default", File("lamp.sqdevice"))>>,
     many |-> <<Binding("input", "up", Button("GPIO2", "key.UP", "activeLow")),
                Binding("input", "down", Button("GPIO3", "key.DOWN", "activeLow")),
                Binding("input", "back", Button("GPIO8", "key.BACK", "activeLow"))>>,
     odd |-> <<Binding("input", "a.b", Button("GPIO2", "key.UP", "activeLow"))>>,
     wide |-> <<Binding("indicator", "default", Gpio("GPIO77"))>>,
     missing |-> <<Binding("display", "default", File("long.sqdevice"))>>]
MCApps == DOMAIN MCSection

ASSUME SectionsCompile == \A a \in Apps : CompilerTakes(Section[a])

MCCalls ==
    {[op |-> "load", source |-> p] : p \in DOMAIN MCPackage \ {"panel.sqdevice"}}
    \cup {[op |-> "set", record |-> r] :
            r \in {StringAt("pinName", "GPIO11"), BoolAt("w", TRUE)}}
    \cup {[op |-> "rebind", alias |-> al] : al \in {Indicator, "input.up"}}
=============================================================================
