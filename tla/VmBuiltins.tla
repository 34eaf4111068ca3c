------------------------------ MODULE VmBuiltins ------------------------------
(***************************************************************************)
(* The host functions an instruction can call (vm.rs, call_builtin): for   *)
(* each one the operands it takes from the stack, the first popped first,  *)
(* whether all of them must be strings once they are popped, whether the   *)
(* host may refuse, and the value it gives back.                           *)
(***************************************************************************)
EXTENDS Sequences

(* What comes back: nothing, one plain value, a record of some shape, or a  *)
(* list.  `entry' is the shape of the records a list holds.                 *)
Shape(bools, ints, texts, optTexts, handles) ==
    [bools |-> bools, ints |-> ints, texts |-> texts, optTexts |-> optTexts, handles |-> handles]
NoShape == Shape({}, {}, {}, {}, {})

Gives(what, shape, entry) == [what |-> what, shape |-> shape, entry |-> entry]
Nothing == Gives("nothing", NoShape, NoShape)
Plain(what) == Gives(what, NoShape, NoShape)
Record(shape) == Gives("record", shape, NoShape)
Page(shape, entry) == Gives("page", shape, entry)   \* a record with a list `items'
Lines(shape) == Gives("lines", shape, NoShape)      \* a record with a list `lines'

Sig(pops, gives) == [pops |-> pops, strings |-> FALSE, refuses |-> TRUE, gives |-> gives]
Silent(pops) == [pops |-> pops, strings |-> FALSE, refuses |-> FALSE, gives |-> Nothing]
OfStrings(pops, gives) == [pops |-> pops, strings |-> TRUE, refuses |-> TRUE, gives |-> gives]

Box == <<"int", "int", "int", "int">>   \* h, w, y, x
-----------------------------------------------------------------------------
(* The records. *)
WifiOperation == Shape({"active", "done", "cancelled", "ok"}, {}, {"state"}, {"kind", "error"}, {})
WifiOperationResult ==
    Shape({"ready", "ok", "cancelled"}, {"count"}, {"state"}, {"kind", "error"}, {})
WifiStatus ==
    Shape({"active", "driverStarted", "configured", "connected"},
          {"clients", "channel", "apStartEvents", "apStopEvents", "probeEvents",
           "staConnectedEvents", "staDisconnectedEvents", "scanMatches", "rssi",
           "disconnectReasonCode"},
          {"state", "backend"},
          {"mode", "ipAddress", "ssid", "error", "driverMode", "lastBackendCode", "profile",
           "auth", "bssid", "disconnectReason"}, {})
WifiApIp == Shape({}, {}, {}, {"ip", "gw", "netmask", "error"}, {})
WifiScanNetwork ==
    Shape({"ok", "hidden"}, {"ssidLength", "channel", "rssi"}, {"ssid"}, {"error", "auth"}, {})
DeviceConfigResult == Shape({"ok"}, {}, {}, {"error", "warning"}, {})
FilePick == Shape({"ok"}, {}, {}, {"error", "path"}, {})
FileText == Shape({"ok"}, {}, {}, {"error", "text"}, {})
FileLines == Shape({"ok"}, {}, {}, {"error"}, {})
FileCopy == Shape({"ok"}, {"bytesWritten"}, {}, {"error", "ref"}, {})
BookOpen == Shape({"ok"}, {}, {}, {"error"}, {"book"})
BookInfo == Shape({"ok"}, {"pageCount", "chapterCount"}, {}, {"error", "title"}, {})
BookPage == Shape({"ok"}, {}, {}, {"error"}, {"drawable"})
BookChapterEntry == Shape({}, {"index", "pageIndex", "level", "type"}, {"title"}, {}, {})
BookChapterList == Shape({"ok", "hasMore"}, {"count"}, {}, {"error"}, {})
BookChapter == Shape({"ok"}, {"index", "pageIndex", "level", "type"}, {}, {"error", "title"}, {})
ContentEntry == Shape({}, {"size"}, {"name", "ref"}, {}, {})
ContentList == Shape({"ok", "hasMore"}, {"count"}, {}, {"error", "warning"}, {})
DisplayInfo ==
    Shape({"ok", "available", "supportsPartialRefresh", "supportsFastRefresh"},
          {"width", "height", "physicalWidth", "physicalHeight", "rotation",
           "logicalGrayLevels", "nativeBpp", "defaultFontHeight"},
          {"status", "binding", "driver", "transport", "colorModel", "nativePixelFormat"},
          {"error", "warning"}, {})
AppRegistryEntry == Shape({}, {}, {"id", "name", "build", "description"}, {}, {})
AppInstalled == Shape({}, {}, {"id"}, {}, {})
AppArmedEntry == Shape({}, {}, {"appId", "event"}, {}, {})
-----------------------------------------------------------------------------
(* The functions, one table per group of the match in call_builtin. *)
DisplayBuiltins ==
    [display_clear |-> Silent(<<"color">>),
     display_text |-> Silent(<<"optLiteral", "optLiteral", "optColor", "optColor", "int">>
                             \o Box \o <<"any">>),
     display_rect |-> Silent(<<"optColor", "optColor">> \o Box),
     display_line |-> Silent(<<"optColor">> \o Box),
     display_select |-> Sig(<<"literal">>, Nothing),
     display_refresh_mode |-> Silent(<<"literal">>),
     display_image |-> Silent(Box \o <<"literal">>),
     display_draw |-> Silent(Box \o <<"any">>),
     display_info |-> Sig(<<>>, Record(DisplayInfo))]

HardwareBuiltins ==
    [gpio_write |-> Sig(<<"literal", "bool">>, Nothing),
     gpio_toggle |-> Sig(<<"literal">>, Nothing),
     gpio_read |-> Sig(<<"literal">>, Plain("bool")),
     indicator_write |-> Sig(<<"bool">>, Nothing),
     indicator_toggle |-> Sig(<<>>, Nothing),
     indicator_breathe |-> Sig(<<>>, Nothing),
     indicator_blink |-> Sig(<<"int", "int">>, Nothing),
     indicator_read |-> Sig(<<>>, Plain("bool"))]

AppBuiltins ==
    [app_launch |-> OfStrings(<<"any">>, Nothing),
     app_arm |-> OfStrings(<<"any">>, Nothing),
     app_disarm |-> OfStrings(<<"any">>, Nothing),
     app_install |-> OfStrings(<<"any", "any">>, Record(AppInstalled)),
     app_install_metadata |-> OfStrings(<<"any">>, Record(AppInstalled)),
     app_registry_list |-> Sig(<<>>, Plain("texts")),
     app_registry_get |-> Sig(<<"int", "list">>, Gives("entry", AppRegistryEntry, NoShape)),
     app_process_stack |-> Sig(<<>>, Plain("texts")),
     app_armed_stack |-> Sig(<<>>, Gives("records", NoShape, AppArmedEntry)),
     app_armed_stack_get |-> [Sig(<<"int", "list">>, Plain("item")) EXCEPT !.refuses = FALSE]]

ServiceBuiltins ==
    [timer_every |-> Sig(<<"int", "literal">>, Nothing),
     timer_after |-> Sig(<<"int", "literal">>, Nothing),
     ble_start |-> Sig(<<"literal">>, Nothing),
     ble_stop |-> Sig(<<>>, Nothing),
     http_start |-> Sig(<<"literal">>, Nothing),
     http_stop |-> Sig(<<>>, Nothing),
     power_sleep |-> Sig(<<"int">>, Nothing)]

WifiBuiltins ==
    [wifi_start_ap |-> Sig(<<"literal">>, Record(WifiOperation)),
     wifi_stop_ap |-> Sig(<<>>, Record(WifiOperation)),
     wifi_connect |-> Sig(<<"literal">>, Record(WifiOperation)),
     wifi_disconnect |-> Sig(<<>>, Record(WifiOperation)),
     wifi_status |-> Sig(<<>>, Record(WifiStatus)),
     wifi_get_ap_ip |-> Sig(<<>>, Record(WifiApIp)),
     wifi_scan |-> Sig(<<>>, Record(WifiOperation)),
     wifi_operation |-> Sig(<<>>, Record(WifiOperation)),
     wifi_result |-> Sig(<<>>, Record(WifiOperationResult)),
     wifi_cancel |-> Sig(<<>>, Record(WifiOperation)),
     wifi_scan_network |-> Sig(<<"int">>, Record(WifiScanNetwork))]

DeviceConfigBuiltins ==
    [device_config_load |-> Sig(<<"literal">>, Record(DeviceConfigResult)),
     device_config_set |-> Sig(<<"any", "literal">>, Record(DeviceConfigResult)),
     device_config_rebind |-> Sig(<<"literal">>, Record(DeviceConfigResult)),
     device_config_save |-> Sig(<<"literal">>, Record(DeviceConfigResult))]

ContentBuiltins ==
    [binbook_open |-> OfStrings(<<"any">>, Record(BookOpen)),
     binbook_info |-> Sig(<<"handle">>, Record(BookInfo)),
     binbook_read_page |-> Sig(<<"int", "handle">>, Record(BookPage)),
     binbook_chapters |-> Sig(<<"int", "int", "handle">>, Page(BookChapterList, BookChapterEntry)),
     binbook_chapter |-> Sig(<<"int", "handle">>, Record(BookChapter)),
     content_binbook_list |-> Sig(<<"int", "int", "literal">>, Page(ContentList, ContentEntry)),
     file_pick_file |-> Sig(<<"literal">>, Record(FilePick)),
     file_read_text |-> Sig(<<"literal">>, Record(FileText)),
     file_read_lines |-> Sig(<<"int", "literal">>, Lines(FileLines)),
     file_copy |-> OfStrings(<<"any", "any", "any">>, Record(FileCopy)),
     system_memory |-> Sig(<<>>, Plain("text")),
     system_storage |-> Sig(<<"literal">>, Plain("text")),
     system_start_reason |-> Sig(<<>>, Plain("text"))]
-----------------------------------------------------------------------------
BuiltinTables == {DisplayBuiltins, HardwareBuiltins, AppBuiltins, ServiceBuiltins, WifiBuiltins,
                  DeviceConfigBuiltins, ContentBuiltins}
BuiltinNames == UNION {DOMAIN table : table \in BuiltinTables}
Signature(name) == (CHOOSE table \in BuiltinTables : name \in DOMAIN table)[name]

\* How many operands a call takes; debug.print is told how many by its call.
Arity(name) == Len(Signature(name).pops)
ResultCount(name) == IF Signature(name).gives.what = "nothing" THEN 0 ELSE 1
=============================================================================
