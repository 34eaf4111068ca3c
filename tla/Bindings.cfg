CONSTANTS
    Apps <- MCApps
    NoApp = NoApp
    Section <- MCSection
    Package <- MCPackage
    Calls <- MCCalls
    Defaults = {"GPIO8", "none"}
    NoPin = "none"
    PinNumber <- MCPinNumber
    CapablePins = {2, 3, 8}
    FragilePins = {3}
    MaxBindings = 3
    MaxButtons = 2
    MaxSection = 8
    MaxRecords = 5
    BadKeys <- MCBadKeys
    LongText = "a string of 49 bytes"
    BadNames <- MCBadNames
    LongAliases = {}
    LongPath = "long.sqdevice"
    SafePaths <- MCSafePaths
    PinTexts <- MCPinTexts
    KeyEvents = {"key.UP", "key.DOWN", "key.BACK"}
SPECIFICATION Spec
INVARIANTS BindingsTypeOK   
