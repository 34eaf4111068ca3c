SPECIFICATION Spec
CONSTANTS
    main = main
    a = a
    x = x
    Apps = {main, a, x}
    Main = main
    SafeApps = {main, a}
    NoApp = NoApp
    Fallback = Fallback
    FirstInstalled = {main}
    ReturnStackMax = 2
    ArmedTimerMax = 1
    HostFrames = {"launch", "upload", "input"}
    AppCalls = {"launch", "install", "arm", "timer", "exit"}
    StorageFaults = TRUE
INVARIANTS
    SessionIsForeground
PROPERTIES
    InstallFirst
