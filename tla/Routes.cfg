SPECIFICATION Spec
CONSTANTS
    main = main
    a = a
    Apps = {main, a}
    Main = main
    SafeApps = {main, a}
    NoApp = NoApp
    Fallback = Fallback
    FirstInstalled = {a}
    ReturnStackMax = 2
    ArmedTimerMax = 1
    HostFrames = {"launch", "temp", "reset"}
    AppCalls = {"launch", "sleep", "exit"}
    StorageFaults = TRUE
INVARIANTS
    TypeOK
    TempRoutesStaged
    SleepNeedsInstalled
PROPERTIES
    ExitBeforeTakeover
