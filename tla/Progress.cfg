SPECIFICATION FairSpec
CONSTANTS
    main = main
    a = a
    x = x
    Apps = {main, a, x}
    Main = main
    SafeApps = {main, a}
    NoApp = NoApp
    Fallback = Fallback
    FirstInstalled = {main}
    ReturnStackMax = 2
    ArmedTimerMax = 1
    HostFrames = {"launch", "temp"}
    AppCalls = {"launch", "exit", "sleep"}
    StorageFaults = FALSE
PROPERTIES
    LaunchDrains
    ExitDrains
