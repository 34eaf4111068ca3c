SPECIFICATION Spec
CONSTANTS
    main = main
    a = a
    b = b
    Apps = {main, a, b}
    Main = main
    SafeApps = {main, a, b}
    NoApp = NoApp
    Fallback = Fallback
    FirstInstalled = {main}
    ReturnStackMax = 2
    ArmedTimerMax = 1
    HostFrames = {"key", "event", "upload", "power"}
    AppCalls = {"launch", "sleep", "exit"}
    StorageFaults = FALSE
PROPERTIES
    RoutingSpec
