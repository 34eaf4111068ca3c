SPECIFICATION Spec
CONSTANTS
    main = main
    Apps = {main}
    Main = main
    SafeApps = {main}
    NoApp = NoApp
    Fallback = Fallback
    FirstInstalled = {main}
    ReturnStackMax = 2
    ArmedTimerMax = 1
    HostFrames = {}
    AppCalls = {"sleep"}
    StorageFaults = FALSE
PROPERTIES
    FailedPrepStaysAwake
CHECK_DEADLOCK FALSE
