SPECIFICATION FairSpec
CONSTANTS
    main = main
    a = a
    fallback = fallback
    Apps = {main, a}
    Main = main
    NoApp = NoApp
    FallbackSlot = fallback
    NoSlot = NoSlot
    NoFile = NoFile
    Size = 2
    MaxTransfers = 2
INVARIANTS
    BleTypeOK
PROPERTIES
    PublishedWhole
    HandedOffKept
    UploadTaken
