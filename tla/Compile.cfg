SPECIFICATION Spec
CONSTANTS
    Sources <- MCSources
    Limits <- MCLimits
    MaxI32 = 100
    MinI32 <- MCMinI32
    MaxFiles = 3
    MaxItems = 2
    MaxStack = 16
    MaxLocals = 8
    MaxDepth = 4
    MaxRecs = 8
    MaxLists = 2
    MaxText = 8
    MaxTexts = 8
INVARIANTS  StackBalanced   ReadersAgree CutIsNoticed
 
CHECK_DEADLOCK FALSE
