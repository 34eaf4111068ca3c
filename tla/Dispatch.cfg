SPECIFICATION Spec
CONSTANTS
    Image <- MCImage
    Events <- MCEvents
    Payloads <- MCPayloads
    OldRecords <- MCRecords
    Answers <- MCAnswers
    MaxStack = 3
    MaxLocals = 1
    MaxDepth = 1
    MaxRecs = 1
    MaxLists = 1
    MaxItems = 2
    MaxText = 2
    MaxTexts = 2
    MinInt <- MCMinInt
    MaxInt = 1
    MaxSaved = 6
    MaxInstr = 14
INVARIANTS TypeOK StateTyped  
PROPERTIES LoadsWhatWasSaved DispatchEnds 
