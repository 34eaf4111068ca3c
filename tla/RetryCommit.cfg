SPECIFICATION Spec
CONSTANTS
    a = a
    b = b
    book = book
    long = long
    image = image
    none = none
    Names <- MCNames
    LongName = long
    NoName = none
    LongPath = longpath
    HugePath = hugepath
    Files <- MCFiles
    MaxBytes = 3
    Jobs <- MCRetryJobs
    Payload = 1
    AckWindow = 2
    ChunkBody = 2
    Tries = 2
    MaxApps = 1
    NoFile = NoFile
    MaxOpens = 3
    MaxFaults = 0
INVARIANT CommitRetryable
CHECK_DEADLOCK FALSE
