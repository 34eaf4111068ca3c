SPECIFICATION Spec
CONSTANTS
    a = a
    b = b
    long = long
    none = none
    image = image
    Names <- MCNames
    LongName = long
    NoName = none
    LongPath = longpath
    HugePath = hugepath
    Files <- MCFiles
    MaxBytes = 2
    Requests <- MCRequests
INVARIANTS
    SessionsAgree
    AcceptedByBoth
