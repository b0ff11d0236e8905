SPECIFICATION FilterSpec
CONSTANTS
    Msg <- MCLate
    Corrupt <- MCCorrupt
    Worker = {w1}
    BatchSize = 1
    MaxLog = 1
    MaxFaults = 0
    Poison <- MCPoison
    CallSign <- MCCallSign
    Registration <- MCRegistration
    normalize <- MCnormalize
    Blank = ""
    Lists <- MCFirst
    NoList = NoList
    MaxAge = 1
    MaxNow = 3
    IsDev = FALSE
PROPERTY FailClosed
