SPECIFICATION FilterSpec
CONSTANTS
    Msg <- MCMsg
    Corrupt <- MCCorrupt
    Worker = {w1, w2}
    BatchSize = 2
    MaxLog = 2
    MaxFaults = 1
    Poison <- MCPoison
    CallSign <- MCCallSign
    Registration <- MCRegistration
    normalize <- MCnormalize
    Blank = ""
    Lists <- MCLists
    NoList = NoList
    MaxAge = 1
    MaxNow = 3
    IsDev = FALSE
INVARIANT ForwardedWasUnlisted
INVARIANT CommittedAccounted
PROPERTY SettledWhileUsable
