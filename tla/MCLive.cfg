SPECIFICATION PartsSpec
CONSTANTS
    Msg <- MCMsg
    Poison <- MCPoison
    Gufi = {"g1", "g2"}
    GufiOf <- MCGufiOf
    Active <- MCActive
    HasPosition <- MCHasPosition
    HasHeading <- MCHasHeading
    MaxLog = 3
    MaxFaults = 1
    Flight = {1, 2}
    s1 = s1
    s2 = s2
    Slot <- MCSlot
    MaxWrites = 2
    MaxErrors = 1
    MaxTwice = 1
    None = None
    Position <- MCPosition
    MaxPositions = 3
    Upload <- MCUpload
    Date <- MCDate
    Entries <- MCEntries
    Decodable = {1, 2, 3, 4}
    Signed = {1, 2, 3}
    Readable = {1, 2, 3, 4}
    MaxAge = 1
    MaxDay = 4
    MaxApiErrors = 2
    MaxStarts = 2
INVARIANTS KeyFollowsReader HeadingIsLastGiven AnswerComplete BestIsLatest HeadingIsDirection DeliveryInv
PROPERTIES BackOnlyByOverlap MapCatchesUp StoredTakesEffect
