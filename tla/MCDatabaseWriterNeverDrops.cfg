SPECIFICATION DbSpec
CONSTANTS
    Msg <- MCTie
    Poison <- MCPoison
    Gufi = {"g"}
    GufiOf <- MCGufiOf
    StatusOf <- MCStatusOf
    TimeOf <- MCTimeOf
    OriginOf <- MCOriginOf
    DestOf <- MCDestOf
    HasPosition <- MCHasPosition
    Corrupt <- MCCorrupt
    Null = "none"
    BatchSize = 1
    MaxLog = 1
    MaxFaults = 1
    MaxErrors = 1
PROPERTY NeverDropsGoodData
