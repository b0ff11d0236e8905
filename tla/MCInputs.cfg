SPECIFICATION PartsSpec
CONSTANTS
    Msg <- MCMsg
    Corrupt <- MCCorrupt
    Worker = {w1, w2}
    BatchSize = 2
    MaxLog = 2
    MaxFaults = 1
    Gufi = {"f1", "f2"}
    Flights <- MCFlights
    Poison <- MCPoison
    Dates = {1, 2, 3}
    MaxDrops = 3
    MaxCrashes = 1
INVARIANTS NormTypeOK CommittedComplete NoSilentLoss DeliveredKept
PROPERTIES ImplementsContract EverySettled OvertakenInBatchOrFailed
    NewestNeverBack StagedTakesEffect
