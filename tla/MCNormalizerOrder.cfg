SPECIFICATION NormSpec
CONSTANTS
    Msg <- MCTraffic
    Corrupt <- MCCorrupt
    Worker = {w1, w2}
    BatchSize = 2
    MaxLog = 2
    MaxFaults = 0
    Gufi = {"f1", "f2"}
    Flights <- MCFlights
    Poison <- MCPoison
INVARIANT PerFlightOrder
