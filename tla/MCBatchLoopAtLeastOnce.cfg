SPECIFICATION LoopSpec
CONSTANTS
    Msg = {m}
    Corrupt = {}
    Worker = {w1}
    BatchSize = 1
    MaxLog = 2
    MaxFaults = 0
INVARIANT AtLeastOnce
