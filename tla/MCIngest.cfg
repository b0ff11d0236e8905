CONSTANTS
    MaxQueue = 3
    MaxFailures = 2
    MaxRestarts = 1
    Unhandled = {3}
    Seeds <- MCSeeds
    Loop = TRUE
    MaxSent = 7
    MaxRaw = 2
    MaxFaults = 2
    MaxTrouble = 2
    Elements <- MCElements
    NoText = ""
    Categorical = {"a", "b"}
    MaxEnum = 1
    MaxSamples = 1
SPECIFICATION IngestSpec
INVARIANTS CensusTypeOK BridgeInv
    ReplaysTheSeed FieldIsItsObservations CommittedCounted SnapshotReadable
PROPERTIES LiveForwards SnapshotCatchesUp
