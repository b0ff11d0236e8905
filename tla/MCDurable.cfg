SPECIFICATION PartsSpec
CONSTANTS
    Msg <- MCMsg
    Poison <- MCPoison
    Gufi = {"g"}
    GufiOf <- MCGufiOf
    StatusOf <- MCStatusOf
    TimeOf <- MCTimeOf
    OriginOf <- MCOriginOf
    DestOf <- MCDestOf
    HasPosition <- MCHasPosition
    Corrupt <- MCCorrupt
    Null = "none"
    BatchSize = 2
    MaxLog = 3
    MaxFaults = 1
    MaxErrors = 1
    old = old
    new = new
    Writer <- MCWriter
    Has <- MCHas
    Nobody = Nobody
    Ghost = Ghost
    MaxDeaths = 1
    Flight = {1, 2}
    None = 0
    Slot = {1, 2}
    MaxWrites = 2
    MaxClicks = 2
INVARIANTS CommittedRecorded StatusIsNewest CountersCountEpisodes RowsAccounted
    MigrateInv PanelShowsSelected TrackCoversRow
PROPERTIES EveryRecorded WritersReady LoadingEnds
