CONSTANTS
    LastRegion = 2
    Total = 2
    MaxLate = 1
    Before = 0
    Between = 0
    After = 0
    Sizes = {1, 2, 3, 40, 804, 1000, 1023, 1024, 1025, 1089}
    Tries = 2
    MaxCuts = 2
    Newest = 2
    TileChunks = {k1, k2}
    TileBatch = 2
    Uploads = {u1}
    NoChunk = NoChunk
SPECIFICATION ClientPartsSpec
CHECK_DEADLOCK FALSE
INVARIANTS
    ClientPartsTypeOK
    LagIsExact
    PollsSeeOwnRegion
    DoneIsGenerated
    SavingFollowsWork
    VerdictIsExact
    ReadyIsOfThisProcess
    NoStrayServer
    LaunchRepairs
    DamageIsForEver
    UpdateCanBeUndone
    TornTilesAreExplained
PROPERTIES
    PollingEnds
    StartAndLogsEnd
