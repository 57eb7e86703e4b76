CONSTANTS
    Clients = {c1, c2}
    Contents = {full}
    Full = {full}
    Regions <- OneRegion
    Verification = FALSE
    MaxBatches = 1
    MaxFaults = 3
    NoClient = NoClient
    NoRegion = NoRegion
    NoFile = NoFile
SPECIFICATION FairMesh
PROPERTIES
    DeadOwnersReleased
CHECK_DEADLOCK FALSE
