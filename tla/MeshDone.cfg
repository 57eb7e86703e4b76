CONSTANTS
    Clients = {c1, c2}
    Contents = {full}
    Full = {full}
    Regions <- TwoRegions
    Verification = TRUE
    MaxBatches = 6
    MaxFaults = 0
    NoClient = NoClient
    NoRegion = NoRegion
    NoFile = NoFile
SPECIFICATION FairMesh
PROPERTIES
    AllRegionsDone
CHECK_DEADLOCK FALSE
