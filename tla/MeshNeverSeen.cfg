CONSTANTS
    Clients = {c1}
    Contents = {full}
    Full = {full}
    Regions <- OneRegion
    Verification = FALSE
    MaxBatches = 1
    MaxFaults = 1
    NoClient = NoClient
    NoRegion = NoRegion
    NoFile = NoFile
SPECIFICATION FairMesh
PROPERTIES
    DeadClientsReleased
CHECK_DEADLOCK FALSE
