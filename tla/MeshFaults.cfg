CONSTANTS
    Clients = {c1, c2}
    Contents = {full, part}
    Full = {full}
    Regions <- OneRegion
    Verification = FALSE
    MaxBatches = 3
    MaxFaults = 2
    NoClient = NoClient
    NoRegion = NoRegion
    NoFile = NoFile
SPECIFICATION MeshSpec
INVARIANTS
    MeshTypeOK
    ClientMeetsContract
    OverAssignmentBound
CHECK_DEADLOCK FALSE
