CONSTANTS
    Clients = {c1, c2}
    Contents = {full, part}
    Regions <- TwoRegions
    Verification = FALSE
    MaxBatches = 1
    NoClient = NoClient
    NoRegion = NoRegion
    NoFile = NoFile
SPECIFICATION Spec
SYMMETRY Symmetry
INVARIANTS
    DoneIsBacked
