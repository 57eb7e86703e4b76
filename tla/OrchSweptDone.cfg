CONSTANTS
    Clients = {c1}
    Contents = {full}
    Regions <- OneRegion
    Verification = FALSE
    MaxBatches = 1
    NoClient = NoClient
    NoRegion = NoRegion
    NoFile = NoFile
SPECIFICATION Spec
SYMMETRY Symmetry
PROPERTIES
    SweepTakesUnfinished
