CONSTANTS
    Clients = {c1, c2}
    Contents = {full, part}
    Regions <- OneRegion
    Verification = TRUE
    MaxBatches = 2
    NoClient = NoClient
    NoRegion = NoRegion
    NoFile = NoFile
SPECIFICATION Spec
SYMMETRY Symmetry
INVARIANTS
    TypeOK
    DoneIsBacked
    OneAwaitsDouble
    ValidatedHasDouble
    InProgressIsOwned
PROPERTIES
    StatusFollowsLifecycle
    FilesAreWriteOnce
