CONSTANTS
    Writers = {w1, w2}
    FileNames = {f1, f2}
    Bytes = {x1, x2}
    Absent = Absent
    Part = Part
    Whole = Whole
    Nobody = Nobody
    Radii = {1, 32, 33, 65}
    Shapes <- SquareAndCircle
    PartSize = 8
    Keys = {t1, t2, h1}
    Hovers = {h1}
    Payloads = {d}
    MemLimit = 2
    NoData = NoData
    Broken = Broken
    Chunks = {1, 2}
    Pics = {p1, p2}
    MaxTrouble = 2
    Missing = Missing
    Torn = Torn
    Users = {u1, u2}
    MaxStarts = 3
    Unset = Unset
    Areas = {r1, r2}
    LastTime = 2
SPECIFICATION PartsSpec
INVARIANTS
    PartsTypeOK
    BlobsAreWhole
    RegionFilesAreWhole
    TableIsOnePrefix
    TableIsComplete
    MemIsMostRecent
    OverviewIsCurrent
    OverviewHasItsBounds
    TokensStayValid
    OneSeedPerWorld
    
    CloudCatchesUp
PROPERTIES
    StorageIsWriteOnce
