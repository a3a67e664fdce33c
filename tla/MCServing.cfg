SPECIFICATION Spec
CONSTANTS
    Requests = {r1, r2}
    Anonymous = {r1}
    HostOf <- MCHostOf
    Options <- MCOptions
    Nobody = nobody
    MaxSize = 2
    FileSize = 1
    ReplaceDownloads = TRUE
    Writers = {w1, w2}
    NoWriter = nobody
    Chunks = 2
    Viewers = {v1, v2}
    NoViewer = nobody
    RateLimited = TRUE
    ReplaceThumbnails = TRUE
    SideLengths = {0, 1, 2, 3, 5, 7}
    SizeLists <- MCSizeLists
    MaxPixels = 25
    ThumbCount = 3
    LocOf <- MCLocOf
    PurgeBatchSize = 1
INVARIANTS
    ServingTypeOK
    ContentIsPaidFor
    
PROPERTIES
    WithdrawalTakesEffect
    
    
    ExpiryIsOrderly
CHECK_DEADLOCK FALSE
