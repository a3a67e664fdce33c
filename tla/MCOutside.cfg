SPECIFICATION Spec
CONSTANTS
    Askers = {"a1", "a2"}
    PreviewHosts = {"h1", "h2"}
    Urls = {"page", "broken", "ftp"}
    Unparsable = {"broken"}
    Refused = {"ftp"}
    Pages <- MCPages
    FilePreviewTypes = {"image"}
    OEmbed = TRUE
    PageLimited = TRUE
    LastHour = 2
    AskedHours = {0}
    ExpireHours = 2
    NoImage = NoImage
    Inbound = {"c1", "c2"}
    Servers = {"s1", "s2"}
    Changing = {"s1"}
    Signed <- MCSigned
    OurHost = "us"
    MaxRotations = 1
    NoCaller = nobody
    Callers = {"c1", "c2"}
    BackoffAt = 2
    NoBreaker = nobody
    Names = {purgeMedia, purgeThumbs, purgeIds}
    MaxReloads = 2
    NoTask = NoTask
    CopyReads = 2
    Requests = {r1, r2}
    Sizes = {1, 2, 4}
    MaxBytes = 6
    MaxFiles = 3
    MaxPending = 2
    MediaBound = 4
INVARIANTS
    OutsideTypeOK
    LoopsFollowTheSchedule
    CopyIsComplete
PROPERTIES
    
    
    BreakersFollowTheHost
    QuotaIsExact
    
CHECK_DEADLOCK FALSE
