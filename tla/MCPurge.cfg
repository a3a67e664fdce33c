SPECIFICATION PurgeSpec
CONSTANTS
    LocalIds = {a1}
    RemoteIds = {r1}
    PinnedIds = {}
    Hashes = {h1}
    Owners = {alice}
    Locations = {l1, l2}
    Partial = Partial
    None = None
    Purgers = {p1, p2}
SYMMETRY MCSymmetry
CONSTRAINT FewThumbs
INVARIANTS
    PurgeTypeOK
    OnlyDoomedMediaLosesItsFile
    FinishedPurgeIsThorough
PROPERTIES
    PurgedIdsStayTaken
CHECK_DEADLOCK FALSE
