SPECIFICATION RepoSpec
CONSTANTS
    LocalIds = {a1, a2}
    RemoteIds = {}
    PinnedIds = {}
    Hashes = {h1}
    Owners = {alice, anon}
    Anonymous = anon
    Locations = {l1, t1}
    TargetLocations = {t1}
    Partial = Partial
    None = None
    Dead = Dead
    Uploaders = {u1}
    Purgers = {p1}
    Migrators = {}
    UseRedis = TRUE
    UploadMayOutliveLock = FALSE
    FreezeUnauthenticatedMedia = FALSE
    TakeTurns = FALSE
SYMMETRY MCSymmetry
INVARIANT SharedFilesAreKept
