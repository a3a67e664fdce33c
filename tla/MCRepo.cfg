SPECIFICATION RepoSpec
CONSTANTS
    LocalIds = {a1, a2}
    RemoteIds = {}
    PinnedIds = {}
    Hashes = {h1}
    Owners = {alice, anon}
    Anonymous = anon
    Locations = {l1, t1, t2}
    TargetLocations = {t1, t2}
    Partial = Partial
    None = None
    Dead = Dead
    Uploaders = {u1}
    Purgers = {p1}
    Migrators = {g1, g2}
    UseRedis = TRUE
    UploadMayOutliveLock = FALSE
    FreezeUnauthenticatedMedia = FALSE
    TakeTurns = TRUE
SYMMETRY MCSymmetry
INVARIANTS
    RepoTypeOK
    FilesAreKept
PROPERTIES
    RepoKeepsItsPromise
