SPECIFICATION UploadSpec
CONSTANTS
    LocalIds = {a1, a2}
    RemoteIds = {r1}
    PinnedIds = {}
    Hashes = {h1}
    Owners = {alice, anon}
    Anonymous = anon
    Locations = {l1, l2}
    Partial = Partial
    None = None
    Dead = Dead
    Uploaders = {u1, u2}
    UseRedis = TRUE
    UploadMayOutliveLock = FALSE
    FreezeUnauthenticatedMedia = TRUE
SYMMETRY MCSymmetry
INVARIANT SuccessfulPutIsStored
