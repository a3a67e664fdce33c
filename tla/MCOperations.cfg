SPECIFICATION Spec
CONSTANTS
    Tasks = {t1, t2}
    Exports = {t1}
    Remote = {t2}
    NumWorkers = 2
    MaxTaskReloads = 1
    MaxCrashes = 2
    Parts = {"p1", "p2", "p3"}
    ManifestPart = "p3"
    Holds <- MCHolds
    OwnMedia = {"m2"}
    ForeignSets <- MCForeignSets
    MaxRestarts = 1
    Media = {"a", "b"}
    Bytes <- MCBytes
    PartSize = 2
    MaxExportCrashes = 1
    Slots = {s1}
    Items = {"m1", "m2", "m3"}
    About <- MCAbout
    Domain <- MCDomain
    OurHosts = {"h1"}
    RepoAdmins = {"root"}
    Room = {"m1", "m3"}
    Calls <- MCCalls
    AllowLocalAdmins = TRUE
    SelfService = TRUE
    Watchers = {c1, c2}
    MaxChanges = 2
    Plugins = 1
INVARIANTS
    OperationsTypeOK
    OneRunPerTask
    ExportIsHonest
    ShutdownIsOrderly

    
    
    
CHECK_DEADLOCK FALSE
