SPECIFICATION MCSpec
CONSTANTS
    Top = 6
    Reserved = 1
    DEFAULT_BASE_PORT = 2
    MAX_PROBES = 3
    NoPort = NoPort
    Bases = {0, 1, 2, 4, 6}
    Claims <- MCClaims
    MaxChanges = 1
    Tables <- MCTables
    Name <- MCName
    Dirs <- MCDirs
    Files <- MCFiles
    Links <- MCLinks
    DENIED_ROOT_SEGMENTS = {"etc"}
    DEFAULT_HOME_DIR = "home"
    Nowhere = Nowhere
    NoPath = NoPath
    Typable <- MCTypable
    OsHomes <- MCOsHomes
CHECK_DEADLOCK FALSE
INVARIANTS
    AllocationIsRight
    TableIsFitted
    IdentityIsPhysical
    HomeIsFound
