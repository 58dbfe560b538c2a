SPECIFICATION FairSpec
CONSTANTS
    t1 = t1
    t2 = t2
    k1 = k1
    k2 = k2
    Tasks = {t1, t2}
    Pids = {k1, k2}
    NoPid = NoPid
    Shim = TRUE
    ReadyTimeout = 3
    Grace = 1
    Mishaps = {}
INVARIANTS
    StartingMeansStarting
PROPERTIES
    ServingIsNoticed
    TokenIsPublished
