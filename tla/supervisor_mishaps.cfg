SPECIFICATION FairSpec
CONSTANTS
    t1 = t1
    t2 = t2
    k1 = k1
    k2 = k2
    Tasks = {t1}
    Pids = {k1, k2}
    NoPid = NoPid
    Shim = FALSE
    ReadyTimeout = 4
    Grace = 2
    Mishaps = {"spawn", "chatty", "closed"}
INVARIANTS
    TypeOK
    AnnouncedHasServed
PROPERTIES
    CallsReturn
