SPECIFICATION FairSpec
CONSTANTS
    Procs = {p1}
    Pids = {k1, k2, k3, k4, k5, k6}
    NoPid = NoPid
    Shim = TRUE
    Commands = {"add", "start", "restart", "stop", "rm"}
    Mishaps = {}
INVARIANTS
    ServingIsOwned
    OneHarness
PROPERTIES
    StopMeansStopped
    RemovedMeansStopped
    AnnouncedUrlServes
    CommandsEnd
