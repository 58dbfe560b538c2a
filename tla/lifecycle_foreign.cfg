SPECIFICATION Spec
CONSTANTS
    Procs = {p1, p2}
    Pids = {k1, k2, k3, k4}
    NoPid = NoPid
    Shim = TRUE
    Commands = {"add", "start", "restart", "stop", "rm"}
    Mishaps = {"again", "lookup", "timeout", "silent", "io", "crash", "detached"}
SYMMETRY MCSymmetry
INVARIANTS
    TypeOK
    ForeignNotAdopted
PROPERTIES
    ForeignUntouched
