SPECIFICATION Spec
CONSTANTS
    Procs = {p1}
    Pids = {k1, k2, k3, k4}
    NoPid = NoPid
    Shim = FALSE
    Commands = {"start"}
    Mishaps = {}
SYMMETRY MCSymmetry
PROPERTIES
    ReadyMeansRunning
