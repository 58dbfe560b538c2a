SPECIFICATION Spec
CONSTANTS
    p1 = p1
    p2 = p2
    flash = flash
    pro = pro
    Procs = {p1}
    Models = {flash, pro}
    Default = Default
    Gone = Gone
    Commands = {"add", "start", "edit", "rm"}
    Mishaps = {"io", "nolink", "killed", "unrecorded", "removed"}
INVARIANTS
    SharingStops
PROPERTIES
    HostKeysKept
    StartsWithFile
    KeysSurviveStarts
