SPECIFICATION DurableSpec
CONSTANTS
    p1 = p1
    p2 = p2
    alpha = alpha
    beta = beta
    here = here
    there = there
    link = link
    mount = mount
    none = none
    pinned = pinned
    Procs = {p1, p2}
    Names = {alpha, beta}
    Paths <- MCPaths
    Resolve <- MCResolve
    Unresolved = {}
    Ports = {3081, 3082}
    Models = {none, pinned}
    Absent = Absent
    NoFile = NoFile
    Garbage = Garbage
    NoCommand = NoCommand
    Free = Free
    Stale = Stale
    Requests <- InitAndEdits
    InitialFiles <- Unreadable
    CarefulUser = FALSE
PROPERTIES
    WholeAfterPowerFailure
    WholeDocuments
    UnreadableLeftAlone
