----------------------------- MODULE MCRegistry -----------------------------
(* Instances of Registry for TLC.                                          *)
EXTENDS Registry, TLC

CONSTANTS p1, p2, alpha, beta, here, there, link, mount, none, pinned

MCPaths == {here, there, link, mount}

\* link is a symbolic link to here, and mount a name of it that canonicalize
\* may not be able to resolve.
MCResolve == [w \in MCPaths |-> IF w \in {link, mount} THEN here ELSE w]
MCUnresolved == {mount}

Record(q, w) == [port |-> q, workspace |-> w, model |-> none, share |-> FALSE]

OneInstance == [EmptyDocument EXCEPT ![alpha] = Record(3081, here)]

\* A hand edit has given both instances one port, or one workspace.
SamePort == [EmptyDocument EXCEPT ![alpha] = Record(3081, here),
                                  ![beta]  = Record(3081, there)]
SameWorkspace == [EmptyDocument EXCEPT ![alpha] = Record(3081, here),
                                       ![beta]  = Record(3082, here)]

Command(op, n, w, m, s, asked) ==
    [op |-> op, name |-> n, path |-> w, model |-> m, share |-> s, asked |-> asked]

AddAlpha     == Command("add", alpha, mount, none, FALSE, {})
AddBetaLink  == Command("add", beta, link, none, FALSE, {})
PinAlpha     == Command("edit", alpha, here, pinned, FALSE, {"model"})
RmAlpha      == Command("rm", alpha, here, none, FALSE, {})
InitHome     == Command("init", alpha, here, none, FALSE, {})

Edits       == {AddAlpha, AddBetaLink, PinAlpha, RmAlpha}
InitAndAdd  == {InitHome, AddAlpha}
InitAndEdits == {InitHome, AddAlpha, AddBetaLink, RmAlpha}

AnyFile     == {NoFile, Garbage, OneInstance, SamePort, SameWorkspace}
Unreadable  == {NoFile, Garbage, SameWorkspace}
NoFileYet   == {NoFile}
=============================================================================
