----------------------------- MODULE Workspace ------------------------------
(***************************************************************************)
(* From what a user types to a directory: the workspace of an instance,    *)
(* and the home of the router.  A path is a sequence of names, "." and     *)
(* "..", from the root; a typed path is a record                           *)
(*                                                                         *)
(*   form : "rooted", "relative", "drive" (C:name) or "blank"              *)
(*   path : the sequence                                                   *)
(*                                                                         *)
(* The directory a relative one starts from, cwd, and the targets of links *)
(* are real paths: no link, "." or ".." is in them.                        *)
(***************************************************************************)
EXTENDS Naturals, SequencesExt

CONSTANTS
    Name,               \* the names in paths, "." and ".." among them
    Dirs, Files,        \* the real paths of what there is
    Links,      \* where each link leads: a function of real paths
    DENIED_ROOT_SEGMENTS,       \* no workspace is in one of these
    DEFAULT_HOME_DIR,           \* the home's name, in that of the user
    Nowhere, NoPath,            \* what is not there, no result
    Typable, OsHomes    \* the paths typed, and the users' homes, in a run

RealName == Name \ {".", ".."}

RealPath == Seq(RealName)

Typed ==
    [form : {"rooted"}, path : Typable]
    \cup [form : {"relative"}, path : Typable \ {<<>>}]
    \cup [form : {"drive", "blank"}, path : {<<>>}]

\* A directory is in a directory, and no link has the place of one.
ASSUME WorkspaceAssumption ==
    /\ {".", ".."} \subseteq Name
    /\ DEFAULT_HOME_DIR \in RealName
    /\ Dirs \subseteq RealPath /\ Files \subseteq RealPath
    /\ DOMAIN Links \subseteq RealPath
    /\ \A link \in DOMAIN Links : Links[link] \in RealPath
    /\ \A dir \in Dirs : dir # <<>> => Front(dir) \in Dirs
    /\ <<>> \in Dirs /\ Dirs \cap DOMAIN Links = {}
    /\ Nowhere \notin RealPath /\ NoPath \notin RealPath
    /\ NoPath \notin [host : RealPath, identity : RealPath]
    /\ Typable \subseteq Seq(Name)
    /\ OsHomes \subseteq [path : Seq(Name)] \cup {NoPath}

VARIABLES
    typed,      \* what the user typed, NoPath when it is nothing
    cwd,        \* the directory the command is run in
    resolves    \* whether canonicalize answers: it may fail for a directory
                \* that is there

WorkspaceTyped == typed \in Typed \cup {NoPath} /\ cwd \in Dirs /\ resolves \in BOOLEAN

-----------------------------------------------------------------------------
(* The operating system.                                                   *)

IsDir(real) == real \in Dirs

\* Where a real path leads, if anything is there; a link, to its target.
Follow(real) ==
    LET target == IF real \in DOMAIN Links THEN Links[real] ELSE real
    IN  IF target \in Dirs \cup Files THEN target ELSE Nowhere

Enter(here, name) ==
    IF ~IsDir(here) THEN Nowhere
    ELSE CASE name = "."  -> here
           [] name = ".." -> IF here = <<>> THEN here ELSE Front(here)
           [] OTHER       -> Follow(Append(here, name))

Opened[path \in Seq(Name)] ==
    IF path = <<>> THEN <<>> ELSE Enter(Opened[Front(path)], Last(path))

-----------------------------------------------------------------------------
(* The program.                                                            *)

Absolute(given, from) ==
    IF given.form = "rooted" THEN given.path ELSE from \o given.path

\* A component of the loop in lexical_absolute: above the root is nothing.
Component(out, name) ==
    IF out = NoPath THEN NoPath
    ELSE CASE name = "."  -> out
           [] name = ".." -> IF out = <<>> THEN NoPath ELSE Front(out)
           [] OTHER       -> Append(out, name)

\* Collapse "." and "..", without the file system.
lexical_absolute[path \in Seq(Name)] ==
    IF path = <<>> THEN <<>> ELSE Component(lexical_absolute[Front(path)], Last(path))

check_denied(path) == path # <<>> /\ path[1] \notin DENIED_ROOT_SEGMENTS

\* Mutant of canonical: the spelling stands for the directory.
canonical_spelling(host) == host

\* canonicalize, or the spelling: a failure is no reason to refuse.
canonical(host) == IF resolves THEN Opened[host] ELSE host

\* The spelling to start the instance in, and the directory it is.
validate_workspace(given, from) ==
    LET host == lexical_absolute[Absolute(given, from)]
    IN  IF /\ given.form \in {"rooted", "relative"}
           /\ host # NoPath
           /\ check_denied(host)
           /\ IsDir(Opened[host])
        THEN [host |-> host, identity |-> canonical(host)]
        ELSE NoPath

\* Mutant of Collapse: ".." is dropped as "." is.
Collapse_forward(out, name) ==
    IF name \in {".", ".."} THEN out ELSE Append(out, name)

\* A component of the loop in normalise: the root's parent is the root.
Collapse(out, name) ==
    CASE name = "."  -> out
      [] name = ".." -> IF out = <<>> THEN out ELSE Front(out)
      [] OTHER       -> Append(out, name)

normalise[path \in Seq(Name)] ==
    IF path = <<>> THEN <<>> ELSE Collapse(normalise[Front(path)], Last(path))

\* The first that is given: --home, DSH_ROUTER_HOME, the user's home.
resolve(explicit, override, os_home, from) ==
    IF explicit # NoPath THEN normalise[Absolute(explicit, from)]
    ELSE IF override.form # "blank" THEN normalise[Absolute(override, from)]
    ELSE IF os_home # NoPath THEN Append(os_home.path, DEFAULT_HOME_DIR)
    ELSE NoPath

-----------------------------------------------------------------------------
(* Properties.                                                             *)

\* Each ".." of a path leaves a directory by the way the path entered it.
Plain(path) ==
    \A i \in DOMAIN path :
        path[i] = ".." => LET before == SubSeq(path, 1, i - 1)
                          IN  IsDir(Opened[before]) /\ Opened[before] = normalise[before]

IsPhysical(given, from) ==
    LET path   == Absolute(given, from)
        result == validate_workspace(given, from)
    IN  /\ result # NoPath => /\ IsDir(Opened[result.identity])
                              /\ Opened[result.host] = Opened[result.identity]
                              /\ resolves => result.identity = Opened[result.host]
        /\ Plain(path) /\ result # NoPath => Opened[result.identity] = Opened[path]
        /\ Plain(path) /\ result = NoPath =>
               \/ given.form \in {"drive", "blank"}
               \/ ~IsDir(Opened[path])
               \/ lexical_absolute[path] = NoPath
               \/ ~check_denied(normalise[path])

(* A directory is accepted as a workspace by every spelling that leads     *)
(* the system to it, save those refused by their form, and both what the   *)
(* instance is started in and what it is recorded by lead there again.     *)
(* As long as canonicalize answers it is recorded by its real path, the    *)
(* same whichever spelling was typed; when it fails, by that spelling      *)
(* (workspace.rs, identity: the check compares what it can see).           *)
IdentityIsPhysical == typed # NoPath => IsPhysical(typed, cwd)

IsFound(explicit, override, os_home, from) ==
    LET root  == resolve(explicit, override, os_home, from)
        given == IF explicit # NoPath THEN explicit ELSE override
    IN  /\ explicit = NoPath /\ override.form = "blank" =>
               root = IF os_home = NoPath THEN NoPath
                      ELSE os_home.path \o <<DEFAULT_HOME_DIR>>
        /\ given.form = "rooted" => root = resolve(explicit, override, os_home, <<>>)
        /\ given.form # "blank" /\ Plain(Absolute(given, from)) =>
               LET there == Opened[Absolute(given, from)]
               IN  there # Nowhere \/ IsDir(Opened[root]) => Opened[root] = there

(* The home is what the system finds at the path that was given, --home    *)
(* before DSH_ROUTER_HOME, if there is anything; a blank override is none; *)
(* and only a relative path depends on where the command is run.           *)
HomeIsFound ==
    typed # NoPath =>
        \A other \in {[form |-> "blank"], [form |-> "rooted", path |-> cwd]},
           os_home \in OsHomes :
            /\ IsFound(NoPath, typed, os_home, cwd)
            /\ typed.form # "blank" => IsFound(typed, other, os_home, cwd)
=============================================================================
