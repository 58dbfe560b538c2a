-------------------------- MODULE RegistryDocument --------------------------
(***************************************************************************)
(* The registry document, router.yaml: what it records about an instance,  *)
(* when the router accepts it, and what each command that edits it does to *)
(* it.  No state: AtomicRegistry and Registry are both built on this       *)
(* module, so they cannot disagree about what an edit means.               *)
(*                                                                         *)
(* A document is a total function on Names; a name without an instance is  *)
(* mapped to Absent.  The version and base_port fields never change and    *)
(* are left out.                                                           *)
(***************************************************************************)
EXTENDS Naturals, FiniteSets

CONSTANTS
    Names,      \* instance names that pass is_valid_instance_name
    Paths,      \* workspace paths, as a user may spell them
    Resolve,    \* the physical directory a path leads to
    Unresolved, \* the paths for which canonicalize may fail
    Ports,      \* the ports allocate can hand out: base_port and above, not 3080
    Models,     \* model pins; "no pin" is one of them
    Absent,     \* "no instance of that name"
    NoFile,     \* router.yaml does not exist
    Garbage     \* router.yaml holds text that is not a registry: a hand edit
                \* that does not parse, another version, a torn write

Entries == [port : Ports, workspace : Paths, model : Models, share : BOOLEAN]

Documents == [Names -> Entries \cup {Absent}]

\* What the path of router.yaml may lead to.
Files == Documents \cup {NoFile, Garbage}

(* An edit carries a full model and share setting: cmd_edit fills in those *)
(* the user did not ask for from the entry it read.  "asked" remembers     *)
(* which ones the user did name.                                           *)
Settings == {"model", "share"}
Commands == [op : {"init", "add", "edit", "rm"}, name : Names, path : Paths,
             model : Models, share : BOOLEAN, asked : SUBSET Settings]

ASSUME DocumentAssumption ==
    /\ Ports \subseteq Nat
    /\ Resolve \in [Paths -> Paths]
    /\ \A w \in Paths : Resolve[Resolve[w]] = Resolve[w]
    /\ Unresolved \subseteq Paths
    /\ Absent \notin Entries
    /\ NoFile # Garbage
    /\ {NoFile, Garbage} \cap Documents = {}

-----------------------------------------------------------------------------

EmptyDocument == [n \in Names |-> Absent]

Registered(doc) == {n \in Names : doc[n] # Absent}

ClaimedPorts(doc) == {doc[n].port : n \in Registered(doc)}

\* Registry::find_by_workspace finds an entry: paths are compared as stored.
WorkspaceTaken(doc, w) == \E n \in Registered(doc) : doc[n].workspace = w

\* Mutant of Identities: the spelling is compared and stored.
IdentitiesAsTyped(path) == {path}

\* What add may compare and store for the path the user typed: the physical
\* directory or, when canonicalize fails, the spelling.
Identities(path) == {Resolve[path]} \cup ({path} \cap Unresolved)

\* Mutant of Consistent: the duplicated workspace is not looked for.
ConsistentPortsOnly(doc) ==
    \A m, n \in Registered(doc) : m # n => doc[m].port # doc[n].port

\* Registry::validate, beyond the name, version and port 0 checks.
Consistent(doc) ==
    \A m, n \in Registered(doc) :
        m # n => /\ doc[m].port # doc[n].port
                 /\ doc[m].workspace # doc[n].workspace

\* Registry::load succeeds, and with this document.
Loadable(file) == file = NoFile \/ (file \in Documents /\ Consistent(file))
Loaded(file)   == IF file = NoFile THEN EmptyDocument ELSE file

\* Mutant of Allocatable: the candidate is advanced once too often.
AllocatableOffByOne(doc) == {q + 1 : q \in Ports \ ClaimedPorts(doc)}

\* PortClaims and allocate: a port no entry claims.  Which of those the
\* operating system lets the router bind is up to the rest of the machine.
Allocatable(doc) == Ports \ ClaimedPorts(doc)

-----------------------------------------------------------------------------
(* The closures given to update_registry: the documents a command may turn *)
(* doc into, none if it refuses.                                           *)

AddEffects(c, doc) ==
    {[doc EXCEPT ![c.name] = [port |-> q, workspace |-> w,
                              model |-> c.model, share |-> c.share]] :
        q \in {r \in Allocatable(doc) : doc[c.name] = Absent},
        w \in {v \in Identities(c.path) : ~WorkspaceTaken(doc, v)}}

EditEffects(c, doc) ==
    {[doc EXCEPT ![c.name] = [e EXCEPT !.model = c.model, !.share = c.share]] :
        e \in {doc[c.name]} \ {Absent}}

RmEffects(c, doc) ==
    {[doc EXCEPT ![c.name] = Absent] : e \in {doc[c.name]} \ {Absent}}

\* init writes an empty registry, and only where there was no file at all.
Effects(c, file) ==
    CASE c.op = "init" -> {IF file = NoFile THEN EmptyDocument ELSE file}
      [] c.op = "add"  -> AddEffects(c, Loaded(file))
      [] c.op = "edit" -> EditEffects(c, Loaded(file))
      [] c.op = "rm"   -> RmEffects(c, Loaded(file))
=============================================================================
