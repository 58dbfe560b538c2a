------------------------------ MODULE Registry ------------------------------
(***************************************************************************)
(* The registry as the commands really change it: several processes, one   *)
(* file, a lock file beside it, and a temporary file per write.            *)
(*                                                                         *)
(* A command that edits goes idle -> acquire -> load -> create -> write -> *)
(* publish -> release -> idle; one that fails leaves that path through     *)
(* release if it holds the lock, else through finish.  cmd_init saves      *)
(* without taking the lock: idle -> create -> write -> publish -> finish.  *)
(* A command that is refused before it touches anything shared is a        *)
(* stuttering step.  What cmd_edit and cmd_rm do to credential files and   *)
(* harness processes before they take the lock is not registry state; here *)
(* it is only the reason such a command may give up (GiveUp).              *)
(***************************************************************************)
EXTENDS AtomicRegistry

CONSTANTS
    Requests,       \* the commands users may type
    Free,           \* there is no lock file
    Stale,          \* the lock file is one a process that is gone has left
    CarefulUser     \* whether a user deletes the lock file only when stale

ASSUME RegistryAssumption ==
    /\ Requests \subseteq Commands
    /\ InitialFiles \subseteq Files
    /\ NoCommand \notin Commands
    /\ Free # Stale
    /\ {Free, Stale} \cap Procs = {}
    /\ CarefulUser \in BOOLEAN

VARIABLES
    pc,         \* where each process is in its command
    lock,       \* the lock file: Free, Stale, or the process that created it
    draft,      \* the document each process has edited and will save
    temp        \* the temporary files of the saves in progress

vars == <<file, cmd, outcome, pc, lock, draft, temp>>

Phases == {"idle", "acquire", "load", "create", "write", "publish",
           "release", "finish"}

TypeOK ==
    /\ AtomicTypeOK
    /\ pc \in [Procs -> Phases]
    /\ lock \in Procs \cup {Free, Stale}
    /\ draft \in [Procs -> Documents]
    /\ temp \in [Procs -> Files]

Init ==
    /\ AtomicInit
    /\ pc = [p \in Procs |-> "idle"]
    /\ lock = Free
    /\ draft = [p \in Procs |-> EmptyDocument]
    /\ temp = [p \in Procs |-> NoFile]

-----------------------------------------------------------------------------
\* Mutant of TempPath: every save writes the same router.yaml.tmp.
TempPathShared(p) == CHOOSE q \in Procs : TRUE

\* The sibling file a process writes: its pid and a counter name it.
TempPath(p) == p

Goto(p, phase) == pc' = [pc EXCEPT ![p] = phase]

Decide(p, result) == outcome' = [outcome EXCEPT ![p] = result]

\* The way out of a command: through the lock's Drop if it was taken.
Leave(p) == IF cmd[p].op = "init" THEN "finish" ELSE "release"

\* The process exits: whatever it had in memory is gone.
Exit(p) ==
    /\ Goto(p, "idle")
    /\ cmd' = [cmd EXCEPT ![p] = NoCommand]
    /\ outcome' = [outcome EXCEPT ![p] = "none"]
    /\ draft' = [draft EXCEPT ![p] = EmptyDocument]

-----------------------------------------------------------------------------
(* Starting a command.                                                     *)

Begin(p, c, phase) ==
    /\ cmd[p] = NoCommand
    /\ cmd' = [cmd EXCEPT ![p] = c]
    /\ Goto(p, phase)
    /\ UNCHANGED <<file, outcome, lock, draft, temp>>

\* Mutant of BeginNew: init does not look whether there is a registry.
BeginNewAnyway(p) ==
    \E c \in Requests :
        /\ c.op \in {"init", "add"}
        /\ Begin(p, c, IF c.op = "init" THEN "create" ELSE "acquire")

\* cmd_add looks at nothing before it takes the lock.  cmd_init looks for the
\* file, and where there is none it goes on to save an empty one, unlocked.
BeginNew(p) ==
    \E c \in Requests :
        /\ c.op \in {"init", "add"}
        /\ c.op = "init" => file = NoFile
        /\ Begin(p, c, IF c.op = "init" THEN "create" ELSE "acquire")

\* The settings cmd_edit will write: those the user asked for, and for the
\* others what the entry it has read says.
Completed(c, entry) ==
    [c EXCEPT !.model = IF "model" \in c.asked THEN c.model ELSE entry.model,
              !.share = IF "share" \in c.asked THEN c.share ELSE entry.share]

\* cmd_edit reads the registry, without the lock, and takes its snapshot.
BeginEdit(p) ==
    \E c \in Requests :
        /\ c.op = "edit"
        /\ Loadable(file)
        /\ Loaded(file)[c.name] # Absent
        /\ Begin(p, Completed(c, Loaded(file)[c.name]), "acquire")

\* cmd_rm reads the registry, without the lock, to find the instance.
BeginRm(p) ==
    \E c \in Requests :
        /\ c.op = "rm"
        /\ Loadable(file)
        /\ Loaded(file)[c.name] # Absent
        /\ Begin(p, c, "acquire")

\* The credential file cannot be changed, the harness will not stop, or the
\* lock file cannot be created at all.
GiveUp(p) ==
    /\ pc[p] = "acquire"
    /\ Decide(p, "failed")
    /\ Goto(p, "finish")
    /\ UNCHANGED <<file, cmd, lock, draft, temp>>

-----------------------------------------------------------------------------
(* update_registry.                                                        *)

\* Mutant of Acquire: create, where create_new is needed.
AcquireExisting(p) ==
    /\ pc[p] = "acquire"
    /\ lock' = p
    /\ Goto(p, "load")
    /\ UNCHANGED <<file, cmd, outcome, draft, temp>>

\* RegistryLock::acquire: create_new succeeds.
Acquire(p) ==
    /\ pc[p] = "acquire"
    /\ lock = Free
    /\ lock' = p
    /\ Goto(p, "load")
    /\ UNCHANGED <<file, cmd, outcome, draft, temp>>

\* Mutant of LockTimeout: no deadline, only another try.
LockTimeoutNever(p) ==
    /\ pc[p] = "acquire"
    /\ lock # Free
    /\ UNCHANGED vars

\* The deadline passes and the lock file is still there.
LockTimeout(p) ==
    /\ pc[p] = "acquire"
    /\ lock # Free
    /\ Decide(p, "failed")
    /\ Goto(p, "finish")
    /\ UNCHANGED <<file, cmd, lock, draft, temp>>

\* The documents the closure and the validation in save accept.
Savable(p) == {d \in Effects(cmd[p], file) : Consistent(d)}

\* The document is re-read under the lock and edited in memory.
LoadAndEdit(p) ==
    /\ pc[p] = "load"
    /\ Loadable(file)
    /\ \E d \in Savable(p) : draft' = [draft EXCEPT ![p] = d]
    /\ Goto(p, "create")
    /\ UNCHANGED <<file, cmd, outcome, lock, temp>>

\* It does not load, or the closure refuses it; for add, one reason is that
\* no unclaimed port can be bound just then.
RefuseEdit(p) ==
    /\ pc[p] = "load"
    /\ Loadable(file) /\ Savable(p) # {} => cmd[p].op = "add"
    /\ Decide(p, "failed")
    /\ Goto(p, "release")
    /\ UNCHANGED <<file, cmd, lock, draft, temp>>

-----------------------------------------------------------------------------
(* Registry::save: a temporary file of its own, then a rename.             *)

CreateTemp(p) ==
    /\ pc[p] = "create"
    /\ temp' = [temp EXCEPT ![TempPath(p)] = Garbage]
    /\ Goto(p, "write")
    /\ UNCHANGED <<file, cmd, outcome, lock, draft>>

\* write_all and sync_all
WriteTemp(p) ==
    /\ pc[p] = "write"
    /\ temp' = [temp EXCEPT ![TempPath(p)] = draft[p]]
    /\ Goto(p, "publish")
    /\ UNCHANGED <<file, cmd, outcome, lock, draft>>

Publish(p) ==
    /\ pc[p] = "publish"
    /\ temp[TempPath(p)] # NoFile
    /\ file' = temp[TempPath(p)]
    /\ temp' = [temp EXCEPT ![TempPath(p)] = NoFile]
    /\ Decide(p, "ok")
    /\ Goto(p, Leave(p))
    /\ UNCHANGED <<cmd, lock, draft>>

\* Mutant of SaveFails: the error is dropped and the command reports success.
SaveFailsSilently(p) ==
    /\ pc[p] \in {"create", "write", "publish"}
    /\ Decide(p, "ok")
    /\ Goto(p, Leave(p))
    /\ UNCHANGED <<file, cmd, lock, draft, temp>>

\* An I/O error.  Only a failed rename removes the temporary file.
SaveFails(p) ==
    /\ pc[p] \in {"create", "write", "publish"}
    /\ temp' = IF pc[p] = "publish" THEN [temp EXCEPT ![TempPath(p)] = NoFile]
                                    ELSE temp
    /\ Decide(p, "failed")
    /\ Goto(p, Leave(p))
    /\ UNCHANGED <<file, cmd, lock, draft>>

\* Left by a process that is gone.
Abandoned(p) == IF lock = p THEN Stale ELSE lock

\* The command ends: Drop removes the lock file, whoever created it, and does
\* not look whether the removal worked.
Release(p) ==
    /\ pc[p] = "release"
    /\ lock' \in {Free, Abandoned(p)}
    /\ Exit(p)
    /\ UNCHANGED <<file, temp>>

Finish(p) ==
    /\ pc[p] = "finish"
    /\ Exit(p)
    /\ UNCHANGED <<file, lock, temp>>

-----------------------------------------------------------------------------
(* What happens to the commands: they are killed, and users follow the     *)
(* advice of the lock's time-out message.                                  *)

Crash(p) ==
    /\ pc[p] # "idle"
    /\ Exit(p)
    /\ lock' = Abandoned(p)
    /\ UNCHANGED <<file, temp>>

DeleteLock ==
    /\ lock # Free
    /\ CarefulUser => lock = Stale
    /\ lock' = Free
    /\ UNCHANGED <<file, cmd, outcome, pc, draft, temp>>

-----------------------------------------------------------------------------
Start(p) == BeginNew(p) \/ BeginEdit(p) \/ BeginRm(p)

\* The steps a command takes on its own once it runs.
Proceed(p) ==
    \/ Acquire(p) \/ LockTimeout(p)
    \/ LoadAndEdit(p) \/ RefuseEdit(p)
    \/ CreateTemp(p) \/ WriteTemp(p) \/ Publish(p)
    \/ Release(p) \/ Finish(p)

Run(p) == Proceed(p) \/ GiveUp(p) \/ SaveFails(p)

Next ==
    \/ \E p \in Procs : Start(p) \/ Run(p) \/ Crash(p)
    \/ DeleteLock

Spec == Init /\ [][Next]_vars

\* A process that is not killed is scheduled, and acquire has a deadline.
\* Nothing makes a step fail: I/O errors are not what ends a command.
FairSpec == Spec /\ \A p \in Procs : WF_vars(Proceed(p))

-----------------------------------------------------------------------------
(* Properties.                                                             *)

\* p is between RegistryLock::acquire and the drop of the lock.
Holding(p) == pc[p] \in {"load", "create", "write", "publish", "release"}
              /\ cmd[p].op # "init"

(* Two commands are never inside update_registry at once: a lock is        *)
(* removed only by its owner or after its owner died (registry.rs,         *)
(* RegistryLock).                                                          *)
MutualExclusion ==
    \A p, q \in Procs : Holding(p) /\ Holding(q) => p = q

(* What a command is about to save is its own edit of the document that is *)
(* on disk at that very moment, and once it has saved, its document is     *)
(* what is on disk until it lets the lock go.  This is what "the document  *)
(* is re-read inside the lock" (main.rs, update_registry) is meant to buy: *)
(* no other command's change is lost.                                      *)
DraftIsCurrent ==
    \A p \in Procs : Holding(p) =>
        /\ pc[p] \in {"create", "write", "publish"} =>
               Loadable(file) /\ draft[p] \in Effects(cmd[p], file)
        /\ pc[p] = "release" /\ outcome[p] = "ok" => file = draft[p]

(* Nobody who opens router.yaml sees a partly written document, not even   *)
(* when commands save at the same time without a lock, as init does: each  *)
(* writes a file of its own and renames it (registry.rs, save).            *)
WholeDocuments == [][file' = Garbage => file = Garbage]_vars

(* No command ever publishes a document in which two instances share a     *)
(* port or a workspace, whatever a user has typed into the file by hand    *)
(* (registry.rs, validate, called by load and by save).                    *)
PublishedConsistent ==
    [][file' # file =>
           /\ file' \in Documents
           /\ \A m, n \in Registered(file') :
                  m # n => /\ file'[m].port # file'[n].port
                           /\ file'[m].workspace # file'[n].workspace]_vars

(* A registry that does not load is left exactly as it is, by init too,    *)
(* so that its user can recover it (main.rs, cmd_init and load).           *)
UnreadableLeftAlone == [][~Loadable(file) => file' = file]_vars

(* Two instances of a registry that loads work in one physical directory   *)
(* only if canonicalize may have failed for the workspace of one of them,  *)
(* so that it is recorded by its spelling; else not, however the user      *)
(* spelled them (main.rs, cmd_add: "compared by physical directory, not by *)
(* spelling"; workspace.rs, identity: "it compares what it can see").      *)
DirectoriesDistinct ==
    file \in Documents /\ Consistent(file) =>
        \A m, n \in Registered(file) :
            m # n /\ Resolve[file[m].workspace] = Resolve[file[n].workspace]
                => {file[m].workspace, file[n].workspace} \cap Unresolved # {}

(* An instance leaves the registry only when a router rm that names it     *)
(* saves.  With a concurrent init this is what "an existing registry is    *)
(* never overwritten" (main.rs, cmd_init) comes to.                        *)
EntriesOnlyLeaveByRm ==
    [][\A n \in Names :
           Loadable(file) /\ Loaded(file)[n] # Absent /\ Loaded(file')[n] = Absent
           => \E p \in Procs : /\ pc[p] = "publish"
                               /\ cmd[p].op = "rm" /\ cmd[p].name = n]_vars

(* Every behaviour is one of AtomicRegistry: file, cmd and outcome are the *)
(* variables of both.  A command that answers "ok" took effect once, on    *)
(* the document as it was at that instant, and a command that answers      *)
(* "failed" did not (main.rs, update_registry).                            *)
Linearizable == AtomicSpec

(* Every command comes to an end, also when the lock file it waits for is  *)
(* never removed (registry.rs, acquire's deadline).                        *)
CommandsTerminate == \A p \in Procs : pc[p] # "idle" ~> pc[p] = "idle"
=============================================================================
