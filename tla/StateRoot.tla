----------------------------- MODULE StateRoot ------------------------------
(***************************************************************************)
(* The state root of one instance: settings.yaml and .credentials.yaml,    *)
(* as start provisions them and edit reconciles them with the registry,    *)
(* next to the harness and the user, who write the same files.             *)
(*                                                                         *)
(* start:  root -> settings [-> choose] -> credentials                     *)
(*              [-> link] [-> write] -> spawn                              *)
(* edit:   [reconcile [-> remove -> [link ->] [write]]] -> record          *)
(*                                                                         *)
(* add and rm change the registry in one step, and no file of the root.    *)
(***************************************************************************)
EXTENDS Naturals, FiniteSets

CONSTANTS
    Procs,      \* router processes
    Models,     \* models that can be pinned
    Default,    \* no model is pinned
    Gone,       \* the registry has no such instance
    Commands,   \* the commands that are typed
    Mishaps     \* see below

(* io          a file cannot be created, written or removed                *)
(* nolink      a symbolic link cannot be made                              *)
(* killed      a command is killed, but for an edit about to be recorded   *)
(* unrecorded  such an edit is killed, or does not get the registry's lock *)
(* removed     the host's credential file is removed                       *)
AllMishaps == {"io", "nolink", "killed", "unrecorded", "removed"}

ASSUME StateRootAssumption ==
    /\ Default \notin Models
    /\ {"absent", "chosen"} \cap (Models \cup {Default}) = {}
    /\ Commands \subseteq {"add", "start", "edit", "rm"}
    /\ Mishaps \subseteq AllMishaps

\* An Instance of the registry.
Entries == [model : Models \cup {Default}, share : BOOLEAN]

ASSUME GoneAssumption == Gone \notin Entries

VARIABLES
    entry,      \* the registry's entry
    root,       \* whether the state root exists
    settings,   \* settings.yaml: absent, a model of ours, or the user's choice
    file,       \* .credentials.yaml: none, empty, keyed, or a link to the host's
    host,       \* the host's file: none, empty or keyed
    running,    \* whether a harness serves from the root
    pc,         \* where each command is
    op,         \* start, or an edit of the model only, or of the sharing
    draft,      \* the entry it has read, or is to record
    looked      \* history: whether the host's file was there when it looked

files   == <<root, settings, file, host>>
control == <<pc, op, draft, looked>>
vars    == <<entry, files, running, control>>

StartPhases == {"root", "settings", "choose", "credentials", "link", "write", "spawn"}
EditPhases  == {"reconcile", "remove", "link", "write", "record"}

TypeOK ==
    /\ entry \in Entries \cup {Gone}
    /\ root \in BOOLEAN
    /\ settings \in Models \cup {"absent", "chosen"}
    /\ file \in {"none", "empty", "keyed", "link"}
    /\ host \in {"none", "empty", "keyed"}
    /\ running \in BOOLEAN
    /\ pc \in [Procs -> {"idle"} \cup StartPhases \cup EditPhases]
    /\ op \in [Procs -> {"start", "model", "sharing"}]
    /\ draft \in [Procs -> Entries]
    /\ looked \in [Procs -> BOOLEAN]
    /\ \A p \in Procs :
           /\ pc[p] # "idle" => pc[p] \in IF op[p] = "start" THEN StartPhases ELSE EditPhases
           /\ pc[p] = "choose" => draft[p].model \in Models

Init ==
    /\ entry = Gone
    /\ root = FALSE /\ settings = "absent" /\ file = "none"
    /\ host \in {"none", "keyed"}
    /\ running = FALSE
    /\ pc = [p \in Procs |-> "idle"]
    /\ op = [p \in Procs |-> "start"]
    /\ draft = [p \in Procs |-> [model |-> Default, share |-> FALSE]]
    /\ looked = [p \in Procs |-> FALSE]

-----------------------------------------------------------------------------
Goto(p, phase) == pc' = [pc EXCEPT ![p] = phase] /\ UNCHANGED <<op, draft, looked>>

\* The command has looked at the credential files and goes on accordingly.
Look(p, phase) ==
    /\ pc' = [pc EXCEPT ![p] = phase]
    /\ looked' = [looked EXCEPT ![p] = host # "none"]
    /\ UNCHANGED <<op, draft>>

\* Path::exists, which follows a link.
FileExists == file # "none" /\ (file = "link" => host # "none")

\* The command goes on when its file is as it shall be.
Onward(p) == Goto(p, IF op[p] = "start" THEN "spawn" ELSE "record")

\* An error, or a kill: the command ends and leaves everything as it is.
GiveUp(p) == Goto(p, "idle") /\ UNCHANGED <<entry, files, running>>

-----------------------------------------------------------------------------
(* add and rm                                                              *)

Add(p) ==
    /\ "add" \in Commands
    /\ pc[p] = "idle" /\ entry = Gone
    /\ entry' \in Entries
    /\ UNCHANGED <<files, running, control>>

\* The state is left on disk.
Rm(p) ==
    /\ "rm" \in Commands
    /\ pc[p] = "idle" /\ entry # Gone
    /\ entry' = Gone /\ running' = FALSE
    /\ UNCHANGED <<files, control>>

-----------------------------------------------------------------------------
(* start: the registry is read once, then provision does its work, for an  *)
(* instance that runs already as for one that does not.                    *)

BeginStart(p) ==
    /\ "start" \in Commands
    /\ pc[p] = "idle" /\ entry # Gone
    /\ pc' = [pc EXCEPT ![p] = "root"]
    /\ op' = [op EXCEPT ![p] = "start"]
    /\ draft' = [draft EXCEPT ![p] = entry]
    /\ UNCHANGED <<entry, files, running, looked>>

MakeRoot(p) ==
    /\ pc[p] = "root"
    /\ root' = TRUE
    /\ Goto(p, "settings")
    /\ UNCHANGED <<entry, settings, file, host, running>>

\* Only an absent file is written.
CheckSettings(p) ==
    /\ pc[p] = "settings"
    /\ Goto(p, IF draft[p].model # Default /\ settings = "absent"
               THEN "choose" ELSE "credentials")
    /\ UNCHANGED <<entry, files, running>>

WriteSettings(p) ==
    /\ pc[p] = "choose"
    /\ settings' = draft[p].model
    /\ Goto(p, "credentials")
    /\ UNCHANGED <<entry, root, file, host, running>>

\* Mutant of CheckCredentials: a file is made whether or not there is one.
CheckNoCredentials(p) ==
    /\ pc[p] = "credentials"
    /\ Look(p, IF draft[p].share /\ host # "none" THEN "link" ELSE "write")
    /\ UNCHANGED <<entry, files, running>>

\* Mutant of CheckCredentials: without sharing, no file is made.
CheckSharedCredentials(p) ==
    /\ pc[p] = "credentials"
    /\ Look(p, IF ~FileExists /\ draft[p].share /\ host # "none" THEN "link" ELSE "spawn")
    /\ UNCHANGED <<entry, files, running>>

CheckCredentials(p) ==
    /\ pc[p] = "credentials"
    /\ Look(p, IF FileExists THEN "spawn"
               ELSE IF draft[p].share /\ host # "none" THEN "link" ELSE "write")
    /\ UNCHANGED <<entry, files, running>>

\* A harness of the instance's own that answers is taken over instead.
Spawn(p) ==
    /\ pc[p] = "spawn"
    /\ running' = TRUE
    /\ Goto(p, "idle")
    /\ UNCHANGED <<entry, files>>

-----------------------------------------------------------------------------
(* edit: a running instance is refused; the file is changed before the     *)
(* registry.  What is not asked for is recorded as it was read.            *)

BeginEdit(p) ==
    /\ "edit" \in Commands
    /\ pc[p] = "idle" /\ entry # Gone /\ ~running
    /\ \E asked \in SUBSET {"model", "share"} \ {{}}, e \in Entries :
           /\ draft' = [draft EXCEPT ![p] =
                  [model |-> IF "model" \in asked THEN e.model ELSE entry.model,
                   share |-> IF "share" \in asked THEN e.share ELSE entry.share]]
           /\ pc' = [pc EXCEPT ![p] = IF "share" \in asked THEN "reconcile" ELSE "record"]
           /\ op' = [op EXCEPT ![p] = IF "share" \in asked THEN "sharing" ELSE "model"]
    /\ UNCHANGED <<entry, files, running, looked>>

\* Mutant of Reconcile: a link is taken for done before it is asked what for.
ReconcileLinked(p) ==
    /\ pc[p] = "reconcile"
    /\ Look(p, IF ~root \/ file = "link" \/ (draft[p].share /\ host = "none")
               THEN "record" ELSE "remove")
    /\ UNCHANGED <<entry, files, running>>

\* set_credential_sharing: nothing to do yet, nothing to link to, or done already.
Reconcile(p) ==
    /\ pc[p] = "reconcile"
    /\ Look(p, IF ~root \/ (draft[p].share /\ (host = "none" \/ file = "link"))
               THEN "record" ELSE "remove")
    /\ UNCHANGED <<entry, files, running>>

\* Mutant of Remove: the link stays while the private file is written.
RemoveNoLink(p) ==
    /\ pc[p] = "remove"
    /\ file' = IF draft[p].share THEN "none" ELSE file
    /\ Goto(p, IF draft[p].share THEN "link" ELSE "write")
    /\ UNCHANGED <<entry, root, settings, host, running>>

Remove(p) ==
    /\ pc[p] = "remove"
    /\ file' = "none"
    /\ Goto(p, IF draft[p].share THEN "link" ELSE "write")
    /\ UNCHANGED <<entry, root, settings, host, running>>

Record(p) ==
    /\ pc[p] = "record"
    /\ entry' = IF entry = Gone THEN Gone ELSE draft[p]
    /\ Goto(p, "idle")
    /\ UNCHANGED <<files, running>>

-----------------------------------------------------------------------------
(* What start and edit do alike.                                           *)

Link(p) ==
    /\ pc[p] = "link" /\ file = "none"
    /\ file' = "link"
    /\ Onward(p)
    /\ UNCHANGED <<entry, root, settings, host, running>>

\* The instance gets a private file instead.
LinkFails(p) ==
    /\ pc[p] = "link"
    /\ file # "none" \/ "nolink" \in Mishaps
    /\ Goto(p, "write")
    /\ UNCHANGED <<entry, files, running>>

\* write_empty_credentials: fs::write follows a link.
WriteEmpty(p) ==
    /\ pc[p] = "write"
    /\ IF file = "link" THEN host' = "empty" /\ UNCHANGED file
                        ELSE file' = "empty" /\ UNCHANGED host
    /\ Onward(p)
    /\ UNCHANGED <<entry, root, settings, running>>

\* A harness that cannot be started is a failure of start, whatever the reason.
Fail(p) ==
    /\ \/ pc[p] \in {"root", "choose", "remove", "write"} /\ "io" \in Mishaps
       \/ pc[p] = "spawn"
    /\ GiveUp(p)

Kill(p) ==
    /\ "killed" \in Mishaps
    /\ pc[p] \notin {"idle", "record"}
    /\ GiveUp(p)

RecordFails(p) ==
    /\ "unrecorded" \in Mishaps
    /\ pc[p] = "record"
    /\ GiveUp(p)

-----------------------------------------------------------------------------
(* The harness and the user.                                               *)

ChooseModel ==
    /\ running
    /\ settings' = "chosen"
    /\ UNCHANGED <<entry, root, file, host, running, control>>

\* A key that is entered in an instance that shares goes to the host's file.
EnterKey ==
    /\ running
    /\ IF file = "link" THEN host' = "keyed" /\ UNCHANGED file
                        ELSE file' = "keyed" /\ UNCHANGED host
    /\ UNCHANGED <<entry, root, settings, running, control>>

EndHarness ==
    /\ running
    /\ running' = FALSE
    /\ UNCHANGED <<entry, files, control>>

ChangeHost ==
    /\ \/ host' = "keyed"
       \/ "removed" \in Mishaps /\ host' = "none"
    /\ UNCHANGED <<entry, root, settings, file, running, control>>

-----------------------------------------------------------------------------
Command(p) ==
    \/ Add(p) \/ Rm(p)
    \/ BeginStart(p) \/ MakeRoot(p) \/ CheckSettings(p) \/ WriteSettings(p)
    \/ CheckCredentials(p) \/ Spawn(p)
    \/ BeginEdit(p) \/ Reconcile(p) \/ Remove(p) \/ Record(p)
    \/ Link(p) \/ LinkFails(p) \/ WriteEmpty(p)
    \/ Fail(p) \/ Kill(p) \/ RecordFails(p)

Next ==
    \/ \E p \in Procs : Command(p)
    \/ ChooseModel \/ EnterKey \/ EndHarness \/ ChangeHost

Spec == Init /\ [][Next]_vars

-----------------------------------------------------------------------------
(* Properties.                                                             *)

Idle == \A p \in Procs : pc[p] = "idle"

(* An instance that is marked private does not read the host's credentials *)
(* (provisioning.rs, set_credential_sharing: "the host credentials must    *)
(* stop being reachable, which is the entire point of the choice").        *)
PrivateIsUnreachable ==
    Idle /\ entry # Gone /\ ~entry.share => file # "link"

(* No command empties a credential file of the host that was there when    *)
(* the command looked, whatever links there are and whoever writes the     *)
(* file (provisioning.rs, write_empty_credentials, follows links).  One    *)
(* that comes into being after that is emptied, through a link that led to *)
(* nothing: a running harness that shares may be the one who made it.      *)
HostKeysKept ==
    [][\A p \in Procs :
           WriteEmpty(p) /\ host = "keyed" /\ host' = "empty" => ~looked[p]]_vars

(* An edit that turns sharing off says so in the registry only when the    *)
(* host's credentials are out of reach (main.rs, cmd_edit: "If the file    *)
(* cannot be changed, the registry must not claim it was").                *)
SharingStops ==
    \A p \in Procs :
        pc[p] = "record" /\ op[p] = "sharing" /\ ~draft[p].share => file # "link"

(* A harness finds a credential file when it is started, or taken over,    *)
(* whatever an earlier command has left behind (provisioning.rs: "An       *)
(* absent file can behave differently from an empty one, so it is created  *)
(* explicitly").                                                           *)
StartsWithFile == [][\A p \in Procs : Spawn(p) => file # "none"]_vars

(* A key that was entered is not lost by a start, only by an edit of the   *)
(* sharing (provisioning.rs, provision: "rewrites only what is missing").  *)
KeysSurviveStarts ==
    [][file = "keyed" /\ file' # "keyed"
           => \E p \in Procs : op[p] = "sharing" /\ pc[p] = "remove"]_vars

(* The user's choice of a model is never reverted (provisioning.rs,        *)
(* provision: "must not have that choice reverted on the next start").     *)
ChoiceKept == [][settings = "chosen" => settings' = "chosen"]_settings
=============================================================================
