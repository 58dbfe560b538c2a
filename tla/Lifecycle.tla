----------------------------- MODULE Lifecycle ------------------------------
(***************************************************************************)
(* One instance as the operating system sees it: the harness processes the *)
(* router starts for it, whatever else binds its port, the two files in    *)
(* which router commands remember what they started (harness-pid and       *)
(* browser-url), and the commands, each of them a process of its own.      *)
(*                                                                         *)
(* start:       probe -> own -> spawn -> record -> await -> identify ->    *)
(*              grace -> publish                                           *)
(* stop, rm:    check -> whose -> listen -> kill -> confirm, then          *)
(*              clearurl -> clearpid, or remove -> clearpid -> clearurl    *)
(*                                                                         *)
(* The registry is one Boolean here: Registry implements AtomicRegistry,   *)
(* so a change of it is one step.  A process id is given again only when    *)
(* nothing remembers it.  What can go wrong on the machine is the constant *)
(* Mishaps, so that a run says which of it a property survives.            *)
(***************************************************************************)
EXTENDS Naturals, FiniteSets

CONSTANTS
    Procs,      \* processes running a router command, at most one each
    Pids,       \* process ids of harnesses and of programs that bind the port
    NoPid,      \* "no process", "no such file"
    Shim,       \* the harness is launched through dsh.cmd, which starts node
    Commands,   \* the commands users type
    Mishaps     \* see below

(* again    start or restart is typed for an instance that already runs    *)
(* race     another program binds the port while a router command runs     *)
(* slow     what holds the port may not answer HTTP in PROBE_TIMEOUT       *)
(* lookup   netstat, lsof or ps may give no answer                         *)
(* timeout  the harness may not be ready within ready_timeout              *)
(* silent   a harness that serves may not print its URL in URL_GRACE_MS    *)
(* io       a file may not be written, the harness may not be spawned      *)
(* crash    a router command may be killed                                 *)
(* detached the shim may exit while node runs on                           *)
AllMishaps == {"again", "race", "slow", "lookup", "timeout", "silent", "io",
               "crash", "detached"}

ASSUME LifecycleAssumption ==
    /\ NoPid \notin Pids
    /\ Shim \in BOOLEAN
    /\ Mishaps \subseteq AllMishaps

VARIABLES
    os,         \* what each process id stands for
    parent,     \* the shim that started a harness
    holder,     \* the process that listens on the port
    pidFile,    \* harness-pid
    urlFile,    \* browser-url, as the process whose token it carries
    registered, \* the registry has the instance
    cmd,        \* the command each process runs
    pc,         \* and where it is in it
    child,      \* the process a start has spawned
    url,        \* the process whose URL line a start has read
    target      \* the process a stop is about to kill

osVars    == <<os, parent, holder>>
fileVars  == <<pidFile, urlFile, registered>>
localVars == <<cmd, pc, child, url, target>>
vars      == <<osVars, fileVars, localVars>>

Foreign == {"harness", "other"}     \* not started by the router
Kinds   == {"gone", "shim", "ours"} \cup Foreign

Phases == {"idle", "probe", "own", "spawn", "record", "await", "identify",
           "grace", "publish", "check", "whose", "listen", "kill", "confirm",
           "remove", "clearurl", "clearpid"}

MaybePids == Pids \cup {NoPid}

TypeOK ==
    /\ os \in [Pids -> Kinds]
    /\ parent \in [Pids -> MaybePids]
    /\ holder \in MaybePids
    /\ pidFile \in MaybePids
    /\ urlFile \in MaybePids
    /\ registered \in BOOLEAN
    /\ cmd \in [Procs -> {"none", "add", "start", "restart", "stop", "rm"}]
    /\ pc \in [Procs -> Phases]
    /\ child \in [Procs -> MaybePids]
    /\ url \in [Procs -> MaybePids]
    /\ target \in [Procs -> MaybePids]
    /\ \A p \in Procs :
           /\ pc[p] \in {"record", "await", "identify", "grace"} => child[p] # NoPid
           /\ pc[p] = "kill" => target[p] # NoPid

Init ==
    /\ os = [k \in Pids |-> "gone"]
    /\ parent = [k \in Pids |-> NoPid]
    /\ holder = NoPid /\ pidFile = NoPid /\ urlFile = NoPid
    /\ registered = TRUE
    /\ cmd = [p \in Procs |-> "none"]
    /\ pc = [p \in Procs |-> "idle"]
    /\ child = [p \in Procs |-> NoPid]
    /\ url = [p \in Procs |-> NoPid]
    /\ target = [p \in Procs |-> NoPid]

-----------------------------------------------------------------------------
(* Processes and the port.                                                 *)

Alive(k) == k \in Pids /\ os[k] # "gone"

Remembered == {pidFile, urlFile}
              \cup {child[p] : p \in Procs} \cup {url[p] : p \in Procs}
              \cup {target[p] : p \in Procs}

\* The process ids a new process may get.
Fresh == {k \in Pids : /\ ~Alive(k) /\ k \notin Remembered
                       /\ ~Alive(parent[k])
                       /\ \A j \in Pids : parent[j] = k => ~Alive(j)}

\* The bound on processes: there is one for a shim and one for its harness.
Room == Cardinality(Fresh) > 1

Born(k, kind, by) ==
    /\ os' = [os EXCEPT ![k] = kind]
    /\ parent' = [j \in Pids |-> IF j = k THEN by
                                 ELSE IF parent[j] = k THEN NoPid ELSE parent[j]]

\* The processes in S die, and the port of one of them is free.
Die(S) ==
    /\ os' = [k \in Pids |-> IF k \in S THEN "gone" ELSE os[k]]
    /\ holder' = IF holder \in S THEN NoPid ELSE holder
    /\ UNCHANGED parent

\* descendants_of: a process id and the processes it has started.
Family(k) == {k} \cup {j \in Pids : parent[j] = k}

\* Mutant of Owned: whoever holds the port will do, if it is a harness.
OwnedIfHarness == holder # NoPid /\ os[holder] \in {"ours", "harness"}

\* The recorded process, or one it has started, listens on the port.
Owned == pidFile # NoPid /\ holder \in Family(pidFile)

\* looks_like_our_harness goes by the command line: any harness's will do.
LooksLikeOurs(k) == os[k] \in {"ours", "harness"}

-----------------------------------------------------------------------------
(* Commands.                                                               *)

Goto(p, phase) ==
    /\ pc' = [pc EXCEPT ![p] = phase]
    /\ UNCHANGED <<cmd, child, url, target>>

Leave(p) ==
    /\ cmd' = [cmd EXCEPT ![p] = "none"]
    /\ pc' = [pc EXCEPT ![p] = "idle"]
    /\ child' = [child EXCEPT ![p] = NoPid]
    /\ url' = [url EXCEPT ![p] = NoPid]
    /\ target' = [target EXCEPT ![p] = NoPid]

Begin(p, c, phase) ==
    /\ pc[p] = "idle"
    /\ c \in Commands
    /\ cmd' = [cmd EXCEPT ![p] = c]
    /\ pc' = [pc EXCEPT ![p] = phase]
    /\ UNCHANGED <<osVars, urlFile, child, url, target>>

\* Whether users type start and restart for an instance that runs.
Startable == "again" \in Mishaps \/ holder \notin {k \in Pids : os[k] = "ours"}

\* allocate gives a new instance a port that nothing is bound to.
BeginAdd(p) ==
    /\ ~registered /\ holder = NoPid
    /\ Begin(p, "add", "probe")
    /\ registered' = TRUE
    /\ UNCHANGED pidFile

BeginStart(p) ==
    /\ registered /\ Startable
    /\ Begin(p, "start", "probe")
    /\ UNCHANGED <<pidFile, registered>>

\* MultiSupervisor::stop has no child to kill in this process: all it does
\* is clear harness-pid.  start_one follows.
BeginRestart(p) ==
    /\ registered /\ Startable
    /\ Begin(p, "restart", "probe")
    /\ pidFile' = NoPid
    /\ UNCHANGED registered

BeginStop(p) ==
    /\ registered
    /\ \E c \in {"stop", "rm"} : Begin(p, c, "check")
    /\ UNCHANGED <<pidFile, registered>>

\* The process is killed; what it has spawned lives on.
Crash(p) ==
    /\ "crash" \in Mishaps
    /\ pc[p] # "idle"
    /\ Leave(p)
    /\ UNCHANGED <<osVars, fileVars>>

-----------------------------------------------------------------------------
(* MultiSupervisor::start, and start_one around it.                        *)

\* Mutant of ProbePort: a start does not look at the port first.
ProbePortSkipped(p) ==
    /\ pc[p] = "probe"
    /\ Goto(p, "spawn")
    /\ UNCHANGED <<osVars, fileVars>>

ProbePort(p) ==
    /\ pc[p] = "probe"
    /\ Goto(p, IF holder = NoPid THEN "spawn" ELSE "own")
    /\ UNCHANGED <<osVars, fileVars>>

\* An owner goes on as if the port were free; anyone else is PortInUse.
CheckOwner(p) ==
    /\ pc[p] = "own"
    /\ \/ Owned /\ Goto(p, "spawn")
       \/ (~Owned \/ "lookup" \in Mishaps) /\ Leave(p)
    /\ UNCHANGED <<osVars, fileVars>>

\* The workspace is gone, provision fails, or the spawn does.
StartFails(p) ==
    /\ pc[p] = "spawn"
    /\ "io" \in Mishaps \/ ~Room
    /\ Leave(p)
    /\ UNCHANGED <<osVars, fileVars>>

Spawn(p) ==
    /\ pc[p] = "spawn"
    /\ Room
    /\ \E k \in Fresh :
           /\ Born(k, IF Shim THEN "shim" ELSE "ours", NoPid)
           /\ child' = [child EXCEPT ![p] = k]
    /\ pc' = [pc EXCEPT ![p] = "record"]
    /\ UNCHANGED <<holder, fileVars, cmd, url, target>>

\* A file is written, or is not and nobody minds.
Write(file, value) == {value} \cup {f \in {file} : "io" \in Mishaps}

RecordChild(p) ==
    /\ pc[p] = "record"
    /\ pidFile' \in Write(pidFile, child[p])
    /\ Goto(p, "await")
    /\ UNCHANGED <<osVars, urlFile, registered>>

\* The harness that is awaited serves: the line with its URL is on its way.
UrlToCome(p) == url[p] = NoPid /\ holder # NoPid /\ holder \in Family(child[p])

\* It comes through the pipe of the child.
ReadUrl(p) ==
    /\ pc[p] \in {"await", "grace"}
    /\ UrlToCome(p)
    /\ url' = [url EXCEPT ![p] = holder]
    /\ UNCHANGED <<osVars, fileVars, cmd, pc, child, target>>

\* Mutant of ChildExits: only the deadline ends the wait for the harness.
ChildExitsUnnoticed(p) ==
    /\ pc[p] = "await"
    /\ ~Alive(child[p])
    /\ UNCHANGED vars

\* ExitedEarly
ChildExits(p) ==
    /\ pc[p] = "await"
    /\ ~Alive(child[p])
    /\ Leave(p)
    /\ UNCHANGED <<osVars, fileVars>>

\* The select looks at the child first, then whether the port answers.
ConfirmReady(p) ==
    /\ pc[p] = "await"
    /\ Alive(child[p])
    /\ holder # NoPid
    /\ Goto(p, "identify")
    /\ UNCHANGED <<osVars, fileVars>>

\* confirm_ready, after read_version: harness-pid names who listens now.
RecordListener(p) ==
    /\ pc[p] = "identify"
    /\ \/ holder # NoPid /\ pidFile' \in Write(pidFile, holder)
       \/ (holder = NoPid \/ "lookup" \in Mishaps) /\ pidFile' = pidFile
    /\ Goto(p, "grace")
    /\ UNCHANGED <<osVars, urlFile, registered>>

\* Mutant of Ready: the line is not waited for.
ReadyAtOnce(p) ==
    /\ pc[p] = "grace"
    /\ Die({child[p]})
    /\ Goto(p, "publish")
    /\ UNCHANGED fileVars

\* await_ready waits for the line, for a while.  It returns, and drops the
\* Child it was given: kill_on_drop.
Ready(p) ==
    /\ pc[p] = "grace"
    /\ ~UrlToCome(p) \/ "silent" \in Mishaps
    /\ Die({child[p]})
    /\ Goto(p, "publish")
    /\ UNCHANGED fileVars

\* The deadline: await_ready returns here too.
Timeout(p) ==
    /\ "timeout" \in Mishaps
    /\ pc[p] = "await"
    /\ Die({child[p]})
    /\ Leave(p)
    /\ UNCHANGED fileVars

\* The URL start prints: without a line, the one that is recorded.
Announced(p) == IF url[p] # NoPid THEN url[p] ELSE urlFile

PublishUrl(p) ==
    /\ pc[p] = "publish"
    /\ urlFile' \in IF url[p] = NoPid THEN {urlFile} ELSE Write(urlFile, url[p])
    /\ Leave(p)
    /\ UNCHANGED <<osVars, pidFile, registered>>

-----------------------------------------------------------------------------
(* cmd_stop and cmd_rm.                                                    *)

\* Where a command goes when nothing of ours listens: stop has succeeded.
Stopped(p) == Goto(p, IF cmd[p] = "rm" THEN "remove" ELSE "clearurl")

\* And where when somebody else listens: rm goes on, stop has failed.
NotOurs(p) == IF cmd[p] = "rm" THEN Goto(p, "remove") ELSE Leave(p)

Aim(p) ==
    /\ target' = [target EXCEPT ![p] = holder]
    /\ pc' = [pc EXCEPT ![p] = "kill"]
    /\ UNCHANGED <<cmd, child, url>>

\* Mutant of CheckServing: rm forgets an instance whether or not it runs.
CheckServingUnlessRm(p) ==
    /\ pc[p] = "check"
    /\ Goto(p, IF cmd[p] = "rm" THEN "remove" ELSE "listen")
    /\ UNCHANGED <<osVars, fileVars>>

\* serving_state, probe_port: Down sends rm past the stop, but not stop.
CheckServing(p) ==
    /\ pc[p] = "check"
    /\ \/ holder # NoPid /\ Goto(p, "whose")
       \/ /\ holder = NoPid \/ "slow" \in Mishaps
          /\ Goto(p, IF cmd[p] = "rm" THEN "remove" ELSE "listen")
    /\ UNCHANGED <<osVars, fileVars>>

\* serving_state: Ours or Foreign.
CheckWhose(p) ==
    /\ pc[p] = "whose"
    /\ \/ Owned /\ Goto(p, "listen")
       \/ (~Owned \/ "lookup" \in Mishaps) /\ NotOurs(p)
    /\ UNCHANGED <<osVars, fileVars>>

\* Mutant of FindListener: there is no child to kill, so nothing is killed.
FindNoChild(p) ==
    /\ pc[p] = "listen"
    /\ Stopped(p)
    /\ UNCHANGED <<osVars, fileVars>>

\* Mutant of FindListener: an empty list of listeners is not looked for.
FindListenerUnchecked(p) ==
    /\ pc[p] = "listen"
    /\ Aim(p)
    /\ UNCHANGED <<osVars, fileVars>>

\* stop_listener_on: who listens, and does it look like a harness?
FindListener(p) ==
    /\ pc[p] = "listen"
    /\ \/ holder = NoPid /\ Stopped(p)
       \/ holder # NoPid /\ LooksLikeOurs(holder) /\ Aim(p)
       \/ /\ holder # NoPid
          /\ ~LooksLikeOurs(holder) \/ "lookup" \in Mishaps
          /\ NotOurs(p)
       \/ holder # NoPid /\ "lookup" \in Mishaps /\ Leave(p)
    /\ UNCHANGED <<osVars, fileVars>>

\* terminate_pid
Kill(p) ==
    /\ pc[p] = "kill"
    /\ Die(Family(target[p]))
    /\ Goto(p, "confirm")
    /\ UNCHANGED fileVars

\* stop_listener_on polls the port until it is free or the deadline passes.
ConfirmStopped(p) ==
    /\ pc[p] = "confirm"
    /\ IF holder = NoPid THEN Stopped(p) ELSE Leave(p)
    /\ UNCHANGED <<osVars, fileVars>>

\* update_registry in cmd_rm.
Remove(p) ==
    /\ pc[p] = "remove"
    /\ \/ registered /\ registered' = FALSE /\ Goto(p, "clearpid")
       \/ (~registered \/ "io" \in Mishaps) /\ UNCHANGED registered /\ Leave(p)
    /\ UNCHANGED <<osVars, pidFile, urlFile>>

ClearUrl(p) ==
    /\ pc[p] = "clearurl"
    /\ urlFile' = NoPid
    /\ IF cmd[p] = "stop" THEN Goto(p, "clearpid") ELSE Leave(p)
    /\ UNCHANGED <<osVars, pidFile, registered>>

ClearPid(p) ==
    /\ pc[p] = "clearpid"
    /\ pidFile' = NoPid
    /\ IF cmd[p] = "rm" THEN Goto(p, "clearurl") ELSE Leave(p)
    /\ UNCHANGED <<osVars, urlFile, registered>>

-----------------------------------------------------------------------------
(* Harness processes and other programs.                                   *)

\* dsh.cmd starts node.
Launch(k) ==
    /\ os[k] = "shim"
    /\ Family(k) = {k}
    /\ \E j \in Fresh : Born(j, "ours", k)
    /\ UNCHANGED <<holder, fileVars, localVars>>

Bind(k) ==
    /\ os[k] = "ours"
    /\ holder = NoPid
    /\ holder' = k
    /\ UNCHANGED <<os, parent, fileVars, localVars>>

\* A harness that cannot bind exits.  dsh.cmd waits for node and exits after it;
\* comments have it exit as soon as node runs (multi.rs, confirm_ready).
Exit(k) ==
    /\ \/ os[k] = "ours" /\ holder \notin {NoPid, k}
       \/ os[k] = "shim" /\ \E j \in Family(k) \ {k} : "detached" \in Mishaps \/ ~Alive(j)
    /\ Die({k})
    /\ UNCHANGED <<fileVars, localVars>>

\* The harness crashes, or the other program ends.
End(k) ==
    /\ os[k] \in {"ours"} \cup Foreign
    /\ Die({k})
    /\ UNCHANGED <<fileVars, localVars>>

Intrude ==
    /\ holder = NoPid
    /\ "race" \in Mishaps \/ \A p \in Procs : pc[p] = "idle"
    /\ \E k \in Fresh, kind \in Foreign : Born(k, kind, NoPid) /\ holder' = k
    /\ UNCHANGED <<fileVars, localVars>>

-----------------------------------------------------------------------------
Start(p) == BeginAdd(p) \/ BeginStart(p) \/ BeginRestart(p) \/ BeginStop(p)

Run(p) ==
    \/ ProbePort(p) \/ CheckOwner(p) \/ StartFails(p) \/ Spawn(p) \/ RecordChild(p)
    \/ ChildExits(p) \/ ConfirmReady(p) \/ RecordListener(p) \/ Ready(p)
    \/ PublishUrl(p)
    \/ CheckServing(p) \/ CheckWhose(p) \/ FindListener(p) \/ Kill(p)
    \/ ConfirmStopped(p) \/ Remove(p) \/ ClearUrl(p) \/ ClearPid(p)

Next ==
    \/ \E p \in Procs :
           Start(p) \/ Run(p) \/ ReadUrl(p) \/ Timeout(p) \/ Crash(p)
    \/ \E k \in Pids : Launch(k) \/ Bind(k) \/ Exit(k) \/ End(k)
    \/ Intrude

Spec == Init /\ [][Next]_vars

\* Commands that are not killed are scheduled; a harness boots, or exits, and
\* prints its URL.
FairSpec ==
    /\ Spec
    /\ \A p \in Procs : WF_vars(Run(p)) /\ WF_vars(ReadUrl(p))
    /\ \A k \in Pids : WF_vars(Launch(k) \/ Bind(k) \/ Exit(k))

-----------------------------------------------------------------------------
(* Properties.                                                             *)

Idle == \A p \in Procs : pc[p] = "idle"

OurHarnesses == {k \in Pids : os[k] = "ours"}

ForeignPids == {k \in Pids : os[k] \in Foreign}

\* A step in which a router command kills something.
RouterKills(k) ==
    /\ Alive(k) /\ os'[k] = "gone"
    /\ \E p \in Procs : pc'[p] # pc[p]

(* Whatever goes wrong and however commands interleave, a program that is  *)
(* not a harness is never killed (process.rs, stop_listener_on: "the port  *)
(* alone is not proof of ownership").                                      *)
OthersUntouched == [][\A k \in Pids : os[k] = "other" => ~RouterKills(k)]_vars

(* No harness that somebody else has started is killed by the router       *)
(* (README: "A process the Router did not start is never adopted or        *)
(* stopped").                                                              *)
ForeignUntouched == [][\A k \in ForeignPids : ~RouterKills(k)]_vars

(* Nor adopted: harness-pid, on which every later command relies, never    *)
(* names one (browser.rs, pid_path).                                       *)
ForeignNotAdopted == pidFile \notin ForeignPids

(* While no command runs, a harness of ours that serves is known for ours, *)
(* or stop, rm and start refuse to touch it (multi.rs, confirm_ready).     *)
ServingIsOwned == Idle /\ holder \in OurHarnesses => Owned

(* When stop has stopped the instance, and when rm forgets it, no harness  *)
(* of it is left, serving or on its way there (main.rs, cmd_rm:            *)
(* "Forgetting a running instance is worse than failing").                 *)
StopMeansStopped ==
    [][\A p \in Procs :
           pc[p] \in {"listen", "confirm"} /\ pc'[p] = "clearurl" => OurHarnesses = {}]_vars

RemovedMeansStopped ==
    [][registered /\ ~registered' => OurHarnesses = {}]_vars

(* Two harnesses never run on the state root of one instance.              *)
OneHarness == Cardinality(OurHarnesses) <= 1

(* A start that says the instance is ready leaves it running (process.rs,  *)
(* stop_listener_on: the supervisor that started the harness lives in      *)
(* another process than the one that stops it).                            *)
ReadyMeansRunning ==
    [][\A p \in Procs : pc[p] = "grace" /\ pc'[p] = "publish" => holder' = holder]_vars

(* The URL a start announces, and the one open will find, is that of       *)
(* whoever serves then: not of an earlier process, and not the bare port   *)
(* (main.rs, start_one: "the harness is still the same process, so its     *)
(* token is still valid").                                                 *)
AnnouncedUrlServes ==
    [][\A p \in Procs : PublishUrl(p) /\ holder # NoPid =>
           Announced(p) = holder /\ urlFile' = holder]_vars

(* Every command ends, a start without having to wait for its deadline.    *)
CommandsEnd == \A p \in Procs : pc[p] # "idle" ~> pc[p] = "idle"
=============================================================================
