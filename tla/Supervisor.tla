----------------------------- MODULE Supervisor -----------------------------
(***************************************************************************)
(* A Supervisor of router-dsh and the harnesses it spawns: start and stop  *)
(* as called by the tasks of one process, and between them the wait for    *)
(* readiness, a select! over the child, its output and two timers, in that *)
(* order ("biased").  The loop of MultiSupervisor::await_ready is the same. *)
(*                                                                         *)
(* start:  probe -> mark -> spawn -> await -> version -> [grace ->] url    *)
(* stop:   stopping                                                        *)
(*                                                                         *)
(* A tick is 250 ms.  Between two ticks every loop that has something to   *)
(* do does it.  What is done under the lock, and what follows under it     *)
(* again with no await but for the lock between, is one step.              *)
(***************************************************************************)
EXTENDS Naturals, FiniteSets

CONSTANTS
    Tasks,          \* tasks that call start and stop
    Pids,           \* harness processes
    NoPid,          \* None
    Shim,           \* the Child is a shim in front of the harness, and waits for it
    ReadyTimeout,   \* ready_timeout, in ticks
    Grace,          \* URL_GRACE_MS, in ticks
    Mishaps         \* see below

(* spawn    the harness cannot be spawned                                  *)
(* chatty   a harness that serves prints more lines than its announcement  *)
(* closed   a harness closes its output streams                            *)
AllMishaps == {"spawn", "chatty", "closed"}

ASSUME SupervisorAssumption ==
    /\ NoPid \notin Pids
    /\ Shim \in BOOLEAN
    /\ ReadyTimeout \in Nat /\ Grace \in Nat
    /\ Mishaps \subseteq AllMishaps

VARIABLES
    os,         \* what becomes of each harness
    line,       \* the line it has printed and nobody has read yet
    silent,     \* the harnesses that have closed their streams
    told,       \* those that have announced themselves
    spoke,      \* those that have printed a line since the last tick
    state,      \* RuntimeStatus: state,
    pid,        \* pid,
    authUrl,    \* and auth_url, as the process whose token it carries
    pc,         \* where each task is
    child,      \* the Child its start owns
    captured,   \* captured_url
    announced,  \* announced_ready
    waited,     \* ticks since its select! was entered
    left        \* ticks to the deadline of its loop

osVars     == <<os, line, silent, told, spoke>>
statusVars == <<state, pid, authUrl>>
loopVars   == <<captured, announced, waited, left>>
vars       == <<osVars, statusVars, pc, child, loopVars>>

RuntimeStates == {"absent", "starting", "ready", "stopping", "stopped", "failed"}

\* A harness prints its announcement, a diagnostic that quotes it, or else.
Lines == {"announcement", "diagnostic", "chatter"}

Owning == {"await", "version", "grace", "url"}
Phases == {"idle", "probe", "refuse", "mark", "spawn", "stopping"} \cup Owning

SlowProbe == 2      \* 500 ms
FastProbe == 1      \* 250 ms

MaybePids == Pids \cup {NoPid}

TypeOK ==
    /\ os \in [Pids -> {"gone", "booting", "serving"}]
    /\ line \in [Pids -> Lines \cup {"none"}]
    /\ silent \subseteq Pids /\ told \subseteq Pids /\ spoke \subseteq Pids
    /\ state \in RuntimeStates
    /\ pid \in MaybePids
    /\ authUrl \in MaybePids
    /\ pc \in [Tasks -> Phases]
    /\ child \in [Tasks -> MaybePids]
    /\ captured \in [Tasks -> MaybePids]
    /\ announced \in [Tasks -> BOOLEAN]
    /\ waited \in [Tasks -> 0..SlowProbe]
    /\ left \in [Tasks -> Nat]
    /\ \A t \in Tasks : pc[t] \in Owning => child[t] \in Pids

Init ==
    /\ os = [k \in Pids |-> "gone"]
    /\ line = [k \in Pids |-> "none"]
    /\ silent = {} /\ told = {} /\ spoke = {}
    /\ state = "absent" /\ pid = NoPid /\ authUrl = NoPid
    /\ pc = [t \in Tasks |-> "idle"]
    /\ child = [t \in Tasks |-> NoPid]
    /\ captured = [t \in Tasks |-> NoPid]
    /\ announced = [t \in Tasks |-> FALSE]
    /\ waited = [t \in Tasks |-> 0]
    /\ left = [t \in Tasks |-> 0]

-----------------------------------------------------------------------------
Serving == {k \in Pids : os[k] = "serving"}

\* recv has nothing more to return.
Closed(k) == k \in silent /\ line[k] = "none"

\* The markers classify_line finds in a line.
Markers(l) ==
    CASE l = "announcement" -> {"web"}
      [] l = "diagnostic"   -> {"web", "port"}
      [] OTHER              -> {}

\* Mutant of Announces: the marker of readiness is looked for first.
AnnouncesFirst(l) == "web" \in Markers(l)

\* classify_line: what a failure prints is not readiness, whatever it quotes.
Announces(l) ==
    /\ Markers(l) \cap {"port", "sandbox", "credential", "frontend"} = {}
    /\ "web" \in Markers(l)

\* Process ids that nothing refers to.
Fresh == {k \in Pids : /\ os[k] = "gone" /\ k \notin {pid, authUrl}
                       /\ \A t \in Tasks : k \notin {child[t], captured[t]}}

\* The bound on processes: every start under way finds a process id.
Room == Cardinality(Fresh) >
            Cardinality({t \in Tasks : pc[t] \in {"probe", "mark", "spawn"}})

Goto(t, phase) == pc' = [pc EXCEPT ![t] = phase]

\* start returns, and drops the Child it owns, if any: kill_on_drop.  A shim
\* dies alone.
Return(t) ==
    /\ Goto(t, "idle")
    /\ child' = [child EXCEPT ![t] = NoPid]
    /\ captured' = [captured EXCEPT ![t] = NoPid]
    /\ announced' = [announced EXCEPT ![t] = FALSE]
    /\ waited' = [waited EXCEPT ![t] = 0]
    /\ left' = [left EXCEPT ![t] = 0]
    /\ os' = [k \in Pids |-> IF k = child[t] /\ ~Shim THEN "gone" ELSE os[k]]
    /\ line' = [k \in Pids |-> IF k = child[t] THEN "none" ELSE line[k]]
    /\ UNCHANGED <<silent, told, spoke>>

-----------------------------------------------------------------------------
(* start                                                                   *)

\* A supervisor that is usable has returned Ok already.
CallStart(t) ==
    /\ pc[t] = "idle"
    /\ state # "ready"
    /\ Room
    /\ Goto(t, "probe")
    /\ UNCHANGED <<osVars, statusVars, child, loopVars>>

ProbePort(t) ==
    /\ pc[t] = "probe"
    /\ Goto(t, IF Serving = {} THEN "mark" ELSE "refuse")
    /\ UNCHANGED <<osVars, statusVars, child, loopVars>>

\* PortInUse
Refuse(t) ==
    /\ pc[t] = "refuse"
    /\ state' = "failed"
    /\ Return(t)
    /\ UNCHANGED <<pid, authUrl>>

MarkStarting(t) ==
    /\ pc[t] = "mark"
    /\ state' = "starting"
    /\ Goto(t, "spawn")
    /\ UNCHANGED <<osVars, pid, authUrl, child, loopVars>>

\* The error is returned and the state left as it is.
SpawnFails(t) ==
    /\ pc[t] = "spawn"
    /\ "spawn" \in Mishaps
    /\ Return(t)
    /\ UNCHANGED statusVars

Spawn(t) ==
    /\ pc[t] = "spawn"
    /\ \E k \in Fresh :
           /\ os' = [os EXCEPT ![k] = "booting"]
           /\ silent' = silent \ {k} /\ told' = told \ {k}
           /\ child' = [child EXCEPT ![t] = k]
           /\ pid' = k
    /\ left' = [left EXCEPT ![t] = ReadyTimeout]
    /\ Goto(t, "await")
    /\ UNCHANGED <<line, spoke, state, authUrl, captured, announced, waited>>

-----------------------------------------------------------------------------
(* await_readiness: the top of the loop, then the branches of the select!, *)
(* each of which needs that those before it are not ready.                 *)

Top(t) == waited[t] = 0

Expired(t) == Top(t) /\ left[t] = 0

Exited(t) == os[child[t]] = "gone"

Unread(t) == line[child[t]] # "none"

\* A timer of this select! has run out: the fast one exists once announced.
Due(t) == waited[t] >= IF announced[t] THEN FastProbe ELSE SlowProbe

\* Mutant of Deadline: the timeout does not change the state.
DeadlineSilently(t) ==
    /\ pc[t] = "await" /\ Expired(t)
    /\ Return(t)
    /\ UNCHANGED statusVars

\* Timeout
Deadline(t) ==
    /\ pc[t] = "await" /\ Expired(t)
    /\ state' = "failed"
    /\ Return(t)
    /\ UNCHANGED <<pid, authUrl>>

\* ExitedEarly
ChildExits(t) ==
    /\ pc[t] = "await" /\ ~Expired(t) /\ Exited(t)
    /\ state' = "failed" /\ pid' = NoPid
    /\ Return(t)
    /\ UNCHANGED authUrl

\* A line is received, here or in the loop that waits for the URL only.
Receive(t) ==
    /\ line' = [line EXCEPT ![child[t]] = "none"]
    /\ captured' = IF Announces(line[child[t]])
                   THEN [captured EXCEPT ![t] = child[t]] ELSE captured
    /\ UNCHANGED <<os, silent, told, spoke, statusVars, pc, child, left>>

ReadLine(t) ==
    /\ pc[t] = "await" /\ ~Expired(t) /\ ~Exited(t) /\ Unread(t)
    /\ announced' = [announced EXCEPT ![t] = @ \/ Announces(line[child[t]])]
    /\ waited' = [waited EXCEPT ![t] = 0]
    /\ Receive(t)

\* recv returns None at once, and the loop starts over with new timers.
ReadClosed(t) ==
    /\ pc[t] = "await" /\ ~Exited(t) /\ Closed(child[t])
    /\ waited[t] # 0
    /\ waited' = [waited EXCEPT ![t] = 0]
    /\ UNCHANGED <<osVars, statusVars, pc, child, captured, announced, left>>

\* Mutant of Probe: only what has been announced is looked for.
ProbeAnnounced(t) ==
    /\ pc[t] = "await" /\ ~Exited(t) /\ ~Unread(t) /\ ~Closed(child[t]) /\ Due(t)
    /\ IF Serving # {} /\ announced[t]
       THEN Goto(t, "version") /\ UNCHANGED waited
       ELSE waited' = [waited EXCEPT ![t] = 0] /\ UNCHANGED pc
    /\ UNCHANGED <<osVars, statusVars, child, captured, announced, left>>

\* Mutant of Probe: the deadline is computed in the loop, so it never comes.
ProbeForEver(t) ==
    /\ pc[t] = "await" /\ ~Exited(t) /\ ~Unread(t) /\ ~Closed(child[t]) /\ Due(t)
    /\ IF Serving # {}
       THEN Goto(t, "version") /\ UNCHANGED <<waited, left>>
       ELSE /\ waited' = [waited EXCEPT ![t] = 0]
            /\ left' = [left EXCEPT ![t] = ReadyTimeout]
            /\ UNCHANGED pc
    /\ UNCHANGED <<osVars, statusVars, child, captured, announced>>

\* probe_once: anything that accepts a connection will do.
Probe(t) ==
    /\ pc[t] = "await" /\ ~Exited(t) /\ ~Unread(t) /\ ~Closed(child[t]) /\ Due(t)
    /\ IF Serving # {}
       THEN Goto(t, "version") /\ UNCHANGED waited
       ELSE waited' = [waited EXCEPT ![t] = 0] /\ UNCHANGED pc
    /\ UNCHANGED <<osVars, statusVars, child, captured, announced, left>>

\* Mutant of Confirm: probe_and_confirm takes the Child, and drops it.
ConfirmDropsChild(t) ==
    /\ pc[t] = "version"
    /\ state' = "ready"
    /\ Goto(t, IF announced[t] THEN "url" ELSE "grace")
    /\ child' = [child EXCEPT ![t] = NoPid]
    /\ left' = [left EXCEPT ![t] = Grace]
    /\ UNCHANGED <<osVars, pid, authUrl, captured, announced, waited>>

\* The rest of probe_and_confirm, once read_version has returned.
Confirm(t) ==
    /\ pc[t] = "version"
    /\ state' = "ready"
    /\ pid' \in IF Serving = {} THEN {pid} ELSE Serving \cup {pid}
    /\ Goto(t, IF announced[t] THEN "url" ELSE "grace")
    /\ left' = [left EXCEPT ![t] = Grace]
    /\ UNCHANGED <<osVars, authUrl, child, captured, announced, waited>>

ReadUrl(t) ==
    /\ pc[t] = "grace" /\ captured[t] = NoPid /\ left[t] > 0 /\ Unread(t)
    /\ Receive(t)
    /\ UNCHANGED <<announced, waited>>

\* Mutant of GraceEnds: it does not wait.
GraceEndsAtOnce(t) ==
    /\ pc[t] = "grace"
    /\ Goto(t, "url")
    /\ UNCHANGED <<osVars, statusVars, child, loopVars>>

GraceEnds(t) ==
    /\ pc[t] = "grace" /\ (captured[t] # NoPid \/ left[t] = 0)
    /\ Goto(t, "url")
    /\ UNCHANGED <<osVars, statusVars, child, loopVars>>

PublishUrl(t) ==
    /\ pc[t] = "url"
    /\ authUrl' = IF captured[t] = NoPid THEN authUrl ELSE captured[t]
    /\ Return(t)
    /\ UNCHANGED <<state, pid>>

-----------------------------------------------------------------------------
(* stop.  The Child it would kill is inner.child, which no code ever sets. *)

CallStop(t) ==
    /\ pc[t] = "idle"
    /\ state' = "stopping"
    /\ Goto(t, "stopping")
    /\ UNCHANGED <<osVars, pid, authUrl, child, loopVars>>

Stop(t) ==
    /\ pc[t] = "stopping"
    /\ state' = "stopped" /\ pid' = NoPid /\ authUrl' = NoPid
    /\ Goto(t, "idle")
    /\ UNCHANGED <<osVars, child, loopVars>>

-----------------------------------------------------------------------------
(* Harnesses, and time.                                                    *)

\* It binds the port, or exits because somebody else has.
Boot(k) ==
    /\ os[k] = "booting"
    /\ os' = [os EXCEPT ![k] = IF Serving = {} THEN "serving" ELSE "gone"]
    /\ UNCHANGED <<line, silent, told, spoke, statusVars, pc, child, loopVars>>

Crash(k) ==
    /\ os[k] # "gone"
    /\ os' = [os EXCEPT ![k] = "gone"]
    /\ UNCHANGED <<line, silent, told, spoke, statusVars, pc, child, loopVars>>

\* The bounds on output: a line a tick, one at a time that nobody has read.
Say(k) ==
    /\ k \notin silent \cup spoke /\ line[k] = "none"
    /\ \E t \in Tasks : child[t] = k
    /\ \E l \in Lines :
           /\ \/ l = "announcement" /\ os[k] = "serving" /\ k \notin told
              \/ l = "diagnostic" /\ os[k] = "booting"
              \/ l = "chatter" /\ os[k] = "serving" /\ "chatty" \in Mishaps
           /\ line' = [line EXCEPT ![k] = l]
           /\ told' = IF l = "announcement" THEN told \cup {k} ELSE told
    /\ spoke' = spoke \cup {k}
    /\ UNCHANGED <<os, silent, statusVars, pc, child, loopVars>>

CloseStreams(k) ==
    /\ "closed" \in Mishaps
    /\ os[k] # "gone" /\ k \notin silent
    /\ silent' = silent \cup {k}
    /\ UNCHANGED <<os, line, told, spoke, statusVars, pc, child, loopVars>>

\* A loop has something to do before time goes on.
Busy(t) ==
    \/ pc[t] = "await" /\ \/ Expired(t) \/ Exited(t) \/ Unread(t) \/ Due(t)
                          \/ Closed(child[t]) /\ waited[t] # 0
    \/ pc[t] = "grace" /\ (Unread(t) \/ captured[t] # NoPid \/ left[t] = 0)

\* A loop that spins on a closed channel enters its select! all the time.
Tick ==
    LET Waiting == {t \in Tasks : pc[t] \in {"await", "grace"}}
    IN  /\ Waiting # {}
        /\ \A t \in Waiting : ~Busy(t)
        /\ left' = [t \in Tasks |->
                        IF t \in Waiting /\ left[t] > 0 THEN left[t] - 1 ELSE left[t]]
        /\ waited' = [t \in Tasks |->
                          IF t \in Waiting /\ pc[t] = "await" /\ ~Closed(child[t])
                          THEN waited[t] + 1 ELSE waited[t]]
        /\ spoke' = {}
        /\ UNCHANGED <<os, line, silent, told, statusVars, pc, child, captured, announced>>

-----------------------------------------------------------------------------
Run(t) ==
    \/ ProbePort(t) \/ Refuse(t) \/ MarkStarting(t) \/ SpawnFails(t) \/ Spawn(t)
    \/ Deadline(t) \/ ChildExits(t) \/ ReadLine(t) \/ ReadClosed(t) \/ Probe(t)
    \/ Confirm(t) \/ ReadUrl(t) \/ GraceEnds(t) \/ PublishUrl(t)
    \/ Stop(t)

Next ==
    \/ \E t \in Tasks : CallStart(t) \/ CallStop(t) \/ Run(t)
    \/ \E k \in Pids : Boot(k) \/ Crash(k) \/ Say(k) \/ CloseStreams(k)
    \/ Tick

Spec == Init /\ [][Next]_vars

\* Tasks are polled, and time passes, whatever else goes on meanwhile.
FairSpec ==
    /\ Spec
    /\ \A t \in Tasks : WF_vars(Run(t))
    /\ SF_vars(Tick)

-----------------------------------------------------------------------------
(* Properties.                                                             *)

(* The state is Starting only while a start is under way, however starts   *)
(* and stops overlap (state.rs, Starting: "Spawned, but not yet accepting  *)
(* requests").                                                             *)
StartingMeansStarting ==
    state = "starting" =>
        \E t \in Tasks : pc[t] \in {"spawn", "await", "version"}

(* Only a harness that has bound its port is taken to have announced       *)
(* itself (readiness.rs, classify_line: "a diagnostic that happens to      *)
(* contain dsh web: is not mistaken for success").                         *)
AnnouncedHasServed ==
    \A t \in Tasks : captured[t] # NoPid => os[captured[t]] # "booting"

(* A harness that serves early enough before the deadline is found ready,  *)
(* announced or not, unless it exits first (supervisor.rs,                 *)
(* await_readiness: "a runtime that closed its streams may still be        *)
(* serving").                                                              *)
ServingIsNoticed ==
    \A t \in Tasks :
        pc[t] = "await" /\ child[t] \in Serving /\ left[t] > SlowProbe
            ~> state = "ready" \/ (pc[t] = "await" /\ Exited(t))

(* A token that is printed while start still waits for it is what start    *)
(* publishes (supervisor.rs, URL_GRACE_MS: "Returning the moment the port  *)
(* answers discards the token").                                           *)
TokenIsPublished ==
    \A t \in Tasks :
        pc[t] = "grace" /\ left[t] > 0 /\ line[child[t]] = "announcement"
            ~> pc[t] = "url" /\ captured[t] = child[t]

(* Every start and every stop returns, whatever the harness does.          *)
CallsReturn == \A t \in Tasks : pc[t] # "idle" ~> pc[t] = "idle"
=============================================================================
