# Verification of the DeepSeek-Harness-Router

The router runs several "dsh" harness processes on one machine, one per
*instance*: each instance has a name, a port, a workspace directory and a state
root of its own. There is no daemon. Every `router` command is an operating
system process that reads and writes a few files in the router home, starts or
kills harness processes, and exits. What is hard about the program is therefore
not any one function but what happens **between** commands: two of them at the
same time, one that is killed half way, a file that describes a process that is
gone, a port that somebody else has taken meanwhile. That is what these modules
model.

`PROJECT.json` lists components, runs, mutants, the map from definitions to
source lines, findings, hazards and theorems. Paths below are relative to
`src/crates/`.

## 1. Inventory

| Component | State | Operations | Hard part |
|---|---|---|---|
| Registry document (`router-core/src/registry.rs`) | names → port, workspace, model, sharing | `insert`, `remove`, `validate` | duplicates through other spellings of a name or path |
| Registry file (`registry.rs`, `update_registry` in `router-cli/src/main.rs`) | `router.yaml`, `router.yaml.lock`, temporary files | `load`, `save`, `RegistryLock::acquire`/drop; `init`, `add`, `edit`, `rm` | concurrent read-modify-write, kills, stale locks, power failure |
| Workspace validation (`workspace.rs`) | none | `validate_workspace`, `lexical_absolute`, `check_denied` | `..` is collapsed before links are followed; one directory has many spellings; `canonicalize` may fail |
| Port allocation (`ports.rs`) | none | `allocate` | a bind test is a snapshot of one port, and the ports change during the scan; bounds at 65535 and after 1000 probes |
| Instance lifecycle (`router-dsh/src/multi.rs`, `process.rs`, `browser.rs`, `main.rs`) | harness processes, the port, `harness-pid`, `browser-url` | `start`, `stop`, `restart`, `rm`, `add` | commands share nothing but files and the port; foreign programs; shims; timeouts |
| Single-instance supervisor (`router-dsh/src/supervisor.rs`, `state.rs`, `readiness.rs`) | `RuntimeStatus`, child, captured lines | `start`, `await_readiness`, `stop` | a biased `select!` over child, lines and timers |
| State root (`router-dsh/src/provisioning.rs`, `cmd_edit`) | `settings.yaml`; the credential file: absent, private, link to the host's | `provision`, `set_credential_sharing`, `edit` | file and registry are changed in two steps; the harness and the user write the same files |
| Control page and gateway (`router-cli/src/control.rs`, `cmd_open`) | routes, `gateway-port`, the browser's markers | `serve`, `render`, the relay's routing, `open --via-gateway` | routes captured once, page read afresh; restarted gateways; cookies shared by all ports |
| Relay (`router-relay/src/proxy.rs`) | for each request: the connection to the harness, what is read and not yet written | `forward`, `forward_http`, `forward_upgrade`, rewriting of pages and redirects | either end may go at any moment; a rewritten page loses its length; a request and its answer must agree on the encoding; two directions that end one by one |
| Router home (`router-cli/src/paths.rs`) | none | `RouterHome::resolve`, `normalise` | precedence, relative paths |
| Terminal tables (`router-core/src/term.rs`) | none | `table_fitted`, `table_capped` | shares by integer division that must add up to the terminal |
| Health, errors, configuration, messages, installers | none | formatting, lookup | – |

How they interact: commands call `update_registry` for every change of the
registry (except `init`); `start` reads the registry once, provisions the state
root, spawns the harness and waits for the port; `stop` and `rm` find the harness
again through `harness-pid` and the port; `open` and the gateway read
`browser-url`, `gateway-port` and the registry. A gateway hands each request to the relay, with
the port of the instance it found for it. Nothing notifies anybody.

What makes each correct: the registry never loses an acknowledged change and
never becomes unreadable; two instances never share a port, workspace or state
root; a process the router did not start is never recorded as its own or killed;
a harness of ours that serves is always known as ours; stop and rm leave no
harness behind; every command ends; what goes through the relay arrives whole and in order or is
seen to be cut, and keeps the browser inside its instance.

## 2. Modules

| Module | Models |
|---|---|
| `RegistryDocument` | the document, when `load`/`save` accept it, and what each command's edit does to it. No state. |
| `AtomicRegistry` | abstract specification: each command takes effect at one instant between start and answer, or not at all |
| `Registry` | the real thing: processes, lock file, drafts in memory, temporary files, kills, users who delete lock files |
| `RegistryDurability` | `Registry` on a disk that writes back data and renames in any order, and a power failure |
| `RegistryProofs`, `DurabilityProofs` | theorems about `Registry`, and about `RegistryDurability` |
| `Lifecycle` | one instance: processes, port, `harness-pid`, `browser-url`, and the commands step by step |
| `LifecycleProofs` | theorems about `Lifecycle` |
| `Supervisor` | one supervisor: `start` and `stop` by concurrent tasks, the wait for readiness, `RuntimeStatus` |
| `SupervisorProofs` | theorems about `Supervisor` |
| `StateRoot` | one state root: `provision` and `set_credential_sharing` step by step, next to the harness and the user |
| `StateRootProofs` | theorems about `StateRoot` |
| `Gateway` | gateways, their record, the routing of requests, a browser with tabs and cookies, `open --via-gateway` |
| `GatewayProofs` | theorems about `Gateway` |
| `Pipe` | abstract specification: what a reader may expect of one direction of a connection |
| `Relay` | one request, or WebSocket, through the relay: connection, headers, rewriting, streams, tunnel, errors, timeouts |
| `RelayProofs` | theorems about `Relay` |
| `Ports` | `allocate`, one bind test after the other, among programs that bind and release ports |
| `Workspace` | from a typed path to the directory it stands for, over a file system with links; the home. Nothing changes in it. |
| `Table` | a table fitted to a terminal: shares, and the rounds in which the rest is handed back |
| `AlgorithmsProofs` | theorems about `Ports`, `Workspace` and `Table` |
| `MCRegistry`, `MCRegistryDurability`, `MCLifecycle`, `MCSupervisor`, `MCStateRoot`, `MCGateway`, `MCRelay` | values of the constants for TLC |
| `MCAlgorithms` | `Ports`, `Workspace` and `Table` on many inputs |

`RegistryDurability` EXTENDS `Registry`, which EXTENDS `RegistryDocument`, and `Registry`
implements `AtomicRegistry` (`Linearizable`). `Lifecycle`, `Supervisor`, `StateRoot` and `Gateway`
are about one instance, one supervisor, one state root and the gateways; where they need the
registry, a change of it is one step, which is what that refinement justifies. `Relay` begins
where `Gateway` has found a port, and implements `Pipe` twice, once for each direction
(`Faithful`). What `Registry` takes for granted of a spelling (`Identities`) and of a new port
(`Allocatable`) is what `Workspace` and `Ports` find out: the theorem `IdentitiesAreStable` of
`Workspace` is what `DocumentAssumption` says of `Resolve`.

### Registry

`pc[p]` is where process `p` is in its command; one action per step that another
process can observe: create the lock (`Acquire`), read and edit in memory
(`LoadAndEdit`, where the closures of `cmd_add`, `cmd_edit`, `cmd_rm` are the
`...Effects` of `RegistryDocument`), create and write the temporary file
(`CreateTemp`, `WriteTemp`), rename it (`Publish`), drop the lock (`Release`).
`BeginNew` sends an `init` straight to the save, as `cmd_init` does, and `BeginEdit` fills
in the settings that were not asked for from its unlocked snapshot, as `cmd_edit`
does. A command can be killed anywhere (`Crash`); any step of the save can fail
(`SaveFails`); the lock's deadline can pass (`LockTimeout`); a user can delete the
lock file (`DeleteLock`; with `CarefulUser` only one whose owner is gone).
`lock = Stale` is a lock file left by a process that is gone, by a kill or because
`Drop` could not remove it.

Abstractions: `version` and `base_port` never change and are left out; names are
those `is_valid_instance_name` accepts; a path is a value and `Resolve` the
directory it leads to. Where `canonicalize` may fail (`Unresolved`) the workspace is recorded by
its spelling instead (`Identities`; `workspace.rs`, 337-347), at one time or at every time.
`Garbage` is every text that does not parse, including a half-written one. Reading
the file is one step: `rename` replaces it as a whole. What happens to the
credential file and to the harness before `edit` and `rm` take the lock is only a
reason to give up.

### Lifecycle

`os` says what each process id stands for: a shim (`dsh.cmd`, when `Shim`), a
harness of ours, somebody else's harness, another program, or nothing. `holder` is
the process that listens on the instance's port. `start` probes, checks ownership,
spawns, records the pid, waits, records the listener, drops its `Child` (which
kills it: `kill_on_drop`), records the URL. `stop` and `rm` classify the port
(`serving_state`), find the listener, check that it looks like a harness, kill it,
confirm, and clear the files; each of these reads is a step of its own, so anything
may happen in between. `restart` clears `harness-pid` (all that
`MultiSupervisor::stop` does in a process without a child) and goes on as `start`.

The registry is one Boolean: `RegistryIsAtomic` below is why one step is enough.
What may go wrong is the constant `Mishaps`, so every run says which mishaps its
properties survive: `again` (start for a running instance), `race` (another program
takes the port while a command runs), `slow` (no HTTP answer within the probe's
500 ms), `lookup` (netstat, lsof or ps gives nothing), `silent` (a harness serves, but its URL
has not been printed when the wait for it ends), `timeout`, `io`, `crash`, `detached`.

A shim waits for the node it started and exits after it, as a batch file does that runs node as
its last command. Three comments have it exit as soon as node runs (`multi.rs`, 709-714;
`process.rs`, 417-420; `supervisor.rs`, 473-475), and `dsh.cmd` itself is not in the repository.
That is the mishap `detached`. If it were so before the port answers, the first branch of the
biased `select!` would end every such start with `ExitedEarly`, since what it waits for is the
shim. `lifecycle_foreign`, and the theorems about foreign processes, have this mishap; the
bookkeeping of `lifecycle_quiet` does not survive it (section 3).
Harnesses may crash and other programs may leave at any time in every run.

Abstractions: one instance and one port; the token in a URL is the process that
printed it; a process id is given again only when no file, command or relative
remembers it (so pid reuse is out of scope); a Windows process keeps the id of a
dead parent, as the process table queried by `descendants_of` does.

### Supervisor

`pc[t]` is where a task is in `Supervisor::start` or `stop`: the probe of the port, the
spawn, the loop of `await_readiness` (`"await"`), `read_version` (`"version"`), the wait
for the token after the port answered (`"grace"`), the publication of the URL. The
branches of the biased `select!` are `ChildExits`, `ReadLine` or `ReadClosed`, and
`Probe`; the guard of each says that those before it are not ready. Both timers are
created anew whenever the loop starts over, which is `waited' = 0`; the deadline is not,
which is `left`. A tick is 250 ms: the fast probe is due after one, the slow one after
two, and time goes on only when no loop has anything to do. `RuntimeStatus` is `state`,
`pid` and `authUrl`; `restarts`, `version`, `ready_in_ms`, `last_error` and the stderr
tail are written for display only and left out. Updates of the status that follow each
other under the lock with nothing but the lock between are one step.

A harness prints its announcement when it serves, a diagnostic that quotes it while it
boots, and other lines with the mishap `chatty`; `closed` lets it close its streams, and
`spawn` lets the spawn fail. One line may wait to be read. `Return` drops the `Child`,
which kills it (`kill_on_drop`) unless it is a shim. A shim lives as long as its harness: one
that exits before it, as in the mishap `detached` of `Lifecycle`, is not in this module, and
would end the wait as a crash of the harness does. `MultiSupervisor::await_ready` is the
same loop; what it adds, the files, is in `Lifecycle`.

### StateRoot

`start` reads the registry once and provisions the root: it makes the directory, writes
`settings.yaml` if there is none and a model is pinned, and makes `.credentials.yaml` if there
is none, as a link if sharing is on and the host has a file, and else as an empty file.
`start` goes on for an instance that runs, and provisions again: the check of the port lets the instance's own harness pass (`multi.rs`, 448-498). `edit` refuses a running instance, changes the file first (`set_credential_sharing`: remove,
then link or write) and the registry last. A test of a file and the act that rests on it are
steps of their own. `add` and `rm` change the registry in one step and leave the root alone, as
they do; that `rm` stops the instance belongs to `Lifecycle`. `Path::exists` follows a link
(`FileExists`) and so does `fs::write` (`WriteEmpty`, `EnterKey`): an instance that shares
writes the host's file. The harness and the user write at any time, while commands run too.
`looked` remembers whether the host's file was there when the command looked.

`Mishaps`: `io`, `nolink` (no symbolic links here), `killed`, `unrecorded` (an edit that has
changed the file does not reach the registry), `removed` (the host's file). The text of `settings.yaml` is one of the
models or "the user's choice"; reports to the user are left out.

### Gateway

`serve` reads the registry (`Load`), binds, writes `gateway-port` and serves until it is
killed: `axum::serve` does not return, so nothing ever clears the record. `routes` is the
registry as it was read; the page (`Links`) is the registry as it is. A request is a document,
by a link of the page or by its URL, a `fetch`, which has a `Referer` that names the
instance, or an `upgrade`, which stands for all requests without such a `Referer` and is
routed by the markers, if there is exactly one (`CurrentInstance`). A name without a route goes
to `base_port` (`Resolve`). Markers are cookies, so the browser has one set for all gateways
whatever their ports, and they outlive the tab. `open` reads the URL of the instance, then the
record, and then probes the port. The URL is the line a harness announced itself with, and may
have no token (`bare`); `browser::read` takes it as it is, and `gateway_url` then gives up
(`NotRewritten`), so that `open` says that no control page is running, even where one is. The
comment at `main.rs`, 1426-1430 says that the caller falls back to the direct link then;
`cmd_open` does not.

Whose harness answers on a port is `up` and `registry`: an instance that runs listens on its own
port. Programs that take an instance's port are in `Lifecycle`, and gateways and instances have
different ports. `Mishaps`: `changed` (instances are added or removed while a gateway runs),
`second` (two gateways at once), `unwritten`, `slow`, `cleared`.

### Relay

Requests share a configuration that does not change, so one is modelled, from the moment the
browser asks to the moment nobody holds a connection. `handler` is where the future of the
request is: connecting, waiting for the head of the answer, collecting a page, streaming,
joining the two halves of an upgrade, or the tunnel. `HttpHead` and `UpgradeHead` are what
follows the head in one go, as nothing is awaited there: which headers pass, the redirect, the
decision to rewrite. A chunk goes from its writer to `inbox` (a socket), `held` (read, not yet
written), `outbox` (a socket) and its reader; `Fetch`, `Forward` and `Shut` carry it. `Close` is
what dropping a connection does, and its reader sees the end or a cut, depending on what
announced the length. Any end can go at any time: `Die`, `Depart`; then the futures that hold its
connection are dropped (`Cancel`) or fail (`Break`).

A harness may encode a page that it was not told it may encode (`Reply`): `is_rewritable_html`
(`proxy.rs`, 564-571) then leaves it as it is, and its URLs lead out of the instance. So
`StaysInside` says that such a page is the only one: `Accept-Encoding` is never passed on with the
request of a page that is to be rewritten; and `Faithful` says that its bytes are not touched.

Abstractions: a chunk of a page is one URL, of four kinds (below the root, already below the
prefix, below a *sibling* of it such as `/i/main2` for `/i/main`, anything else), so `rewrite`
is a function of kinds; of the headers only those are kept that change what happens; the
bodies of redirects and errors are empty; names of instances, `Host` and cookies are in
`Gateway`.

### Ports, Workspace, Table

`Ports` has one action for each bind test, and `Change` for everybody else's. `wasBusy` and
`stayedBusy` remember what other programs held at some moment of the call, and at all of them:
a scan cannot know more. The program passes no preferred port today (`main.rs`, 615);
`Prefer` is modelled as it stands.

`Workspace` has the operating system's way from a path to a directory (`Opened`: name by name,
links followed, the parent of where one is) next to the program's (`lexical_absolute` and
`normalise`: on the text). A file system is `Dirs`, `Files` and `Links`, of real paths.
`canonicalize` answers with the real path, or fails although the directory is there (`resolves`
is FALSE), and then the identity is the spelling (`canonical`). Of
`check_denied` only the comparison of the first name is kept.

`Table` has, for each column, the width of its header and of its widest value. `HandBack` is the
loop that hands out what the shares left, a character at a time.

## 3. Runs

| Run | Asks | Result |
|---|---|---|
| `registry_atomic` | do concurrent `add`, `edit`, `rm`, kills, I/O errors and stale locks keep the registry atomic and consistent, from any initial file (none, garbage, valid, two kinds of invalid), where `canonicalize` may fail for one of the spellings? Does every command end though a dead one keeps the lock? | holds |
| `registry_power` | what survives without the lock (`init`, users deleting held locks), and a power failure? Readers see whole documents; unreadable ones are left alone. | holds |
| `registry_init_race` | `init` never overwrites a registry | **violated** |
| `lifecycle_quiet` | is the bookkeeping exact when one command runs at a time and nobody starts a running instance? Does every command end, a start without its deadline? | holds |
| `lifecycle_foreign` | are foreign harnesses and other programs safe under concurrency and every mishap but `race` and `slow`? | holds |
| `lifecycle_unix` | a harness reported ready goes on running | **violated** without a shim |
| `supervisor_wait` | two tasks, harnesses that can be spawned and keep their streams open: is a harness that serves noticed, its token published, `Starting` true? | holds |
| `supervisor_mishaps` | one task and every mishap: does every call return, and is only an announcement taken for one? | holds |
| `stateroot_quiet` | one command at a time, any of which fails or is killed: is nothing of the user's overwritten, and sharing that is turned off really off? | holds |
| `gateway_quiet` | one gateway at a time, restarted on other ports, with the old record and old markers about: does each request reach the instance of its tab, and `open` the gateway, if the URL of the instance has a token? | holds |
| `relay` | a page, an asset or a WebSocket, under a prefix or not, while either end may go, the harness may be absent or answer nothing, and a page may be too long: does all that is written arrive, in order and complete or visibly cut? Does the browser stay inside its instance? Is it answered, and is every connection let go? | holds |
| `algorithms` | is the port handed out the right one, whatever other programs do meanwhile? Is a directory recognised by every spelling? Is the home where its path leads? Does a table fit? | holds |

The findings in `PROJECT.json` quote the line of the repository each violated
property comes from. Every property of a passing run has a mutant (defined next to
the definition it changes) that breaks it.

The passing runs leave out the mishaps under which their properties fail. Putting one back makes
TLC find the reason:

* `again` in `lifecycle_quiet` (`ServingIsOwned`): `start` for an instance that runs
  passes the ownership check, spawns a second harness and overwrites `harness-pid` with
  it; the second cannot bind and exits, and the first is foreign from then on. `restart`
  likewise clears the record of a harness it has not stopped.
* `silent` in `lifecycle_quiet` (`AnnouncedUrlServes`): `browser-url` of an earlier harness is
  still there when the port answers and the new URL has not come by the end of `URL_GRACE_MS`;
  `start` and `open` hand out a token nobody accepts.
* `timeout` in `lifecycle_quiet` (`StopMeansStopped`): the shim of a start that timed out
  is killed, the node it launched goes on booting, and `stop` takes the free port for a
  stopped instance.
* `detached` in `lifecycle_quiet` (each of its safety properties): the shim exits once it has
  started node, the start ends with `ExitedEarly`, and node goes on booting with nobody waiting:
  `stop` and `rm` take the free port for a stopped instance, the next start spawns a second one.
* two processes in `lifecycle_quiet` (`StopMeansStopped`, and `RemovedMeansStopped` for the
  same reason): `stop` and `rm` find the port of an instance that is being started free,
  and do not look again.
* `race` in `lifecycle_foreign` (`ForeignNotAdopted`): a program takes the port after
  `start` has probed it; the answer on the port is taken for the child's, and
  `confirm_ready` records that program. Likewise for `ForeignUntouched`: a harness
  of somebody else that takes the port between the classification and the kill of a `stop` is
  killed.
* `slow` in `lifecycle_foreign` (`ForeignUntouched`): what does not answer HTTP within the
  probe's timeout counts as Down, so `stop` does not ask whose it is and kills any harness.
* `spawn` in `supervisor_wait` (`StartingMeansStarting`): the state stays `Starting`, as a
  test of `supervisor.rs` expects (line 736).
* `chatty` in `supervisor_wait` (`ServingIsNoticed`): each line starts the timers anew, so a
  harness that keeps printing is not probed before the deadline.
* `closed` in `supervisor_wait` (`ServingIsNoticed`): a harness that has closed its streams
  makes `recv` return `None` at once, so the biased `select!` never reaches the probes and a
  harness that serves runs into the deadline, although the comment at `supervisor.rs`, 379
  says that it falls through to the probe.
* `CarefulUser = FALSE` in `registry_atomic` (`MutualExclusion`): a user who follows the advice of
  `LockTimeout` while the owner of the lock is merely slow lets a second command in.
* two processes in `stateroot_quiet` (`HostKeysKept`, and the other properties one by one):
  `start` finds no credential file, an `edit` links one, and the empty file of that `start` is
  written through the link, into the host's. Nothing locks a state root.
* `HostKeysKept` is about a host's file that was there when the command looked. Without that
  restriction it fails with `removed`: the instance runs and shares, the host's file is removed,
  a second `start` looks through the link that now leads nowhere, the harness writes a key through
  it, and the `start` empties what it wrote. Nothing is between the look and the write in
  `provision` (`provisioning.rs`, 221) that would notice.
* `PrivateIsUnreachable`, which no run checks, in `stateroot_quiet`: `rm` leaves the state root
  and the link in it, so an instance that is added later under the same name and marked private
  reads the host's credentials. The theorem `PrivateStaysUnreachable` is without `rm`.
* `changed` in `gateway_quiet` (`OwnInstance`): a port that is given to another instance is
  still the route of the old one, and the link to an instance that was added since leads to
  whichever has `base_port`.
* `cleared` in `gateway_quiet` (`OwnInstance`, `UpgradesFindTheirWay`): without its marker an
  upgrade of an open tab is turned away, or routed to the only instance opened since.
* `second` in `gateway_quiet` (`RefusedOnlyWithout`): the second gateway overwrites the record;
  when it ends, `open` does not find the first.
* `slow` and `unwritten` in `gateway_quiet` (`RefusedOnlyWithout`): `open` refuses. A gateway that
  renders its page probes every instance, each for up to 500 ms. The comment at
  `control.rs`, 85 says that without a record `open` falls back to the direct URL; `cmd_open`
  does not.
* a `sibling` among the `Locations` of `relay` (`StaysInside`): `reattach_prefix`
  (`proxy.rs`, 740) leaves a redirect alone that *starts with* the prefix, so one to `/i/main2`
  leaves `/i/main`; `needs_prefix`, for the URLs of a page, looks for the end of the name.
* no fairness of `Finish` in `relay`: a harness that stops in the middle of a page, and does not
  exit, is waited for without limit (`AnswersCome`), as `request_timeout` ends with the head of
  the answer; and a tunnel whose harness does not close after the browser's end stays open
  (`ConnectionsEnd`), as it has no idle timeout.

`UpgradesFindTheirWay` is as weak as the code makes it: a marker outlives its tab, so in a
browser that has opened two instances at any time every upgrade is turned away. In `StateRoot`
a model that is edited after the first start is never applied, as `settings.yaml` is only
written when absent; `main.rs`, 1922 says that changes apply at the next start.

What the pure parts show, and where they stop:

* `link/..` is the directory the link is in, for the program, and the parent of its target, for
  the operating system. `IdentityIsPhysical` therefore speaks of paths in which each `..`
  leaves a directory by the way the path entered it. In all others identity and start directory
  still agree with each other. The test of a user's home is missing: a relative `HOME` gives a
  relative router home, which depends on the directory of the command; the runs have absolute ones.
* If `canonicalize` fails, two spellings of one directory are two workspaces, as `workspace.rs`
  says at 76-79 ("it compares what it can see"). `DirectoriesDistinct` and `IdentityIsPhysical`
  say that this is the only way to that: one of the two is then recorded by its spelling.
* "The guarantee is absolute" (`term.rs`, 651) holds if the headers and the columns that may not
  shrink fit, and only then. A flexible column with an empty header and nothing granted is not
  capped at all; no caller has one. `list` lets three columns shrink, the name among them,
  though its comment (`main.rs`, 1213-1218) speaks of two.
* `pad` counts escape sequences, which `visible_width` does not, so coloured values of different
  lengths in one column would not line up; `list` colours a marker one character wide.

Two more things the registry does are outside its runs. `edit` writes the setting it was
not asked for from its unlocked snapshot (`main.rs`, 1853-1866), so it can undo a concurrent
edit of that setting; for `Linearizable` this is an edit of both. And names that differ only
in case are distinct in the registry but lead to one state root where the file system
ignores case.

**Bounds.** Two processes, two names, four spellings of two directories and two
ports are enough for the registry: a lost update needs two writers, a duplicate two
entries, an alias a third spelling, one that may not be resolved a fourth (only in
`registry_atomic`), and an exhausted port range is one that two
entries use up. Commands repeat without limit, so histories are unbounded. In
`Lifecycle` two commands run at once over four process ids, or one command over
six: a shim and its harness, an orphan and the pid a file still names, a
foreign program. `Room` is the only bound in a guard: a start spawns only if there
are two ids left, and else fails to spawn. `Supervisor` has a timeout of three or four ticks
and a grace of one or two, so that both probes, the deadline and the end of the grace can
each come first; two overlapping starts need two harnesses, and `Room` lets a start begin
only if there is a process id for it. `StateRoot` needs
no more than one process for what holds and two models, to tell a pinned one from another.
`Relay` has one chunk up and two down, and pages of at most one chunk are rewritten: enough
for a chunk in each of the three places it can wait, for one that is lost behind one that
arrived, and for a page that is too long. `Ports` has seven ports, of which three are tried, and
one change by others, so that the window can begin below, at and beyond the last port (the
theorem has none of these bounds). `Workspace` has every path of up to four names over a file
system with a link up, a link down and one to nothing, from four directories, each as an initial
state of its own; `Table` has tables of three columns, one that does not shrink and two, or one,
that do, with values up to five wide, on terminals up to 16. Of these, too, the theorems have none.
`Gateway` has one gateway that is restarted on either of two ports, so that a record can be
stale or right again, and two instances and two tabs, so that there is another one to be
confused with. Symmetry is used only where no liveness property is checked.

**Deadlock** is checked in every run but `relay` and `algorithms`: a request is over, a port
chosen, a table fitted.

**Fairness.** `registry_atomic` assumes weak fairness of the steps a command takes on
its own (`Proceed`): it is a running process, and `acquire` polls and has a
deadline. No failure is assumed fair, except that a held lock runs into its deadline
if it stays held. `lifecycle_quiet` assumes it of commands, and of a harness taken as
a whole: it boots, and then binds its port or exits. `Supervisor` assumes that
the runtime polls every task (`WF` of `Run`) and that time passes (`SF` of `Tick`, as a
harness may prevent a tick again and again by printing, but no more than once a tick). `relay`
assumes that its tasks are polled and its timers run out, that whoever is there reads, and that a
harness finishes a page it has begun and closes a WebSocket whose other end has closed; not that
it answers, nor that anybody writes.
Nothing is assumed of users, kills, foreign programs or harnesses that run.

## 4. Proofs

All theorems hold for any sets of processes, tasks, names, ports, paths, models, initial
files and commands, for any timeouts, any tree of directories and links, and any table. The assumptions on constants are
`DocumentAssumption`, `RegistryAssumption`, `LifecycleAssumption`, `SupervisorAssumption`,
`StateRootAssumption`, `GoneAssumption`, `GatewayAssumption`, `RelayAssumption`,
`PortsAssumption`, `WorkspaceAssumption` and `TableAssumption`. What a theorem assumes of the mishaps is its hypothesis.

**`RegistryProofs`.** Five inductive invariants, each as weak as its theorems allow.

* `SaveInv`: types, and in each phase of a save what the draft and the temporary file
  hold. It needs no lock, because no two processes write one temporary file. From it:
  `TypeCorrect`, `ReadersSeeWholeDocuments`, `PublishesConsistently` and
  `LeavesUnreadableAlone`. `OnlyPublishWrites` reduces each action property to one
  action.
* `LockInv`, for careful users: whoever is inside `update_registry` owns the lock
  file. `MutualExclusion` alone is not inductive, since it does not say who may remove
  the file. From it: `LockExcludes`.
* `EditInv`, where moreover no `init` can race with a first save (`NoInitRace`: the
  registry exists from the beginning, or nobody types `init`): what is about to be
  saved is an effect of the command on the file as it is now. From it `DraftsAreCurrent`,
  and `RegistryIsAtomic`: `Publish` implements `Apply`, and every other step `Invoke`,
  `Refuse`, `Answer`, `Die` or a stutter. `registry_init_race` shows why:
  without `NoInitRace` an acknowledged `add` is lost.
* `PhysicalInv`: stored workspaces are physical paths, or spellings that may not be resolved, so
  distinct ones of the first kind are distinct directories. From it `DirectoriesStayDistinct`, if
  the initial file is of that kind.

`EntriesStay` takes `EntriesOnlyLeaveByRm`, which `registry_init_race` refutes, and proves it
with `EditInv`: each command's effect on the document as it is now removes no entry but
`rm`'s own (`OnlyRmRemoves`). So the `init` race is the only way to lose an instance. What it
costs at most is `OnlyRmAndInitRemove`, for careful users and any commands: `InitRaceInv` says
that a draft is an effect on the document as it is now, or that an `init` has emptied the
document since, and then there is nothing left that saving the draft could lose. From the same
invariant `InstancesKeepTheirPlace`: what a save leaves registered keeps its port and workspace.
Each edit's effect leaves them alone (`EffectsKeepPlaces`), and after an `init` nothing is
registered that could be moved.

**`DurabilityProofs`.** A step of `RegistryDurability` is a step of `Registry`, or a power
failure (`DurableSteps`), so the lemmas of `RegistryProofs` carry over and only the failure is
new. `DurableInv` adds to `SaveInv` that whatever a rename puts in place has its data on the
device (`sync_all` comes before it), so that the device has the registry itself or, if the
registry loads, an older one that loads. With it no power failure leaves a torn file
(`PowerFailuresTearNothing`, `ReadersSeeWholeDocumentsAfterwards`), or brings anything back
over a registry that did not load (`LeavesUnreadableAloneThroughout`). The lock, the drafts and
the directories keep their guarantees under the hypotheses they have without failures
(`LockExcludesAfterwards`, `DraftsAreCurrentAfterwards`,
`DirectoriesStayDistinctAfterwards`); `Linearizable` does not, as a failure may take back what
was answered with "ok". What is left of it is `DurableRegistryIsAtomic`: the specification
implements `AtomicRegistry` next to a `device`, which `Commit` sets to the document as it is and
`BringBack` puts in its place while all commands die. So a failure takes back only what came
after some instant, all of it, and never a part of it.

**`LifecycleProofs`.** First for any number of commands at once. `KillInv`: a process a start
has spawned or a stop aims at is not somebody else's program, and no foreign process has a
parent among ours. With types it gives `OthersStayUntouched` under every mishap. `GuardInv`
adds, without `race`, that a foreign process is nowhere where a start would take it for its
own: it is not in `harness-pid`, and while a start is past its check of the port, no foreign
process holds it. It gives `ForeignStaysUnadopted`. Without `slow` the same is true of what a
`stop` aims at, hence `ForeignStaysUntouched`. `ShimInv`: with a shim, what a start has spawned
is a shim, and a shim never holds the port; so the kill at the end of a start hits nothing that
serves (`ReadyLeavesItRunning`), while `lifecycle_unix` shows what it hits without one.

`UrlsAreOurs` with `KillInv` gives `AnnouncedUrlsAreOurs`, under every mishap: a token comes into
`browser-url`, and into what a start has read, only from the output of a child of ours, so it is
never that of a program on the port, even where the URL is stale or belongs to a harness that has
lost a race for the port.

Then for commands that come one after the other (`OneAtATime`), any number of them, with any
process ids. These hypotheses are as weak as they can be: with two commands at once, or with any
one of the mishaps a theorem excludes, TLC refutes its property on a small instance.

* `AloneInv` says, for each phase, where a harness of ours can be: while no start is under way,
  only on the port; before a start spawns, nowhere; after that, in the family of the child it
  has spawned (`Launched`), and once the port has answered, on the port again (`Served`). It
  assumes `Unhurried`: `again` puts a second harness beside the first; after a `timeout` or a
  `crash`, or behind a `detached` shim, it goes on booting with no command that waits for it; and with `race` a
  foreign program's answer ends the wait before the harness has bound. It needs neither that
  probes and lookups answer nor that files are written. From it `OneHarnessRuns` and
  `StopStopsTheHarness`: that the port is free is proof that there is none.
* `OwnInv` adds that `harness-pid` names the child while a start waits, and whoever has the
  port, or its parent, whenever a command relies on it. It assumes `Untroubled`, no mishap but
  `silent`: an unwritten file (`io`) or a lookup without answer leaves the record of an earlier
  harness, and `slow` makes `rm` skip the stop. From it `ServingStaysOwned` and
  `RmStopsTheHarness`.
* `UrlInv` adds that the URL line a start has read came from the family of its child, and from
  whoever has the port when it is published. It assumes `Talkative`, with `slow` and `lookup`
  but without `silent` and `io`. From it `StartAnnouncesWhoServes`.

**`SupervisorProofs`.** `LoopInv`: types, a task has a `Child` exactly while it waits, and a
line that is unread belongs to the child of some task. It gives `SupervisorTyped`.
`StartingMeansStarting` is inductive with it: whoever else starts or stops, the start that
wrote `Starting` last either still waits or has overwritten it; the theorem
(`StartingIsUnderWay`) assumes that spawns succeed. `AnnounceInv` adds to `LoopInv` that a line
which announces a harness is only ever pending while that harness has bound its port
(`AnnouncementsAreTrue`), from which `AnnouncementsAreBelieved`. `TokenInv`: no two starts own
the same child, and what one has captured came from its own. It gives `TokenIsNotLost`, what
`TokenIsPublished` says short of its liveness: a token that is in the channel in time is read,
and kept until it is published, because a tick waits for the reader and nobody else drops that
child's lines. That the start does go on remains with TLC.

**`StateRootProofs`.** All but `StateRootTyped` assume one command at a time (`OneAtATime`),
without which TLC refutes them. `RootInv` says what a command knows in each phase: that the
settings are absent when it is about to write them, that no link, or one to nothing, is there when
a file is about to be written, that none is left when a private entry is recorded, that a harness
is about to be spawned only next to a file, and that one that runs still has such a file. It takes
the harness that may run while a `start` provisions again into account. The link to nothing may lead
somewhere by the time of the write, if the host's file was missing at the look; so `HostKeysStay` is
about files that were there then, whoever writes or removes them meanwhile. From it too
`SharingReallyStops`, `HarnessesStartWithFile`, `ChoicesStay` and `KeysStay`. `LinkInv` adds that a link is there only
for an entry that shares, or while an edit is under way that shares or is about to remove it;
it gives `PrivateStaysUnreachable`, without `rm` and without edits that are cut off before
they are recorded.

**`GatewayProofs`.** `MarkInv`: a tab that shows an app is marked, so its requests carry the
marker; it needs that no cookies are cleared under an open tab. `UpgradesAreRouted` follows.
`RouteInv`: ports are distinct, and the routes of a gateway that runs are the registry, if that
keeps still meanwhile; with `MarkInv` it gives `TabsStayApart`, for any number of gateways.
`OpenInv`: one gateway, whose record is right once it serves, and what `open` has read is the
port of every gateway it could have found; it gives `RunningGatewayIsFound`: where one runs all the
time, `open` refuses only if the URL of the instance has no token.

**`RelayProofs`.** For any requests, redirects, harness and bounds, and whichever end goes when.
`CarryInv` says where the bytes are: what was read, then what waits in `outbox`, `held` and
`inbox`, in this order, is what was written (`Carried`), or, once a collected page has been
rewritten, what is to be shown of all of it; whether each stream may be seen as ended follows
from the phase of the handler (`PhaseInv`, `Complete`, `NotBefore`, `Ended`). That `Pipe` is
implemented is not inductive without it, since `Pipe` knows nothing of what is on the way. From it
`RelayFaithful`: each step is, in each direction, a step of `Pipe` or none. `EncodingInv` (the
harness never gets the `Accept-Encoding` of a request whose answer may have to be rewritten) and
`LocationInv` give `RelayStaysInside`, if no redirect goes to a sibling.

**`AlgorithmsProofs`.** `Tried`: every port of the window below the one to be tried next was an
instance's or busy at some moment since the call began, and so was the preferred one once the scan has begun.
`AllocatesRight` follows, for all numbers of ports, reserved ports, probes and changes.

Paths and sums of widths are functions of sequences defined by recursion, so what they compute is by
induction. The library's induction theorems take an operator, which none of the provers can
instantiate; that inclusion of finite sets is well-founded (`FS_StrictSubsetOrderingWellFounded`)
has no such parameter. Applied to the intervals `1..n` it gives a least element of every set
of numbers (`LeastNat`), hence `Induction` for sets of numbers and `SeqInduction` for sets of
sequences, and `FoldExists`: the recursive definition has a solution, so that its equation may be
used (`OpenedDef`, `lexicalDef`, `normaliseDef`, `TotalDef`).

* Of a path in which each `..` leaves a directory by the way the path entered it, what the system
  finds there is what it finds at the collapsed path (`PlainPathsCollapse`, by induction on
  its length). From it `WorkspaceIsPhysical` and `HomesAreFound`. A real path collapses to itself
  and leads to itself (`RealIsCollapsed`, `DirsAreThere`), hence `IdentitiesAreStable`: what is
  recorded leads to a directory that stands for itself, and typed again is recorded the same as
  long as `canonicalize` answers. A spelling that was recorded when it failed may lead elsewhere
  once links change; nothing here says that it does not.
* `TableInv`: no column is granted more than it would like; what is granted and what is left add up
  to the budget (`Handed`), because shares rounded down add up to no more than it (`TotalOfShares`);
  and in a round that has given nothing, every column whose turn is over has all it
  would like (`Full`). From it `TablesAreFitted`. `RoundsEnd` is what can be proved of termination
  without fairness: within a round there is always a column whose turn it is, and each step
  lessens `Work`, a natural number.

**Only model-checked:** the liveness properties (`CommandsTerminate`, `CommandsEnd`,
`ServingIsNoticed`, `TokenIsPublished`, `CallsReturn`, `ChunksArrive`, `AnswersCome`,
`ConnectionsEnd`), since the prover has no rule for `ENABLED` and hence none for fairness. Every
other property of a passing run, each invariant, action property and refinement, has its theorem.

## 5. Not modelled, and the plan

In this order:

1. A composition of `Lifecycle` with `AtomicRegistry` for two instances (a port given to a
   new instance while an orphan of a removed one still boots), and of it with `StateRoot`
   (`edit` and `start` at the same time) and `Gateway` (a foreign program on a routed port).
2. Proofs: of `Lifecycle`, what is left of `AloneInv` when one of the mishaps it excludes does
   happen: which harness is unknown then, and which command comes upon it again.
3. Reuse of process ids in `Lifecycle`: `terminate_pid` (`process.rs`, 526) sends KILL to the
   same id up to two seconds after TERM, when it may name another process.
4. A harness that dies after it was ready, in `Supervisor`: nobody waits for its `Child`, so the
   state stays Ready and a later start returns at once.
5. `health.rs`, which no command uses yet, and the dates of `iso8601_from_unix`.

Left out for good: messages, colours, the text of headers and pages, spellings for Docker,
installers, and the commands that only report (`list`, `status`, `logs`, `doctor`).
