# A TLA+ model of the RPC plugin system

The repository is a Go kernel that supervises plugins: each plugin is a child
process that serves `net/rpc` on a Unix socket, is authenticated with a one-time
token, is watched by heartbeats, and is replaced when it fails.  This directory
models the parts of it in which goroutines, plugin processes, timeouts and files
race with each other, checks them with TLC, and proves the most important
properties with TLAPS.

## The system and its parts

| part | source | model |
|---|---|---|
| plugin manager: one plugin's lifecycle, RPCs and fences | `internal/kernel/manager.go` | `PluginManager` |
| heartbeat monitor | `internal/kernel/monitor.go` | `PluginManager` |
| the plugin process as the manager sees it | `pkg/plugin/plugin.go`, `internal/runtime/runtime.go` | `PluginManager` |
| plugin SDK server: token file, socket, one-time token, handlers | `pkg/plugin/plugin.go`, `internal/runtime/runtime.go` | `PluginServer` |
| manager and plugin processes coming to trust each other | `manager.go`, `pkg/plugin/plugin.go` | `Bootstrap` |
| what plugin servers promise of their tokens | (abstract) | `OneTimeAuth` |
| what a manager promises its callers | (abstract) | `TrustedGeneration` |
| multi-plugin host and routing | `internal/kernel/host.go` | `Host` |
| daemon start-up and shutdown, admin RPC | `cmd/rpcplugind`, `internal/adminrpc` | `Host` |
| event log: writing and rotation | `internal/eventlog/eventlog.go` | `EventLog` |
| event log: reading beside a writer | `internal/eventlog/read.go` | `EventLogReader` |
| what an event log promises of its lines | (abstract) | `AppendOnlyLog` |
| loading and projecting provider bundle metadata | `internal/providerbundle` | `BundleLoader` |
| bundle metadata by generation | `manager.go` 706-764 | `DeclaredBundles` |
| provider events, from the plugin to the screen | `internal/eventlog/provider.go`, `read.go`, `pkg/plugin/logging.go` | `ProviderEvents` |
| daemon configuration, `NewHost`, finding a log | `cmd/rpcplugind`, `host.go`, `cmd/rpcpluginctl` | `DaemonConfig` |
| command line arguments and printing, examples, randomness, paths | the rest | not modelled, see below |

How they interact.  The host owns one manager per plugin.  A manager's exported
methods are called from any goroutine: the admin RPC handlers, the daemon's main
goroutine, and one `MonitorLoop` per plugin.  Start, Restart, Kill and Close
serialise on `lifecycleMu`, which they hold across RPCs and process waits;
everything else takes `mu` for short critical sections only, so heartbeats and
routed calls overlap with lifecycle operations, with each other, and with the
plugin process, which may bind its socket late, answer late, hang, or die.  Every
manager writes an event log, which `rpcpluginctl logs` reads from another process.
Providers hand in bundles, which are loaded while they may still change them, and
observation events; operators hand in flags and a file, and launch daemon after
daemon on the same directories.

## PluginManager

**State.**  The variables are the fields of `Manager` (`state`, `cmd`, `client`,
`rpcEpoch`, `closed`, `closedCh`, `lifecycleMu`), the locals of the operation that
holds `lifecycleMu` (`stage`, `lc`), each goroutine's position and its RPC in
flight (`pc`, `op`, `call`), the processes (`proc`, `procGen`, `conn`, `starts`),
and the two runtime files (`sockFile`, `authFile`).  `lastPub` is a history
variable.  A process, its `exec.Cmd`, its PID and the client dialled to it are
one-to-one, so one *incarnation* number names all four and 0 is nil.  Generation
ids are separate, because `rollbackGeneration` reuses them.

**Actions.**  One per critical section of `mu`, and one per piece of work outside
it that other goroutines or a plugin can tell apart:

| code | actions |
|---|---|
| `Heartbeat`, `Echo`, `Sleep`, `Crash`, `call` | `BeginCall`, `CallReply`, `CallServerError`, `CallBroken`, `CallFence`, `ApplyHeartbeat` |
| `poisonClient` | `PoisonDetach`, `PoisonClose` |
| entry of `Start`, `Restart`, `Kill`, `Close` | `Request`, `Acquire` |
| `stopCurrent` | `StopRejected`, `StopFence`, `StopShutdown`, `StopReap`, `StopReapFails`, `StopCleanup` |
| the rest of `Close` | `CloseFinish`, `CloseCleanup` |
| `startLocked` | `StartRejected`, `StartBegin`, `StartToken`, `StartTokenFails`, `StartSpawn`, `StartSpawnFails`, `StartDial`, `StartPeerCred`, `StartAuth`, `StartCapabilities`, `StartFails`, `StartPublish` |
| `cleanupFailedStart` | `StartUnwind`, `StartRollback`, `StartDiscard` |
| `MonitorLoop` | `MonitorTick`, `MonitorRecover`, `MonitorCancelled` |
| the plugin | `PluginBind`, `PluginExit` |

**Abstractions.**  Messages carry nothing but the method's kind (a heartbeat, or
work).  `Capabilities` and `SocketPath` are booleans: set or not.  A reply, an
error reply and a broken transport are free choices of the plugin; a timeout may
come at any time, also when the reply is already there.  `os.Remove` succeeds.
`cleanupFailedStart` ignores the results of Kill and Wait and the model takes them
to succeed; `StopFaults` covers the errors that `stopCurrent` reports.  Event
logging has no effect on the manager and is left out.  The provider bundle fields
that `State` and `CoreState` add to the copies they return are a function of the
state, in `DeclaredBundles`, which extends this module.

**Bounds.**  `MaxStarts` processes are created at most (then `cmd.Start` can only
fail), and no Restart or Kill is requested once `rpcEpoch` has reached `MaxEpoch`.
Three processes and two epochs are enough for a first, a replaced and a
replacing generation with a failed start before, between or after them.

## PluginServer, Bootstrap and OneTimeAuth

`PluginManager` takes the processes of one manager for granted; these modules look
at what makes a process its own.  All processes of a plugin share one socket path
and one token file, also those that an earlier start, a failed stop or a daemon that
died has left running.

**State.**  `PluginServer` has every process from its creation to its end (`life`,
`env`, `tok`, `ear`, `used`), the two paths (`sock`, `tokenFile`) and the requests,
each a goroutine of `net/rpc` (`at`, `req`).  `Bootstrap` adds the manager: `stage`
of the operation, `gen`, the child `cur`, the peer `conn` of the connection and the
token `secret`.  `grants`, `spentBy` and `mismatches` are history variables.

| code | actions |
|---|---|
| `LoadConfigFromEnv` | `LoadConfig` |
| `ListenUnix` | `ListenRemove`, `ListenBind`, `ListenChmod`, `ListenFails` |
| `ServeWithConfig`, the end of a plugin | `ListenerCloses`, `ServeReturns`, `Exit` |
| `server.Auth` | `AuthHook`, `Auth` |
| `requireAuth` and the methods | `RequireAuth`, `CoreReturns` |
| `startLocked` | `StartBegin`, `StartToken`, `StartSpawn`, `StartDial`, `StartPeer`, `StartAuth`, `StartAuthed`, `StartCaps`, `StartPublish` |
| `cleanupFailedStart` | `StartUnwind`, `StartUndo` |
| `stopCurrent` | `Stop`, `StopReap`, `StopSweep` |
| a daemon that dies and the next one | `DaemonCrash` |
| another client of the socket | `ClientCall` |

**Abstractions.**  A token is the number of the start that made it; that tokens
differ is the randomness of `auth.NewToken`.  Of an answer the model keeps whether it
carries the configured identity (`identityHook` lets a core give another).  A token
file is written in one step.  Process ids are not reused while a start is in
progress.  Locks, epochs and monitors are in `PluginManager`.

**Bounds.**  `MaxProcs` processes; `Budgets` are scenarios, each with a number of
starts, of daemons that die and of requests by other clients.

## DeclaredBundles

The metadata that `State` and `CoreState` expose: the declaration that the refresh
map has for the generation in the state, or else the static one, if it is bound to
this plugin and generation.  It changes with `PluginManager`'s `state` only.

## BundleLoader, ProviderEvents and DaemonConfig

What comes from outside.  The three never meet; one run explores them side by side.

| code | actions |
|---|---|
| `LoadProviderBundleMetadata` | `LoadBegin`, `LoadRoot`, `LoadManifest`, `LoadIdentity`, `LoadAsset`, `LoadDone` |
| the provider, at its own files | `Edit` |
| `ProviderDiagnostic` with `ProviderEvent`, `Logger.Event` | `ProviderEvent`, `LoggerEvent` |
| a plugin goroutine, at the details it handed over | `PluginStores` |
| the line in the log, and what `rpcpluginctl logs` shows | `WriteLine`, `Display` |
| `run`, `parseDaemonConfig` | `Launch` |
| `NewHost` plugin by plugin, `StartAll` | `NewManager`, `HostBuilt`, `StartAll` |
| any end of the daemon | `DaemonEnds` |
| a manager's log, renamed and opened again by `rotateIfNeeded` | `RotateRename`, `RotateOpen` |
| `resolveLogPath` without a plugin id: the root log and the directory, each candidate, the answer | `ResolveBegin`, `LookInto`, `ResolveEnd` |

`Validate`, `CoreDTO`, `AdminDTO`, `RedactForDisplay`, `resolvePlugins`,
`resolveLogPath` and the functions they call are operators of the same names.

**Abstractions.**  A text is one of the classes the code tells apart: blank, plain,
with control characters, with a marker, a host path; a path is inside the root or
not, relative or absolute.  A digest is the set of the content it was made of, empty
for no digest: distinct contents have distinct digests.  A manifest that
`parseManifestIdentity` refuses is one with the schema version "".  Details
are the set of the places in a map of any depth: `safeProviderDetails` and
`validateProviderDetailValue`, which call each other down to the last place and refuse
all for one, are a condition on every place.  The round trip through JSON turns
`[]string` into a list and a struct into a map.  An event has all of the texts that
are printed, the ones `RedactForDisplay` leaves alone (component, event, status, level,
plugin id, method) as well.  Flags and TOML are taken as parsed; one duration stands for
the three.  `Ids` is any set of ids that `ValidatePluginID` accepts, and "" is every other.
Each file is read in one step, between which the provider may replace or remove it.
Of a log `DaemonConfig` knows whether the file is there; `EventLog` has the rest of a
rotation.  Whether the runtime directory holds an `events.jsonl` of its own is open each
time `resolveLogPath` asks.  A search is followed while the daemon it began under runs,
and it is the daemon's own user who searches: the directories are closed to others.

**Bounds.**  One edit during a load, one write to details, three launches over two
directories with up to three plugins, any number of rotations and searches.  The options, observations and command lines of `MCInputs` are families
around one that is accepted: every value of every field, and the pairs of fields that
meet in a condition.

## Host

**State.**  The main goroutine's position in `run` (`main`, `idx`, `started`), the
signal context, the admin socket; of each manager what others can see of it
(`gen`, `healthy`, `client`, `cmd`, `closed`), whether a plugin process exists that
nobody has waited for (`child`), and its `lifecycleMu` (`holder`, `stage`); the
lifecycle operation that each goroutine has asked for (`ask`); the monitors and the
admin RPC handlers with the route that each request was sent on.

| code | actions |
|---|---|
| `NewHost` | `NewHost`, `NewHostFails` |
| `StartAll` | `StartNext`, `StartDone`, `StartFailed`, `UnwindNext`, `UnwindDone` |
| `run`, `Host.MonitorLoop`, `adminrpc.Serve` | `Supervise`, `Listen`, `ListenFails`, `ServeCancelled`, `AcceptFails`, `Signal`, `SignalKills` |
| `Host.Close`, exit | `CloseNext`, `CloseDone`, `Exit` |
| a manager's Start, Restart, Kill, Close | `Acquire`, `StopRejected`, `StopFence`, `StopReap`, `StartBegin`, `StartSpawn`, `StartFails`, `StartPublish` |
| `Manager.MonitorLoop` | `MonitorTick`, `MonitorHeartbeatFails`, `MonitorRecover`, `MonitorRestarted`, `MonitorCancelled` |
| admin RPC: Echo, Heartbeat, Restart | `Connect`, `RouteTarget`, `CallReplied`, `CallFails`, `RestartPlugin`, `Restarted`, `Answered` |

**Abstractions.**  An RPC to a plugin is one step, and a failing start or a stop is
two: `PluginManager` has what happens inside.  The link between the two modules is
`TrustedGeneration`: `PluginManager` implements it, and `ManagersKeepTrust` checks
that the managers of `Host` do.  Waits and kills do not fail here.  `Host.mu` is
only ever read-locked and left out.  `State`, `Routes`, `CapabilityMap` and
`CoreSnapshot` change nothing.  startLocked's rejection of a closed or started
manager cannot happen in the daemon and has no action.

**Bounds.**  `MaxGen` is the highest generation for which a process of a plugin can
be created; starts beyond it fail.  In the run one plugin can be restarted once and
the other never successfully, so a restart that works, one that does not, and an id
that is given back and used again all happen beside each other.

## EventLog and EventLogReader

**State.**  Files are numbered in the order of their creation and lines in the order
in which they are begun.  `dir` says which file is at `path` (0) and at each
`backupPath(i)`, `content` which lines are in a file, `whole` which lines have their
newline, `file` and `open` are `Logger.file`, `step` and `index` the position of the
one `Write` that the mutex admits.  `acked` are the events for which Write returned
nil; `interrupted` records that a rotation has stopped half way.  The reader has the
locals of `ReadAll` (`paths`, `rfile`, `rpos`, `events`) and two history variables.

| code | actions |
|---|---|
| `NewWithOptions` | `New` |
| `Write` | `WriteBegin`, `AppendBegin`, `AppendRest`, `AppendFails`, `Sync`, `SyncFails` |
| `rotateIfNeeded`, `reopenWithErr` | `RotateClose`, `RemoveOldest`, `ShiftBackup`, `RotateCurrent`, `RenameFails`, `Reopen`, `OpenRotated`, `OpenFails`, and the append and sync actions for the rotation event |
| `Logger.Close`, the end of the process | `Close`, `Crash` |
| `ReadAll`, `existingLogPaths` | `ReadBegin`, `ReadList`, `ReadFinish`, `ReadReturn` |
| `readOne`, `match` | `ReadOpen`, `ReadLine`, `ReadUnended`, `ReadCorrupt`, `ReadEOF` |

**Abstractions.**  A line is one unit of size and its number stands for its text; a
filter is the set of lines that match.  A write takes two steps, so that it can be
cut short by an error or a crash and be seen half done by a reader.  An open file
stays the same file when it is renamed or removed.  Crashes are those of the
process: what was written stays (an operating system crash, against which Sync
helps, is not modelled).  A stat fails only where there is no file.  The reader's
`DefaultMaxBackups` and the writer's `MaxBackups` are one constant, because all
callers use `New`.  `Faults` selects what may go wrong.

**Bounds.**  Two backups of two lines each, seven lines and four files let a log
rotate, fill up and drop a file, with a failed rotation before; the reader's run has
five lines and three files.  `MaxFiles` never stops the writer there before
`MaxEvents` does, unless a rotation fails again and again.

## Runs

| run | instance | shows |
|---|---|---|
| `manager_safety` | 2 callers and the monitor, 3 processes, 2 epochs, symmetric callers; 2.5 million states | the safety properties below and the refinement |
| `manager_liveness` | 1 caller and the monitor, 2 processes, 2 epochs, failing waits; 97 thousand states | the liveness properties, and `ClosedIsClean` when the process cannot be stopped |
| `host` | 2 plugins with their monitors, 1 admin client, from start to exit; 318 thousand states | the host's properties below, safety and liveness |
| `eventlog_writer` | 2 backups, 7 lines, all faults; 124 thousand states | the writer's properties and the refinement of `AppendOnlyLog` |
| `eventlog_reader` | 2 backups, 5 lines, crashes; 3 million states | `ReadAll` beside the writer |
| `bootstrap` | 3 processes; 3 starts and a daemon that dies, or 2, a daemon that dies and another client; 557 thousand states | the properties of the bootstrap, and the refinement of `OneTimeAuth` |
| `inputs` | see `MCInputs`; 1.7 million states | the loader, provider events and the daemon's configuration |
| `finding_log_*` | as the event log's runs, smaller | what the documents say of the log and the code does not do |
| `finding_bundle_restored` | 1 caller and the monitor, 2 processes, 2 epochs | the same of bundle metadata |
| the other `finding_*` | 2 callers and the monitor, 2 processes, 2 epochs | the same of a manager |

Safety of a manager.  `HealthyIsTrusted`: health is only ever reported of the attached,
supervised generation.  `PoisonedNotReused`: the attached client's connection is
open.  `SingleProcess`: at most one process has not been waited for.
`StoppedIsClean`: a stopped manager leaves no zombie and no socket.
`ClosedIsClean`: after Close no artifact is left.  `NoTokenWhilePublished`: no
token file while a plugin is up.  `NoReplyFromReplaced`: the fence of `call` lets
no reply of a replaced generation through, in spite of reused ids and of epoch 0.
`NoStartAfterClose`: no process is created once Close has fenced the manager.
`ImplementsTrustedGeneration`: with `trusted` as `client # nil` and `generation`
as the id of the last published generation, the manager implements
`TrustedGeneration`: trust passes from one generation to the next through nil, to
ids that grow by one, never after Close, and health follows trust.

The bootstrap.  `PublishedIsOwnChild`: a plugin that is published is the process this
start has created, given this generation, with the token of this start spent by the
manager and no token left on disk; a leftover never stands in for it, although it may
hold the path, the generation number and even the token.  `LeftoverFailsOneStart`: a
leftover can make one start fail by answering first, and no second one, because the
failed start removes the path and nobody binds twice.  `ServersKeepGate`: every server
implements `OneTimeAuth`, however its handlers overlap.

What comes in.  `ValidatesIffValid`: what a load returns passes `Validate` exactly when
the load succeeded, so a bundle is never admitted in part.  `IdentityFromDigest`: the
identity was parsed from the bytes that were digested.  `QuietLoadIsExact`: without
edits a load accepts exactly the admissible bundles and describes every file.
`AdminHidesPaths`: no point at which a load gives up leaves a host path in the admin
projection.  `DisplayRedacts`: even if it bypassed the check or was changed after
it, a provider event is shown without markers and host paths in the nine fields
`RedactForDisplay` covers and in its detail values, and without markers in its detail keys;
if it came through `ProviderEvent`, the texts that are printed as they are hold neither,
but for a marker in a plugin id.  `AcceptedIsShown`: the check and the redaction agree,
across JSON's change of types.  `HostRunsNamed`: the daemon runs all plugins of its
strongest source, or none.  `DefaultLogIsCurrent`: `logs` without an id reads the log of
a running plugin or fails, if there is no root log (which wins, as `options_test.go`
has it) and a rotation has not hidden the logs of all running plugins from it.

`DisplayRedacts` stops where the code does.  `safeProviderDetails` asks of a detail key
only whether it holds a marker, so a key that is a host path is accepted and shown,
although `docs/implementation-spec.md:249` counts "provider-private path material" among
unsafe detail keys.  And `Logger.Event` checks nothing: what a plugin passes to it as
component, event, status, level, plugin id or method is printed as it is.
`DefaultLogIsCurrent` needs its last condition too: with one plugin, a search that comes
between the rename and the open of its log finds what an earlier daemon has left, or
returns the root log, which is not there.

The host.  `ExitLeavesNothing`: however run returns, no plugin process and no admin
socket are left, although monitors and admin handlers restart plugins to the very
end.  `StartAllOrNothing`: StartAll starts every plugin or leaves none running.
`AnswerNotOlder`: an answer never speaks of an older generation than its route, and
that of a restart of a healthy plugin speaks of a later one; ids given back by
failed starts are what makes this delicate.  `ManagersKeepTrust`: see above.

The event log.  `AcknowledgedIsKept`: what Write has acknowledged stays until
retention drops it with everything older.  `TrimsOnlyWhenFull`: a file is dropped
only from a full log, unless a rotation was interrupted (each interrupted rotation
costs a backup).  `ImplementsAppendOnlyLog`: the files, oldest first, are a log that
grows at one end and shrinks at the other.  `ReadInOrder`: ReadAll returns events in
order and none twice, whatever is renamed meanwhile.  `QuietReadIsComplete`: if no
file moves, it returns every acknowledged event that matches.

Liveness.  `CallsReturn`, `MonitorRecovers` and `MonitorStops` of a manager, under weak fairness
of each goroutine's own steps (a runnable goroutine runs, the ticker ticks, every
`select` on an RPC has a timeout, dialling has a deadline and a kill ends a
process) and strong fairness of `Acquire` (`sync.Mutex` hands the lock to a waiter
that has starved for a millisecond).  Nothing is assumed of plugins: `Answer`,
`PluginBind` and `PluginExit` have no fairness.  `ShutdownCompletes` of the host: once
a signal has ended the context the daemon exits, under weak fairness of the main
goroutine and of the operation that holds a lock, and strong fairness of the main
goroutine's wait for one.  Monitors and admin clients may do what they like.
`OperationsSettle` of the bootstrap: a start or stop that has begun ends, under weak
fairness of the manager's steps alone, each of which has a deadline; plugin processes
may stand still at any point, and the path may vanish or lead elsewhere at any time.

Findings.  Each of these runs checks one sentence of the documentation, and TLC
finds a behaviour of the code that breaks it.

- `finding_epoch_zero`: calls made before the first stop carry epoch 0, the value
  by which `call` recognises the lifecycle operations' own calls; after a Kill or
  Close a late reply to such a call is accepted although the client it came over
  is no longer trusted.
- `finding_unhealthy_work`: work is sent to a plugin whose heartbeat said unhealthy.
- `finding_bundle_restored`: a restart whose start fails gives the generation id back,
  and the metadata of the stopped generation is exposed again.
- `finding_log_durable`: after a short write, or a crash in the middle of one, the
  next event is appended to the torn line; Write acknowledges it and nobody can
  decode it.
- `finding_log_read_gap`: when the writer rotates during ReadAll, a file may move to
  an index that the reader has passed; ReadAll succeeds without that file's events.

Three more disagreements are plain from the actions and have no run.  `StartPublish`
marks a plugin healthy before any heartbeat (`docs/plugin-standard-v0.md` 139-141 wants
one first).  `StartRollback` gives a generation id back, so two processes may be given
the same one (`docs/plugin-abi.md` 42: every start creates a new id); this is the root
of `finding_bundle_restored`.  `StartSpawnFails` leaves the token file
(`docs/v0.1.0.md` 37: cleanup removes stale artifacts); `Bootstrap` shows that the next
start is not harmed by it.

## Proofs

`PluginManagerProofs` proves, for any set of callers, any bounds and either value
of `StopFaults`, every safety property of the runs and the refinement.  The only
assumption is `ConstantsAssumption`.  All of them follow from one inductive
invariant, `IInv`:

- `LifecycleInv`: `stage` is "free" exactly when nobody holds the lock, a goroutine
  is at "op" exactly when it holds it, a stop has emptied `cmd` and `client` and a
  start keeps them empty until it publishes, and a closed manager starts nothing;
- `PublishedInv`: what is attached is the incarnation published last, its
  connection is open, and health implies a client;
- `GenerationInv`: the id in the state is that of the last published generation,
  or its successor while a start is in progress, and the process being started
  carries it.  This is what makes the reuse of ids harmless: an id is reused only
  if it was never published;
- `CallInv`: a call in flight goes to the last published incarnation under its id,
  or to an earlier one under a smaller id.  `NoReplyFromReplaced` needs it;
- `ProcessInv`: every process not waited for is the published one or the one in
  hand, and only the latter may still be unbound;
- `FileInv`: who answers for a socket file, and when there is no token.

None of the properties is inductive alone: `HealthyIsTrusted` after a heartbeat
needs `CallInv` (the client compared is not nil), `ClosedIsClean` after a late bind
needs `ProcessInv` (no unbound process is left), and both need `LifecycleInv`.
There is one lemma per conjunct with one step per action; `CallerFrame` and
`CallerLock` dispose of the steps by which goroutines merely enter or leave.
`Refinement` maps every step to a step of `TrustedGeneration` or to none.

`EventLogProofs` proves the writer's `LogTypeOK`, `AcknowledgedIsKept` and
`TrimsOnlyWhenFull` for any number of backups, any sizes and any faults, from
`LogConstants` alone.  Its inductive invariant `LogInv` says which file is where at
every step of a rotation: backups are in the order of their age (`AgeInv`); what the
logger holds open is the file at `path` (`HandleInv`); the place that a backup moves
to is free, except for an oldest one whose removal failed (`HoleInv`); a file that
has left is older than all that remain (`DroppedInv`); without an interruption there
is no hole but the moving one (`DenseInv`); lines are numbered through the files in
order and every line is in one (`LineInv`, `WrittenInv`).  `AcknowledgedIsKept` needs
the last three of these for its "older than", and they need the first three to pass
through the renames.

`EventLogRefinement` proves that the writer implements `AppendOnlyLog`.  The abstract log
is `AllLines`, the files joined from the oldest to the current one by the recursive
function `Prefixes`.  Nothing can be said of it but by induction, and the library's
induction theorems have an operator as a parameter, which the provers cannot fill.  The
proof takes a set in its place: `UpTo` is induction up to a number for the members of a
set, from the least counterexample that a well-founded order has (`LeastNat`).  With it
`PrefixesExist` shows that there is such a function, `PrefixesAre` gives its equations,
and `PrefixesFollow` that two lists of files which agree from some place on differ by the
same lines in front ever after.  Then there is one lemma for each thing a step does to the
files: the oldest is removed (`RemoveJoins`), one moves a path up, to a free path or over
the oldest (`RenameJoins`), a line is added to the current one (`AppendJoins`).
`LogInv` says that these are all: without `HoleInv` a rename could overwrite a file in the
middle, and without `LineInv` a line could be added that is not the largest.

`EventLogReaderProofs` proves `TypeOK`, `ReadInOrder` and `QuietReadIsComplete` of the
reader beside the writer, from the same constants.  `ReaderInv` adds to `LogInv` where the
reader is (`StageInv`, `PathInv`), that what it has still to open is newer than what it has
read, also after any number of renames (`NewerInv`), that what it has collected is in order
and before the rest (`OrderInv`), and that while no file moves every file is still to be
read or has been read as far as the reader owes it (`QuietInv`).  The order survives a
rotation because a file only ever moves to a higher path, away from where the reader goes
next; that is also how a read comes to leave a file out (`finding_log_read_gap`).

`BootstrapProofs` proves the three invariants of the bootstrap and `ServersKeepGate`
for any number of processes, starts, crashes and clients, from `ServerConstants` and
`BootConstants`.  Its invariant `BootInv` says what the manager knows at each stage
(`StageInv`), that a server has accepted as many tokens as it remembers (`SpentInv`),
that a request past the gate is in a server whose token is spent (`SlotInv`), how far
the manager's own request has come (`CallInv`) and that a process met in place of a
child is not at the path of a later start (`PathInv`).  `PublishedIsOwnChild` needs
`CallInv`: the child's Auth was answered to the manager, so the child read this start's
token and nobody spent it before.  `LeftoverFailsOneStart` needs `PathInv`.  Lemmas
reduce the many steps of processes and handlers to a few effects, each shown once to
preserve the invariant.

`InputProofs` has three parts.

The loader's four properties hold for every set of options and contents, lists of assets
of any length and any number of edits, from `BundleConstants`.  `LoaderInv` says what the
options gave (`Kept`), what each stage has established and that a load that gave up has
kept too little to pass (`Progress`), and that without edits what was read is what is
there (`Fresh`).

`HostRunsNamed` and `DefaultLogIsCurrent` hold for any ids, command lines, directories,
rotations and number of launches, from `DaemonConstants` and `ParsedCommands`: a flag that is not given
has the default that `run` declares for it.  Without that, `resolvePlugins` would fall
back on a `-plugin` nobody gave (`ResolvesNamed`).  `DaemonInv` follows the loop of
`NewHost`: the managers are the first of the plugins named, as many as there are
different ids, and the rest is still to do (`Reached`), and every manager has its log in
the runtime directory or is rotating it.  Of a search it says that each manager is still
to be looked for, has been found or was missed because of a rotation; so at the end the
one log found, if it is one, is a manager's.

`DisplayRedacts` and `AcceptedIsShown` hold for any observations, details of any depth and
any number of stores, from `EventConstants`, the types of what a plugin can pass.
`EventsInv` says that what was accepted is valid, that its texts outside the details
never change (there is nothing in them to redact), and that, until the plugin writes to it,
the event is what `ProviderEvent` returned, before or after its way through JSON.
`JSONKeepsSafe` is the reason the two checks agree: JSON makes nothing unsafe of safe
details, and of what the reader would refuse nothing was accepted.

`HostProofs` proves the safety properties of the daemon, `TypeOK`, `ExitLeavesNothing`,
`StartAllOrNothing`, `AnswerNotOlder` and `ManagersKeepTrust`, for any number of plugins,
of admin RPCs and of generations, from `HostConstants`.  Its invariant `HostInv` says

- that a manager is busy exactly while somebody holds its lock, who has an operation
  that can come to this stage (`LockInv`);
- who may ask for what: before the context is set only the main goroutine, and nobody
  else ever for anything but a Restart (`AskInv`);
- what a manager has at each stage (`ManagerInv`) and how far the main goroutine has come
  with the plugins (`PhaseInv`);
- that an id above the published one is that of a start in progress (`GenInv`), and what a
  route has read against what has been published since (`ReqInv`).

`ExitLeavesNothing` needs all of the first three: a process that belongs to no manager is
being started or reaped, by somebody who holds the lock; in a closed manager that can only
be the Close itself, and the main goroutine has none under way when it exits.  `ReqInv` is
what makes the ids given back harmless to a route that read one.  The proof reduces the
seven steps of an operation to one effect on its plugin (`OperationEffect`), RPCs to another
(`HealthEffect`), and shows once for each that the invariant survives.  The proof is in
two modules: `HostOperations` has the invariant, the lemmas on locks, the steps of
operations and the effect of RPCs; `HostProofs` extends it with the monitors, the admin
RPCs, the main goroutine and the theorems.

Every safety property and every refinement that a passing run checks is proved.  Only
model-checked are the liveness properties, `CallsReturn`, `MonitorRecovers`,
`MonitorStops`, `ShutdownCompletes` and `OperationsSettle`: they rest on fairness, for
which the prover has no rules.  The counterexamples are TLC's as well.

## Not modelled

- Text itself: the markers, patterns and path syntax by which texts are classified,
  formatting (`FormatText`, `Summarize`), printing and the parsing of arguments.  These
  are functions of one string, which unit tests reach.
- A path that is redirected between being resolved and being opened, a file that
  changes within one read, and a token file that is half written when it is read.
- Plugin ids that coincide with the daemon's own names in the runtime directory
  (`admin.sock`, `events.jsonl`): ids are model values.
- Values of durations.  A negative heartbeat interval passes `chooseDuration` and makes
  `time.NewTicker` panic; the models know only that a daemon may die.
- Randomness of tokens, constant-time comparison, file modes, checks of directories and
  executables; the peer credential stub for other systems.
- `State`, `Routes`, `CapabilityMap` and `CoreSnapshot` of the host, which read one manager
  after the other and change nothing; example and test plugins.
- Waits that fail, in `Host` (`PluginManager` and `Bootstrap` have them); an operating
  system crash, against which the log's Sync helps.
