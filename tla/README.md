# A TLA+ development of the flotta device worker

The device worker (`cmd/device-worker`) runs on an edge device as the
`device` worker of the yggdrasil dispatcher. It receives the device's
configuration over gRPC, makes the device follow it (pods, metrics, logs, data
transfer, mounts, the operating system), and reports what runs. This directory
holds TLA+ modules of its core, the instances TLC checks, and the theorems TLAPS
checks about it.

Paths below are relative to the repository's `src/` directory.

## 1. Inventory

`main` builds every component, registers most of them as observers of the
configuration manager **in a fixed order** (each registration calls the
observer's `Init` at once), then starts either the heartbeat or the registration,
then the listener for graceful reboots, then the gRPC server.

| Component | State it keeps | Operations | What is hard about it |
|---|---|---|---|
| Device server `internal/server` | an unbuffered channel, one consumer goroutine | `Send`, `NotifyEvent`, `Disconnect` | `Send` answers before its message is on the channel; the order of two messages is not that of the calls; deregistration runs beside the consumer |
| Configuration manager `internal/configuration` | configuration in memory, `initialConfig`, `device-config.json`, the observers | `RegisterObserver`, `Update`, `Deregister` | observers first, file second, memory last: a failure or a crash between any two; a truncated file |
| Workload manager `internal/workload` | `managementLock`, manifests and auth files, events queue, `deregistered` | `Init`/`Update`, `StopWorkloads`, `Deregister`, `ListWorkloads`, `PopEvents` | a dozen calls per workload, each may fail; ends only in podman and systemd |
| Wrapper, id mapping, services `workload/wrapper.go`, `workload/mapping`, `internal/service` | pod ids and services in memory and in two files, systemd units | `Run`, `Remove`, `Stop`, `Start`, `List` | three records of the same pod (memory, file, podman), and units that replace the pod themselves |
| OS manager `internal/os` | requested commit, flags, two channels | `Init`/`Update`, `GetUpgradeStatus` | the reboot handshake with `main`'s listener, a timeout that races the answer, greenboot's rollback |
| Registration `internal/registration` | `registered`, workload token, certificate and key files | `RegisterDevice`, `RenewCertificate`, `Deregister` | retries for ever in goroutines, a certificate and a key written one after the other |
| Heartbeat `internal/heartbeat` | ticker, previous hardware data, previous period | `Start`, `Update`, `pushInformation`, `Deregister` | events and hardware changes are taken before they are delivered; two goroutines push |
| Ansible manager `internal/ansible`, `ansible/mapping` | events queue, mapping of playbooks to files, a WaitGroup | `Update`, `ExecutePlaybook`, `ExecutePendingPlaybooks`, `WaitPlaybookCompletion`, `Deregister` | execution timeouts, channels with no reader after one, playbooks that outlive a crash |
| Ansible event dispatcher `ansible/dispatcher` | a list | formatting of events | nothing: pure formatting |
| Metrics `internal/metrics` | the store, its targets and their goroutines | `AddTarget`, `DeleteTarget`, `Deregister` | the system's target and those of the workloads are in one map, by name, changed by three goroutines; a target deleted before its goroutine starts; a store closed twice |
| Remote write `metrics/remote_write.go` | last written range in a file, client, configuration | `Update`, `Write` | a range is sent before its position is stored; the store changes between two questions, and a read error is not asked for |
| Logs `internal/logs` | transports, each with a bounded buffer and a goroutine, and a writer per workload | `Init`, `Update`, `WorkloadStarted`, `WorkloadRemoved` | maps without a lock, changed by the consumer and by the event goroutine; streams that outlive their transport |
| Data transfer `internal/datatransfer` | the storage object, the times of the last successful syncs | `Start`, `Update`, `WorkloadRemoved`, `Deregister` | an object that two goroutines connect, use and disconnect, and that an update replaces |
| Mounts `internal/mount` | none: it compares with the machine | `Update` | what it compares with was read before the first mount, from the output of `mount`, of which it skips the lines it cannot parse and compares the directories as text |
| Hardware `internal/hardware` | none | `GetHardwareInformation`, the difference of two readings | which part the operator already has |
| Netfilter, volumes `workload/network`, `internal/volumes` | none | thin wrappers of `nft` and of paths | nothing beyond failing calls |

How they interact:

* the dispatcher calls the gRPC server; `Send` starts a goroutine per message, and
  the consumer calls `Manager.Update`, which calls every observer **one after the
  other** on that goroutine;
* `NotifyEvent(RECEIVED_DISCONNECT)` calls `Registration.Deregister` on a gRPC
  goroutine, which calls the `Deregister` of the workload manager, then the
  configuration manager, then the others; an error in one never stops the rest;
* the workload manager's `managementLock` and each observer's own lock are the only
  mutual exclusion between these two;
* `OS.Update`, on the consumer goroutine (on `main` itself during `Init`), asks the
  listener goroutine over an unbuffered channel to stop the device's work and waits
  ten seconds for its answer on another;
* podman's events reach the workload wrapper, whose event goroutine calls the
  observers of the workloads (logs, metrics, data transfer) **one after the other**;
  nothing but their own locks orders this goroutine and the consumer;
* after a crash systemd starts the worker again; it has `device-config.json`,
  `workload-mapping.json`, `services.json`, the manifests, and whatever podman,
  systemd and rpm-ostree hold.

What makes each component correct, as far as it is stated below:

* *configuration*: the observers, the memory and the file agree whenever no update
  is running; nothing is on disk that the observers were not handed; a message is
  never forgotten by a living process; a deregistration is final;
* *workloads*: what is recorded of a pod still finds the pod; a failure of one
  workload costs no other; what an operation reports as done is done;
* *graceful reboot*: the work is stopped only when there is a deployed upgrade to
  reboot into (or none was named), the machine is not rebooted before the work is
  stopped (unless time is up), and `OS.Update`, which the consumer goroutine waits for,
  comes back;
* *remote write*: every sample behind the stored position was accepted or refused, or
  passed unread in one of three ways the code leaves open; none is sent twice while
  nothing fails; one routine runs while a receiver is configured;
* *heartbeat*: one ticker; an event is told at most once; the operator has the
  whole hardware before it gets changes, and a change is computed from what it has;
* *registration*: the certificate and the key on disk belong together and are those
  in memory; an approved device is registered in the end;
* *playbooks*: one that completed is not executed again; a handler comes back whatever
  the playbook does; what ran when `main` called `WaitPlaybookCompletion` has ended when
  that returns;
* *metrics*: what is scraped is there to be scraped; the system's target, its exporter
  and the retention of the store are what was configured;
* *logs*: the output of a workload that runs is followed once, into the transport it
  names; a line is delivered, or given up at a full buffer, and never lost or doubled;
* *data transfer*: what a synchronisation copies goes through a connected object (it
  does not, see finding 5); a workload that is gone is forgotten;
* *mounts*: a place shows the device configured for it, and no mount hides another where
  `mount` lists the place by its name.

`PROJECT.json` lists the components with their status, and every hazard met while
reading the code, at its line, with the properties that cover it.

## 2. Modules

| Module | Models | The code |
|---|---|---|
| `DeviceConfiguration` | the gRPC server, `configuration.Manager`, `Registration.Deregister`'s order, crashes | `internal/server`, `internal/configuration`, `registration.go:310-331` |
| `ConfigurationService` | the abstract specification `DeviceConfiguration` implements | the same, as its users see it |
| `WorkloadManager` | `manager.go`, `wrapper.go`, `mapping.go`, `systemd.go` over podman and systemd | `internal/workload`, `internal/service` |
| `GracefulReboot` | `OS.Update` and `main`'s listener, with the machine | `internal/os`, `cmd/device-worker/main.go` |
| `RemoteWrite` | the routine, its ranges, tries and position, over a store that changes | `metrics/remote_write.go`, parts of `metrics/metrics.go` |
| `WriteRange` | the writer with the loop of `writeRange` over the series the store returns; implements `RemoteWrite` | `metrics/remote_write.go:308-336, 349-450, 499-531`, `metrics.go:119-173` |
| `Heartbeat` | the ticker, reconfiguration, a push step by step, the operator's view | `internal/heartbeat` |
| `Registration` | enrolment, retries, the certificate and its key on disk | `internal/registration` |
| `AnsiblePlaybooks` | the handler, the runners, the mapping and a restart | `internal/ansible/ansible_manager.go`, `ansible/mapping` |
| `Metrics` | the targets of the metrics daemon, the observers that set them, the store's retention | `internal/metrics` (`daemon.go`, `system.go`, `data_transfer.go`, `workload.go`, `metrics.go`), the events in `workload/wrapper.go` and `podman.go` |
| `ObserverBus` | the consumer and the event goroutine, as the next three see them | `internal/configuration`, `workload/wrapper.go`, `podman.go`, `main.go` |
| `WorkloadLogs` | transports, buffers, writers | `internal/logs` |
| `DataTransfer` | the synchronisations of the ticker and of the events, the storage object | `internal/datatransfer` |
| `MountManager` | the loop over the configured mounts, and what it can read of those there are | `internal/mount` |
| `WorkloadObservers` | the three together, with the pods they are told of | |
| `MC...` | the values TLC gives the constants | |
| `MCOperation`, `MCLifecycle` | `WorkloadManager` or `Heartbeat`, `Registration` or `GracefulReboot`, one of the two in each behaviour | |
| `...Proofs` | the theorems about the module of that name (section 4) | |
| `LifecycleProofs` | the theorems about `Registration` and `GracefulReboot`, which share no state | |

`WorkloadLogs`, `DataTransfer` and `MountManager` each extend `ObserverBus`, which holds
what they share, and `WorkloadObservers` extends the three and conjoins their steps with
what each leaves alone. `WriteRange` extends `RemoteWrite` with the loop that fills its
requests and is shown to implement it; `DeviceConfiguration` instantiates
`ConfigurationService` and implements that. The others stand alone. Two pairs of them
share no state and are checked in one run each: `MCOperation` and `MCLifecycle` choose one
of the two at the start (`part`) and take its steps only, so that every behaviour is one
of the module chosen. Where two modules meet the same code, one has it in detail and the
other only what it needs of it (`Registration` has what a deregistration does to the
registration, `DeviceConfiguration` the order of the deregistrations; `WorkloadObservers`
makes and removes pods in one step each, `WorkloadManager` call by call).

An operator whose comment begins with "Mutation:" is a plausible mistake in the
operation that follows it. No specification uses it: it is what the property named
beside it in `PROJECT.json` must be able to tell from the code.

### DeviceConfiguration

*State.* `spawned` are the goroutines `Send` started that have not reached the
channel, `blocked` those parked on it (Go serves them in that order). `pc`, `msg`
and `next` are the program counter of the consumer in `Manager.Update`: `idle`
(receiving), `notify` and `inside` (the loop over the observers, the second while
one runs), `open` and `write` (`os.WriteFile`, which truncates first), `swap`
(the assignment of the memory). `held[o]` is the message observer `o` was last
handed by its `Init` or `Update`; an observer that returns an error was handed the
message too. `memory`, `initial`, `file` are the manager's. `closing` is the
program counter of `Registration.Deregister`.

*Actions.* `Boot`, `RegisterObserver`, `Serve`: `NewConfigurationManager` and `main`.
`Send`, `ReachChannel`: the handler and its goroutine. `Receive` takes a message and
decides (`ShouldUpdate`) whether it changes anything. `BeginObserver`,
`SkipDeregistered`, `EndObserver`, `FinishObservers`: the loop. `OpenFile`,
`WriteFile`, `FailSave`, `Swap`: the end of `Update`. `Disconnect`,
`DeregisterWorkloads`, `DeregisterConfig`, `DeregisterOthers`: the deregistration,
the first under `managementLock`. `Crash`: all but the file is lost.

*Abstractions.* A message is a version and a content; the content stands for the
three parts `Update` compares, and the version for the rest. The messages are
well-formed and the configuration file, when it exists, is readable. What an observer
does with a message is its own module's matter.

### ConfigurationService

What the configuration path promises, without its goroutines, its channel and its file:
the worker runs on one configuration (`current`) and a restart begins with another
(`durable`); `Hand` gives one to an observer; `Save` and `Adopt` need that every observer
that is not `excused` was handed it; `Lose` is the default configuration taking the place
of the durable one, which is all that an interrupted save and a deregistration are to a
restart; `Stop` may come at any time. `DeviceConfiguration` implements it
(`ImplementsService`): `durable` is what a start would load from `file`, `current` is
`memory`, `excused` the observers that are `Deaf`.

### WorkloadManager

*State.* `phase`, `step`, `cur` and `todo` say which operation holds
`managementLock`, which call it makes next, for which workload, and which workloads
are left in its loop. `manifest`, `authFile` are the workload's directory; `pod` and
`unit` are podman's and systemd's; `mapping`/`mappingFile` and
`service`/`serviceFile` the two records with their files. A pod id is `live` when it
is that of the pod that exists, `stale` when it is that of one that is gone: this is
all the code's decisions depend on.

*Actions.* `BeginUpdate`, `NextWorkload`, `StoreManifest`, `ManageAuthFile` are the
first half of `Update`; `RemoveService`, `RemovePod`, `Unmap` are `Workload.Remove`;
`RunPod`, `AddMapping`, `AddUnit`, `StartUnit`, `RecordService`, `ReportPod` are
`Workload.Run`; `ListDeployed`, `PruneWorkload`, `EndUpdate` the second half of
`Update`. `BeginStop`, `StopPod`, `EndStop` are `StopWorkloads`; `BeginDeregister`,
`RemoveNext`, `AllRemoved`, `DeleteFiles` are `Deregister`. Each has a disjunct for
the failure of its call, bounded by `MaxFaults`, which does exactly what the error
path does: `Fails` collects the error and goes to the next workload. `RejectWorkload`
stands for the calls that fail before anything is stored. `Crash` stops anywhere and
reads the two files back.

*The auto-update units.* A workload with an auth file gets an
`io.containers.autoupdate` label. For it, `GenerateSystemdService` writes a unit whose
start is `podman play kube --replace` and whose stop is `play kube --down`. Starting
the unit thus replaces the pod `Run` has just made and recorded: the recorded id is
stale from the first day, and `podman.Remove` and `podman.Stop`, which take a pod
that is not found for one that is done, do nothing. `StartUnit`, `StopUnit` and
`RemovePod` model this; it is the root of one of the findings, and the reason all the
properties `MappingFindsPod`, `StalePlainRemoved`, `StopStopsAll` and
`DeregisterLeavesNothing` speak of plain pods only. A `Settings` member chooses, at the
start of a behaviour, the specifications and auth files that may be configured and how
many calls may fail.

*Abstractions.* Secrets, nftables rules and volumes are left out (their failures are the
failures of `Run`); the events to the workload observers are in `ObserverBus`. A failed
write of `workload-mapping.json` or `services.json` keeps the old file; torn ones are left
out: with one the process ends in `log.Fatalf`, at every start. A crash is one of the
process: pods and units stay. `play kube --down` fails without the manifest.

### GracefulReboot

*State.* `pc` is where `OS.Update` is (the two `rpm-ostree` commands, the request on
one channel, the wait on the other, the reboot command), `listener` where
`listenStartGracefulRebootChannel` is, `requested` is `RequestedOsCommit`, `pending`
and `saved` the rest of `Manager.Update`, `working`, `beating`, `storeOpen` and
`playbooks` what the listener stops or waits for. `booted`, `staged`, `remote` and
`rebooting` are the machine's.

*Actions.* One per command and per rendezvous: `BeginUpdate`, `Preview`, `Upgrade`,
`Signal`, `Timeout`, `SystemReboot` for `OS.Update`; `StopWorkloads`, `Drain`,
`WaitPlaybooks`, `Complete`, `Fatal` for the listener; `EndInit`, `Save`,
`StartPlaybook`, `EndPlaybook` for the rest of the worker; `Publish`, `Reboot`,
`Restart` for the outside. `Reboot` may come back in the old commit, which is
greenboot's rollback. `Fatal` is `log.Fatalf` in the listener, or the panic of a
metrics store that is closed a second time.

*The commit id.* The preview is searched for it as text (`os.go:140`). One that names a
commit is found when that is the newest and not the one that runs; one that is missing
(`Empty`: nothing validates the os section) is found in any output, and the upgrade that
follows may deploy nothing. `Shown` is this test, and `vacuous` is history: the machine
was upgraded that way since it booted.

*Abstractions.* OS management is enabled and upgrades are automatic, as `NewOS` sets
both on an rpm-ostree machine. The newest commit of the remote only advances. A pod that
is not found counts as stopped, so `working` says what `StopWorkloads` reported; what a
stop leaves running is in `WorkloadManager`. The
deregistrations the listener makes between the workloads and the playbooks are one
step. Saving the configuration does not fail here (`DeviceConfiguration` has that).

### RemoteWrite

*State.* `samples`, `blocks`, `headMin` and `valid` (the end of the blocks, before which
nothing is committed any more) are the time-series store. `pc` is where `writeRoutine` is,
`from`, `to`, `maxTSDB`, `hadEmpty` the locals of `Write`, `lastWrite` and `file` the
position in memory and on disk. `accepted`, `refused`, `resent` and `missed` are history:
what became of the samples, `missed` being those the writer passed without having read
them.

*Actions.* `Update` under the lock starts the routine when there is none; `GetConfig`
takes the client or ends it. `Loop`, `ReadMin`, `SkipToBlock`, `SkipToHead`,
`ReadRange` are the questions `Write` asks the store, one step each, because scrapers,
compaction and retention (`AddMetric`, `Compact`, `Retain`) come between them. `AddMetric`
commits a sample with any time that its series and the store still take, because
`AddMetric` takes the time first and locks out nobody: it may come behind later samples
of other series, and behind the writer (`Passed`). `Compact` may come between the two
questions of `skipEmptyRanges`, and what it moves is then in neither answer. `ReadRange`
may fail, or end early without saying so (`CutShort`): `toSeries` never asks the iterators
for their error. These three are what `missed` records.
`Accepted`, `Refused`, `Failed` are the outcomes of a request, which is their parameter,
`StorePosition` the write of the file, which may tear it, `Restart` what
`NewRemoteWrite` makes of it. `Next` groups them (`Outside`, `Routine`, `ReadRange`,
`SendRequest`, `Restart`), because `WriteRange` keeps the first two and refines the
others.

*Abstractions.* Time is the store's millisecond. A receiver that is not valid changes
nothing and is no step. A torn position file holds a prefix of the digits, which is a
time long ago, or no number at all: both are 0. A request is the next `NumSamples`
unsent samples of the range, in the order the store returns them; the loop that fills
it series by series is in `WriteRange`. The store may return series without samples:
then a range without samples counts as one that was not empty (`hadEmpty`), and the
last request may be one without samples (`MayEnd`). `NumTries` is the number of tries,
three in the code.

### WriteRange

*State.* `series` is what the store returned for the range, `locals` the variables `i`,
`sampleIndex`, `numSamples` and `requestSeries` of `writeRange`, `inRequest` says that it
is in `writeRequest`. The variables of `RemoteWrite` are there too. `unsent` is now
history: the loop never reads it, and whether it agrees with the loop is the question.

*Actions.* `ReadSeries` reads the range: `Returned` are the lists of series the store may
answer with, sorted by their labels and each by time, with any number of series that
have no sample in the range. `Iterate` is one round of the loop (`TakeSamples`,
`NextSeries`, `SendWhenFull`), `WriteRequest` and `FailRequest` are the ways
`writeRequest` returns, after which the loop goes on with an empty request or ends
(`EndLoop`). All other actions are those of `RemoteWrite`, and may come between any two
rounds.

*What it promises.* `RequestsAsCut`: the request under way holds the next samples of the
range, each once, in order and under the labels of its own series. `ImplementsRemoteWrite`:
the whole is a behaviour of `RemoteWrite`, where a round is a stutter and a request the
next `NumSamples` unsent ones; in particular the loop ends only when all was sent.

### Heartbeat

*State.* `live` are the tickers that have not been stopped, `tickers` the newest one;
each has a goroutine, which may still be in a push when its ticker was stopped, so
that `pc`, `seen`, `info`, `carried` are per goroutine. `upc` is where `Update` is,
`config` what the configuration manager reports meanwhile, `previous` and `first`
what is remembered of earlier pushes. `operator`, `delivered`, `repeated` are what
the operator got. `excused` is history: two pushes overlapped, the hardware could not
be read, the operator answered with an error status, or the first heartbeat to succeed
had no hardware.

*Actions.* `CallUpdate`, `StopTicker`, `RestartTicker`, `Swap`; `Deregister`; `Tick`;
a push is `BeginPush`, `ReadHardware`, `CompleteHardware` (the second reading, for a
full report), `RememberHardware`, `RetrieveEvents`, `Send` or `Unauthorized`. `Send` has a
disjunct per answer, the unanswered one included: it arrived, and failed all the same.

*Abstractions.* Hardware is a version of its mutable part. Two readings in one push may
see two versions, but a change that is undone between them is not seen. The `send`
lock is in the step `Send`.

### Registration

*State.* The two files, `cert` and `key` in memory, `step` where `registerDeviceOnce`
and `WriteCertificate` are, `retrying` whether it runs in `main` or in the goroutine.

*Actions.* One per message (`Enrol`, `Request`) and per call on the files: `OpenCert`
truncates, `WriteCert` writes, the same for the key and for the restoration, each may
fail, and `Crash` may come between any two. `SetRegistered` leaves the goroutine to be
started after a success of `main`'s own attempt.

*Abstractions.* yggdrasil uses the two files as they are, and a message needs halves that
match. A new key is one that is not in use. The attempts of one goroutine do not overlap;
there is one goroutine, as `RegisterDevice` is called once (the heartbeat would call it
too, but holds no reference to it; see section 3). The operator signs any request of a
device it approved.

### AnsiblePlaybooks

*State.* `hpc`, `batch`, `message` are the handler, which works under `sendLock`, so
there is one whatever tickers there are. Each playbook execution is a runner with
`rpc`, `name`, `path`, `outcome`. `entries`, `owner`, `status`, `copy` are the mapping
and its files, `saved...` what `playbook-mapping.json` holds. `waiter` is `main`'s call of
`WaitPlaybookCompletion`, `covered` the runners that were active when it came, `left`
those a handler gave up on; the last two are history.

*Actions.* `Push` is a tick with an answer, `Check`, `Add`, `Start`, `Timeout`,
`EventsSent` the handler; `CheckRunner`, `Begin`, `Finish`, `UpdateStatus`,
`SendResults`, `Remove`, `Signal` the runner, where the two that speak over the
unbuffered channels need the handler to wait. `CallWait` is the call of
`WaitPlaybookCompletion`, which the `wg.Done` of the last handler ends (`Done`); ticks and
playbooks go on meanwhile, as nobody stops the ticker. `Load`, `RunPending`, `Serve` are
the start, `Crash` the end of a process.

*Abstractions.* Sending and answering are one step. Message ids are distinct. The
mapping file is written at once (a torn one is left out); a failed write keeps the old
one. A pending copy that holds no playbook gives no results. The number of the runner
stands for the modification time that orders `GetAll`.

### Metrics

*State.* `pc` is where the loop over the observers is, `result` what the last `Update`
of two of them returned. `current` are the daemon's targets, by interval: one map, for the
components and the workloads, so that a workload named `system` has the target of the
system, and `clashed` is the history of that. `store` is the retention the
store was opened with, `applied` what `TSDB` takes it for. `stream` are podman's events
in order, `sent` the started events that goroutines of the worker wait to hand over (one
for each pod that ran at the start, one from each `Run`), `handling` the workload whose
event is being handled. `late`, `halfway`, `broken` are history.

*Actions.* `Boot` opens the store; the observers' `Init` is the first `Update`. Then
`UpdateStore`, `UpdateWorkloads`, `UpdateSystem` and `EndExporter` (the two calls of
systemd), `UpdateTarget`, `UpdateTransfer`, in the order of `main`; `Subscribe` is the
construction of the workload manager, `StartPod`, `RemovePod`, `EndPods` its `Update`,
`Save` the end of `Manager.Update`. `HandleEvent` and `HandleSent` are the goroutine of
the events, and `AddWorkload` the end of `WorkloadStarted`: the configuration is read
before it. `Deregister...` are the deregistrations that matter here.

*Abstractions.* An interval stands for all of a component's configuration, 0 for a
disabled one. Pods are removed and started as the configuration says; how is in
`WorkloadManager`. The two events of a removal are one. The goroutines of the targets,
what a scrape reads, and the filters are left out, and so is the graceful reboot.

### ObserverBus

*State.* The configurations of a behaviour are a `script`, chosen at the start; `handed`
are those the observers were handed, `memory` the one in force, `turn` the place of the
consumer (of `main`, while `proc` is `starting`) in the order `main` registered the
observers. `pods` are the workloads with a pod, `events` podman's events in order, `late`
the started events sent by a goroutine of `Workload.Run` or of the start, `handling` the
event the observers are being told, with those still to be told.

*Actions.* `Receive`, `Save` and the helpers `Pass` and `EndHandOver` are the loop of
`Manager.Update`; `Started`, `Removed` and `RestartPod` produce events; `TakeEvent`,
`TakeLate` and `Told` are the event goroutine. An observer is told only once it is
registered, which during the start is after its own `Init` (logs) or before it (data
transfer).

*Abstractions.* Messages arrive in the order of the script and nothing crashes but by a
fault the modules below describe: `DeviceConfiguration` has the rest.

### WorkloadLogs

*State.* A transport is named by the update that dialled it: every `Update` dials every
configured one anew. `buffers` holds all transports ever made, each with its buffer, the
line its goroutine is sending, and whether its connection broke; `transports`, `wwriter`
and `workloadsConfig` are the three maps, `writers` all writers ever made with the state
of their stream: `set` before `Start` returned, `live` or `failed` after it, `cancelled`
by `Stop` and then `gone`; `unstopped` when `Stop` came before there was anything to
cancel, and `leaked` when such a one then streams.

*Actions.* `Dial`, `DeleteLeftovers`, `SetTransports`, `SetWorkloadsConfig` are `Update`,
`InitStream` the rest of `Init`. `DeleteOld`, `ReadTarget`, `ReadTransport`, `SetWriter`
and `StartWriter` are `WorkloadStarted`, one step for each access to a map, because an
`Update` may come between any two; `WorkloadRemoved`. `WriteLine` is podman's goroutine
writing to `FIFOLog`, `ReadLine` and `WriteLog` the goroutine of a transport,
`BreakConnection` the server. `ConcurrentMaps` is Go's `fatal error: concurrent map
writes`.

*Abstractions.* A line has size one. The limit of a buffer is the soft one of the code: it
is compared before a line is appended. Eleven tries are one, with one outcome.

### DataTransfer

*State.* A storage object is named by the configuration it was made for; `fsSync` is the
one in use, `connected` those between `Connect` and `Disconnect`. `sync[t]` is where the
synchronisation of the ticker's goroutine, or of the event goroutine, is: which workload,
which direction, which object it connected. `lastSync` are the times in the map.

*Actions.* `UpdateTransfer`; `Tick`, `ChooseWorkload` and `Deregister` are the ticker;
`SyncRemoved` and `Forget` are `WorkloadRemoved`; `Connect`, `SyncPath` and `EndPaths` are
one direction of `syncDataPaths`, each of which may fail. `Connect` and `EndPaths` use the
object the direction began with; `SyncPath` uses the one the monitor has by then, and
the process ends if nobody connected that.

*Abstractions.* What is copied is left out; a time is `kept`, or `late` when it was stored
for a pod that is gone.

### MountManager

*State.* `mounts` is the kernel's: a stack of devices per place. A place may be written in
several ways (`/mnt/data`, `/mnt/data/`): `Directories` are the ways configurations and
`mount` write it, and `Place` says what they mean. `currentMounts` are the directories
`Update` finds in the output of `mount`, once, when it begins; `mounted` the directories
it has mounted, `nextMount` the index of its loop.

*Actions.* `GetMounts`, `SkipMount`, `Mount`, `EndMounts`: `Update`. `GetMounts` takes the
`Listing`: for each mount the directory its line is parsed to (`Parsed`), or nothing when
the expression of `info.go:15`, which takes lower-case names only, does not match. `Mount`
looks the configured directory up in it as it is written (`Found`), unmounts what is
there if it finds it, and mounts the device; either may fail, and the second leaves the
first done.

*Abstractions.* Types and options are left out, and so are mounts below another mount.
The comparison of a mount with the list, `isEqual`, is always false (see section 3), so
it is no branch of `Mount`. At the start up to two devices are mounted on each place the
script is about.

### WorkloadObservers

Adds to the three the loop of `WorkloadManager.Update` at the granularity of a pod, with
what ties it to the mounts: a workload whose block device is configured and not mounted
is not tried (`WaitsForMount`); that too is looked up in a `Listing`, by the directory as it
is configured (`IsPathMounted`).

## 3. Runs

| Run | Instance | Properties | What it shows |
|---|---|---|---|
| `configuration` | 3 observers with the workload manager in the middle, 3 contents (one the default), 3 messages, 2 faults | `ObserversHoldMemory`, `DiskMatchesMemory`, `DeregisteredForGood`, `EveryMessageIsTaken`, `ImplementsService` | observers, memory and disk agree through reordered messages, failed saves, crashes and deregistrations; as long as the observers return, every message is taken; together they are a `ConfigurationService` |
| `configuration_deregister` | 2 observers, 2 messages, no faults | `FileGoneAfterDeregister`, violated | an update writes the file again after the deregistration removed it |
| `operation` | 2 workloads, 3 updates; 2 specifications, 2 faults and 1 crash without auto-update, or 2 auth files without faults. Or: 2 tickers, 3 configurations, every answer, 1 change, 1 event, 1 fault | `TypeOK`, `MappingFindsPod`, `Converges`, `OneFailureOneWorkload`, `StalePlainRemoved`, `StopStopsAll`, `DeregisterLeavesNothing`; `OneTicker`, `EventsAtMostOnce`, `FullFirst`, `DeltaBase` | no failing call and no crash makes the worker lose a plain pod or report as done what is not; without failures the pods are what is configured, auto-update or not; reports stay consistent under lost, unanswered and refused pushes |
| `workloads_stale` | 2 workloads, 1 auth file, 3 updates | `StaleRemoved`, violated | a pod of an auto-update unit survives its removal from the configuration |
| `lifecycle` | 5 keys, 4 faults. Or: 3 commits and an empty commit id, 4 messages, 2 faults, 1 restart, 1 playbook | `PairOnDisk`, `RegisteredHasCert`, `EventuallyRegistered`; `StoppedOnlyForUpgrade`, `RebootAfterDrain`, `AcceptedRebootEnds` | the pair on disk matches unless a write is cut short, and retries end in a registration; the work is stopped only for a deployed upgrade or one that names no commit, and before the reboot; a request the listener took ends, even if a playbook hangs |
| `reboot_startup` | 2 commits, 1 message, 1 fault, 1 restart | `UpdateEnds`, violated | an upgrade found at start-up waits for a listener that is started later |
| `remotewrite` | the writer with its loop: 2 series, 4 instants, 3 samples, ranges of 2 instants, requests of 2, 2 tries, 1 compaction, 2 faults | `NothingSkipped`, `NoDuplicates`, `RunsWhileEnabled`, `RequestsAsCut`, `ImplementsRemoteWrite` | a failing request makes the writer repeat, never skip, and what it passes unread is one of three named cases; ranges do not overlap; one routine; the loop cuts a range into requests without loss and is a `RemoteWrite` |
| `remotewrite_overlap` | 1 series, 8 instants, 4 samples, 1 compaction, no faults | `EverythingSent`, violated | a compaction between the two questions of `skipEmptyRanges` makes the writer skip samples |
| `playbooks` | 2 playbooks, one or both in a message, 2 messages, 3 runners, 2 faults | `NotRunAgain`, `WaitCoversRuns`, `HandlerReturns` | completed playbooks stay completed through crashes; a wait ends after what it waits for; the handler comes back as long as the dispatcher takes its replies |
| `metrics` | 2 workloads, one of them named `system`; 3 configurations, 2 events under way, 2 faults | `NoTargetWithoutPod`, `SystemFollows`, `RetentionApplied` | targets, exporter and retention follow the configuration and the pods through late events, failing calls, crashes and a deregistration |
| `observers` | 1 workload, 2 transports, 2 places, one of them with two names and a device that is listed without being parsed, 2 devices, buffers of 0, 2 lines, 2 ticks, 1 fault; seven scripts of up to 3 configurations | `LinesAccounted`, `RunningLogged`, `StreamsKnown`, `RemovedForgotten`, `MountedAsConfigured`, `NothingMountedOver`, `LinesLeave` | logs, data transfer and mounts follow the configuration and the pods however the two goroutines fall together |
| `observers_storage` | 1 workload, 1 tick, no faults; a script that makes the storage anew | `PathsOnConnected`, violated | a configuration that comes during a synchronisation makes it copy through an object that is not connected |

The type invariants that are not in this table are theorems (section 4), and so are
`SavedAfterHanded` and `RenewalKeepsKey`.

*Why the bounds are enough.* Three messages of the configuration are one being worked on,
one waiting and one that may overtake it; three observers are one before, one at and one
after the workload manager or a failing observer. Two workloads are one that fails and one
that must not; three updates deploy, change and remove (or deploy again), so that every
pair of configurations is followed by a third; the second fault may hit the recovery from
the first. Three commits give an upgrade, a rollback and a second upgrade while the first
is still pending. Four instants with ranges of two are two ranges, of which the first may
be empty or lie in a block while the head is in the second, and a sample may come late
into either; that a hole of several ranges is jumped over rests on the theorem and on
`remotewrite_overlap`, which has eight instants and needs such a hole. Two series and
three samples, with requests of two, are a request with two series, a series that spans
two requests, one that fills a request exactly, and empty series before and after. Two
faults are both tries of a request, or a torn position and a restart. Two tickers are the
one that was stopped, with its last push, and its successor. Five keys are the four that
files, memory and an answer may name, and a new one; four faults are a failed write, a
failed restoration, a crash and one more. Two playbooks and three runners are a playbook,
another, and the first one again, in two messages of which one may have both; two faults
are a failed save and a crash. Targets of different names share nothing but the goroutine
of the events, so that one workload stands for all those with a name of their own, and
another has the name of the system's target; the configurations differ pairwise in both
intervals, and have both workloads with metrics or none; two events are the stopped and
the started one of a pod that is replaced; two faults are a late event and a failure. The
scripts of the observers each change one part of the configuration, since the three
components share nothing but the goroutines and the pods: a transport goes while another
stays, a workload moves from one transport to another, a workload comes and goes, a
storage is replaced and its workload removed, a workload is removed while the storage
stays, the mounts of a place that has one name change, twice within one configuration, and
so do those of one that has two names, with a device that is listed and cannot be parsed.
A buffer of 0 takes one line (the limit is soft) and refuses the second; two ticks are one
under way and one after it; one fault is any failing call, a pod that restarts or a
connection that breaks. One fault and two changes of the configuration are what the
overlapping pushes of the heartbeat need; a second fault only repeats the first. Every
action of every module fires within these bounds.

The workloads are a symmetry set in `operation` and `workloads_stale`, which have no
liveness property; the other runs use no symmetry.

*What the properties exempt*, because the code does not promise it:

* `ObserversHoldMemory` the state after a failed save; `DiskMatchesMemory` a file torn by
  a failed or interrupted write, and one removed by a deregistration;
* `PairOnDisk` and `RegisteredHasCert` a pair damaged by a write that was cut short
  (the history variable `damaged`);
* `FullFirst` and `DeltaBase` what `excused` records: overlapping pushes, of which the
  older may arrive last, hardware that could not be read, answers with an error
  status, which `send` takes for success, and a first success without hardware;
* `StoppedOnlyForUpgrade` an os section without a commit id, with nothing to upgrade
  (`vacuous`);
* `WaitCoversRuns` a runner left behind by a timeout (`left`), and a playbook that begins
  after the call of the wait (it is not `covered`); `NotRunAgain` the first, and two
  playbooks that share the path of their message;
* `NothingSkipped` what `missed` records: a sample committed behind the writer, one a
  compaction moves between the two questions of `skipEmptyRanges`, and what is left out by
  a read that fails without being asked; `EverythingSent`, in `remotewrite_overlap`,
  exempts none of them and is violated;
* `RunningLogged` transports that were changed meanwhile (it speaks of those that were
  the same in every configuration so far), and what `missed` records: a server that
  could not be dialled, or pods that could not be listed; a writer whose pod could not be
  inspected is there and `failed`;
* `StreamsKnown` a writer whose transport was deleted before its `Start` returned
  (`unstopped`, then `leaked`);
* `RemovedForgotten` a time the ticker's goroutine stored for a pod that went while it was
  at that workload (`late`);
* `LinesLeave` a connection that broke, and the end of the process;
* `MountedAsConfigured` an `Update` that reports an error, and a place one configuration
  names in two ways; `NothingMountedOver` a place that has several names, or on which a
  device is mounted that is listed without being parsed (it speaks of the places that are
  `Clear`);
* `NoTargetWithoutPod` a started event handled for a configured workload that has no pod
  (`late`), and a workload that has the name of a component; `SystemFollows`, of the
  target, a system's target that such a workload's event changed (`clashed`), and the
  state after a failure between two calls of systemd (`halfway`); `RetentionApplied` a
  store that could not be opened again (`broken`). The last two speak of an `Update` that
  reported success on a device that is not being deregistered;
* `EveryMessageIsTaken` an observer that never returns, as the operating system's does in
  finding 3 (`ObserversReturn`); `HandlerReturns` a dispatcher that never takes a reply
  (`RepliesTaken`). Both are premises of the formula, not fairness of the specification.

*Deadlock* is checked except in `reboot_startup`, `observers` and `observers_storage`, and
not of the reboot in `lifecycle`, whose part may stutter: a reboot may really stop for
good (the finding of `reboot_startup`); the observers may end (`ConcurrentMaps`, an object
that is not connected) or be at rest after their script, and once the bounds are used up
nothing else need be enabled. In the others an operation that may always come again
(`Disconnect`, `BeginStop`, `Update`, `Deregister`, `Approve`, an answer without
playbooks) stays enabled.

*Fairness.* `DeviceConfiguration`: weak fairness of the start-up, of the goroutines `Send`
started, of the consumer between the observers and of a deregistration in progress: the Go
runtime runs every goroutine that can run, and the unit file restarts the worker. That an
observer's own call returns is not assumed. `GracefulReboot`: the same for the two
goroutines that meet on the channels, for `main`, and for a reboot that was accepted.
`Registration`: systemd starts the process, and an attempt goes on, its next tick
included. `AnsiblePlaybooks`: the handler, its timeout, and each runner, apart from
`ansible-playbook` itself and from `sendEvents`, whose reply has no deadline.
`MCLifecycle`: that of its two modules. `WorkloadObservers`: the goroutine of each
transport, which Go runs whenever it can. `RemoteWrite` and `WriteRange`, `Heartbeat`,
`Metrics` and `WorkloadManager` are checked for safety only and assume none. Nothing
obliges a message, a commit, a fault, a restart or the end of a playbook to come. The
violated `UpdateEnds` is a behaviour that satisfies all of it.

### Findings

1. *`configuration_deregister`.* `Manager.Update` writes `device-config.json` whether
   or not `Manager.Deregister` removed it, and holds nothing that would order the
   two. The next start takes the device for a configured one and does not register.
2. *`workloads_stale`.* `Remove` uses an id the workload's own unit has replaced and
   takes "not found" for success; the manifest its unit would need is deleted before.
3. *`reboot_startup`.* `Init` of the OS observer runs on `main`, which starts the
   listener last: a start that finds an upgrade to install never serves.
4. *`remotewrite_overlap`.* `skipEmptyRanges` asks the store for its blocks and then for
   the beginning of the head, with no lock between (`remote_write.go:472-494`): what a
   compaction moves from the head to a block meanwhile is in neither answer, and the
   position passes it. `Write` is said to write "all the metrics" (`remote_write.go:282`).
5. *`observers_storage`.* Every `Update` with a storage makes a new storage object, and
   `syncPath` uses the monitor's, not the one its caller connected (`monitor.go:283`),
   though that was copied "to be able to always use that pointer meanwhile update the
   config" (`monitor.go:149-150`). The object nobody connected dereferences nil.

Other behaviour met while modelling, which the models reproduce (but where it says
otherwise) and no run singles out:

* `StopWorkloads` shares the cause of finding 2: a pod of an auto-update unit may keep
  running after a stop that reports success (`wrapper.go:165`).
* An os section without a commit id upgrades to whatever is newest, and when there is
  nothing to deploy it stops the device's work and reboots all the same, as the id is
  searched for as text (`os.go:140`; `Shown`, `vacuous`).
* A scraper takes the time of a sample before it commits it, and the end of a range may be
  the newest time in the store: a sample that is committed behind the writer is never
  sent (`remote_write.go:339`; `AddMetric`, `missed`).
* A read that fails after the first chunks gives what it has read for the whole, because
  nobody asks the iterators for their error (`metrics.go:151-173`; `CutShort`).
* All targets are in one map, by name: a workload named `system` replaces the system's
  target, or deletes it when its pod goes (`daemon.go:155`, `system.go:15`,
  `workload.go:82`; `Clash`).
* A target that is deleted or replaced before its goroutine has run `Start` is scraped
  until the process ends (`daemon.go:111`; the goroutines of the targets are not modelled).
* After a failure between the two calls of systemd, going back to the configuration from
  before is skipped as unchanged, and `node_exporter` stays half changed (`system.go:57`;
  `halfway`).
* The retention is noted before the store is opened again: if that fails the same
  configuration is taken for applied, and another one closes the store a second time,
  which panics (`metrics.go:234`; `FailReopen`, `Die`).
* At a restart the events of the pods that already run are sent before `main` makes
  `WorkloadMetrics` an observer (`main.go:173-182`), and may be consumed by nobody:
  those workloads are not scraped until their pods start again (`HandleSent`).
* A change of a workload's metrics without a new pod is remembered and not applied to the
  target (`workload.go:38`; `UpdateWorkloads`).
* The deregistration names the system's metrics but not those of the data transfer
  (`main.go:233-241`), whose target stays.
* A first heartbeat that succeeds without hardware ends the protection of the full
  report: if that one comes later and is lost, the operator never gets the part of the
  hardware that does not change (`heartbeat.go:141`).
* The heartbeat's registration is never stored by its constructor; an unauthorized
  answer dereferences nil (`heartbeat.go:216`; the action `Unauthorized`).
* When the key cannot be written, the certificate is written back but not the key, which
  was truncated already (`certs.go:119`).
* `RegisterDevice` starts its retries after a success too (`registration.go:111`).
* The path of a playbook is named after its message: of two playbooks in one message the
  mapping file keeps the last.
* After the handler's timeout nobody reads what the runner sends, and it stays blocked
  (`ansible_manager.go:399`).
* A reply the dispatcher never takes keeps the handler, and with it every later playbook,
  for ever: it is sent without a deadline, outside the `select` that has one
  (`ansible_manager.go:440`; `EventsSent`).
* Nobody stops the ansible ticker for a graceful reboot: a playbook that begins after
  `WaitPlaybookCompletion` returned runs into the reboot (`main.go:262-292`; `CallWait`).
* The copy of a pending playbook kept for a restart holds its path, not its content
  (`RunPending`).
* `main` calls `Start` on the ansible manager also when `NewAnsibleManager` failed and
  returned none.
* `writeRange` sends a request without samples when the last series of a range is empty
  and the one before filled a request, or when all are (`SendWhenFull`; `MayEnd` allows it).
* Two synchronisations may share an object, and the first to end disconnects it for both
  (`EndPaths`).
* The last synchronisation of a removed workload takes its paths from the configuration
  in memory: after the swap the workload is no longer there, and nothing is copied
  (`SyncRemoved`).
* A transport deleted between two steps of `WorkloadStarted` leaves a writer with a stream
  nobody can stop (`logs/workload.go:156`; `leaked`). Goroutines of replaced transports are
  never stopped, writers keep the transport they began with, also when its address
  changed, and a broken connection is never dialled again. The maps are shared by two
  goroutines without a lock, which Go may answer by ending the process.
* A mount whose line has an upper-case letter is skipped, and one configured as
  `/mnt/data/` is not found under `/mnt/data`: the device is mounted over it, again at
  every `Update`, and a workload with a volume there waits for ever (`info.go:15, 49-52`,
  `workload/manager.go:543`; `Parsed`, `Found`, `WaitsForMount`).
* `isEqual` of the mounts compares a type with a directory, so that every `Update`
  unmounts and mounts again what was right already (`Mount`).
* A workload that waits for a mount is tried before the mount manager runs, and then not
  until the next configuration that differs (`WaitsForMount`).
* `ForceSync` of the data transfer is called by tests only.

## 4. Proofs

Each theorem holds for every value of the constants that satisfies the named assumptions
of its module, so for any number of observers, workloads, keys, commits, messages,
failures and crashes.

| Module | Theorem | Statement |
|---|---|---|
| `DeviceConfigurationProofs` | `TypeCorrect` | `Spec => []TypeOK` |
| | `ObserversAgree` | `Spec => []ObserversHoldMemory` |
| | `DiskAgrees` | `Spec => []DiskMatchesMemory` |
| | `DeregistrationHolds` | `Spec => []DeregisteredForGood` |
| | `SavesAreHanded` | `Spec => SavedAfterHanded` |
| | `Refinement` | `Spec => ImplementsService` |
| `WorkloadManagerProofs` | `TypeCorrect` | `Spec => []TypeOK` |
| | `IdsFindPods` | `Spec => []MappingFindsPod` |
| | `StalePodsGo` | `Spec => []StalePlainRemoved` |
| | `StopIsComplete` | `Spec => []StopStopsAll` |
| | `DeregisterIsComplete` | `Spec => []DeregisterLeavesNothing` |
| | `UpdateConverges` | `Spec => []Converges` |
| | `FailuresContained` | `Spec => []OneFailureOneWorkload` |
| `LifecycleProofs` | `RegistrationTypeCorrect` | `RegistrationSpec => []RegistrationTypeOK` |
| | `PairKept` | `RegistrationSpec => []PairOnDisk` |
| | `CertificateKept` | `RegistrationSpec => []RegisteredHasCert` |
| | `RenewalKeyKept` | `RegistrationSpec => []RenewalKeepsKey` |
| | `RebootTypeCorrect` | `Spec => []TypeOK` |
| | `WorkKeptWithoutUpgrade` | `Spec => []StoppedOnlyForUpgrade` |
| | `RebootIsGraceful` | `Spec => []RebootAfterDrain` |
| `HeartbeatProofs` | `TypeCorrect` | `HeartbeatSpec => []HeartbeatTypeOK` |
| | `TickerIsOne` | `HeartbeatSpec => []OneTicker` |
| | `EventsDelivered` | `HeartbeatSpec => []EventsAtMostOnce` |
| | `HardwareKnown` | `HeartbeatSpec => []FullFirst` |
| | `DifferencesHold` | `HeartbeatSpec => []DeltaBase` |
| `AnsiblePlaybooksProofs` | `TypeCorrect` | `Spec => []TypeOK` |
| | `WaitIsEnough` | `Spec => []WaitCoversRuns` |
| | `CompletedOnce` | `Spec => []NotRunAgain` |
| `RemoteWriteProofs` | `TypeCorrect` | `Spec => []TypeOK` |
| | `RoutineRuns` | `Spec => []RunsWhileEnabled` |
| | `EverythingWritten` | `Spec => []NothingSkipped` |
| | `SentAtMostOnce` | `Spec => []NoDuplicates` |
| | `RequestsCut` | `LoopSpec => []RequestsAsCut` |
| | `LoopImplements` | `LoopSpec => ImplementsRemoteWrite` |
| | `LoopRoutineRuns` | `LoopSpec => []RunsWhileEnabled` |
| | `LoopEverythingWritten` | `LoopSpec => []NothingSkipped` |
| | `LoopSentAtMostOnce` | `LoopSpec => []NoDuplicates` |
| `MetricsProofs` | `TypeCorrect` | `Spec => []TypeOK` |
| | `SystemIsConfigured` | `Spec => []SystemFollows` |
| | `StoreIsConfigured` | `Spec => []RetentionApplied` |
| | `TargetsHavePods` | `Spec => []NoTargetWithoutPod` |
| `WorkloadObserversProofs` | `ObserversTypeCorrect` | `Spec => []TypeOK` |
| | `ObserversInvariant` | `Spec => []ObserversInv` |
| | `LinesInOnePlace` | `Spec => []LinesAccounted` |
| | `PodsLogged` | `Spec => []RunningLogged` |
| | `StreamsOfPods` | `Spec => []StreamsKnown` |
| | `RemovedNotReported` | `Spec => []RemovedForgotten` |
| | `DevicesAsConfigured` | `Spec => []MountedAsConfigured` |
| | `NoneMountedOver` | `Spec => NothingMountedOver` |

*Assumptions.* They are named where they are made (`ConstantsAssumption`,
`SpecialValuesAssumption` and the like): bounds are natural numbers, marks such as an
absent or a torn file are not members of the data they stand beside, and what the code
gives (the workload manager is one of the observers, there are finitely many workloads, a
key that is not in use can always be made, a script is not empty, a configuration names
workloads, transports and directories that there are, and every directory has a place).
TLC evaluates all of them in the runs.

*How the proofs are laid out.* The types come first, split into parts that are each kept
by every step; then the strengthening the property needs, with one step per action; then
the theorem, by propositional temporal logic. None of the properties is inductive alone.
What is added says what the code keeps between the moments the property speaks of:

* `DeviceConfiguration`. `Quiet`: the consumer works, the queue is filled and a
  deregistration runs only in a process that serves. `Starting`: the observers registered
  so far hold the memory, and the file is what it was loaded from. `Notifying`: in the
  loop, the observers before `next` hold the new message; after it, all of them do.
  `Saving`: between the opening of the file and the assignment of the memory the file is
  torn, new, or gone by a deregistration. `Notifying` is why the save follows the loop,
  and with `Saving` why `Swap` restores the two agreements. `DeregisteredForGood` rests on
  `ManagementLockHeld`: `DeregisterWorkloads` cannot fall inside the workload manager's
  update, and after it that observer is `Deaf`. `Refinement` maps each step to a step of
  `ConfigurationService` or to a stutter, using the same invariant.
* `WorkloadManager`. `Places` says which calls an operation can be at and what its loop is
  over, `Deploying` how far it has come with its workload. `Loops` says, for each of the
  three loops, that while no error was reported a plain pod that should go is still `Left`
  to it. `Contained` carries `Converges` and `OneFailureOneWorkload`: there is a set of at
  most `faults` workloads outside which every workload is `Good`, that is, `Settled`
  (manifest, pod, unit, id and service agree, and are those configured if the update has
  been through with it) or, while an operation has it in hand, `Underway`. A step that
  fails adds its own workload to that set (`Blame`); one that does not keeps its workload
  good and touches no other (`CallContained`).
* `GracefulReboot`. `Ordered`: what the machine boots next is not older than what it runs.
  `Deployed`: from where on an upgrade is certain, or `vacuous`. `Drained`: what the
  listener has stopped at each of its steps.
* `Registration`. `Answered`, `Requested`: what the answer is before and while it is
  written. `OnDisk`: the pair in memory matches, and the files hold it but for the one
  that is being replaced. `Delivered`: a process that starts finds a matching pair.
  `Remembered`, `Renewed`: only a running process is registered, with the certificate it
  remembered, and a renewal keeps the key.
* `Heartbeat`. `Ticking`: the ticker that runs is the last one, and none does while it is
  replaced. `OnePlace`: an event is queued, carried by one push, or delivered. `Known`:
  unless `excused`, one push runs at a time, and once the operator was sent the part that
  changes, or a heartbeat succeeded, it has everything. `Base`: while nothing failed, a
  push carries what it will remember or something newer, and when none is between
  remembering and sending, the operator has `Caught` up with `previous`.
* `AnsiblePlaybooks`. `InHand`: what the handler and the runners hold at each step.
  `OneActive`: only the runner that is waited for is active, and those that were left
  behind. `Waited`: a wait that has not returned has a runner to wait for, which with
  `OneActive` is the only one it covers that can still be active. `Once`: the mapping, in
  memory and on disk, knows what completed (`Recorded`), and nothing in hand or active has
  completed before (`Fresh`).
* `RemoteWrite`. `Covered`: every sample is in the head or in a block, and the blocks come
  before the head. `Progress`: what lies before the position, before the range, or was
  sent of it, is `Done`, that is, accepted, refused or missed, at every question the
  writer has put to the store so far. `SentOnce`: as long as nothing failed, what was
  accepted lies before the position or was sent of the range.
* `WriteRange`. `LoopInv` relates the loop to the history. `AtSample`: where the loop is.
  `CutAt`: what it has gone past (`Past`) was sent or is in the request, and what is ahead
  of it was not sent. `HasRoom`: between rounds the request is not full, and a series goes
  on in a new request only if that is still empty. `Round` shows that a round keeps it.
  That the request is the one `RemoteWrite` takes then follows by cardinality
  (`FirstIsRequest`): it is full, or all that is left, and comes before the rest. That the
  store can list finitely many samples in order at all (`AscendingExists`) is proved by a
  smallest counterexample, since induction over a formula is out of reach. `LoopStep` is
  the simulation, from which `LoopImplements` and with it, by the theorems about
  `RemoteWrite`, its properties for the writer with its loop.
* `Metrics`. `System`, `Exporter`, `Retention`: what the last configuration remembered
  says of the targets, the unit and the store, step by step through an update. `Scraped`:
  a workload without a pod that has a target, or whose start is being handled, has a
  stopped event to come, and behind every start of it in the stream comes a stop. That is
  why the property waits for the events to be handled, and why it exempts the late starts,
  which are outside the stream's order.
* `WorkloadObservers`. The invariant has a part for each component, and a *footprint* says
  which variables of the bus a component's steps may touch and how (`BusFoot`, `LogsFoot`,
  ...): a part is kept by the steps of the other components because of their footprints,
  so that its own proof is about its own actions only.
  * `Core`: types, where the consumer and the event goroutine can be at the start
    (`BusOK`), and that the event goroutine synchronises the workload whose removal it is
    told (`SyncTold`).
  * `MountsInv`: of the configured mounts before `nextMount`, those whose place has one
    name show their device (`AsConfigured`). Whatever was listed, `MountGrows` says what
    one mount does to the stacks: a directory found in the list loses its top device
    before it gets the new one, and one that is not found on a `Clear` place was empty
    when the list was read and has not been mounted since (`MountsInv`), which is why
    nothing is mounted over another mount though the list is not read again.
  * `RemovalsInv`: a time of a workload without a pod is kept only as long as the removal
    waits in the stream or is being told, and the data transfer was not told of it yet.
  * `LinesInv`, on the types of the buffers: a line is held by one buffer, once, waiting
    or on its way, or delivered, or refused.
  * `StreamsInv`: a live stream is the one its workload's entry names, and if the pod is
    gone the logs are still to hear of it (`LiveInv`); an entry names a writer that
    streams, failed, or is being started by the event that is told (`CurrentInv`,
    `FoundInv`); `Init` overwrites no entry (`NoneYet`).
  * `Logged`: `RunningLogged` needs all of the above and the order of the events. A
    removal whose pod is there again has its start behind it (`PodEvents`); for a workload
    whose transport never changed (`Steady`) the maps name that transport from the first
    update on (`SteadyTransport`), and its pod has a writer into it, or a start that
    waits, or is told, or `Init` is still to reach it (`SteadyWriter`).

*Only model-checked.* All liveness properties (`EveryMessageIsTaken`,
`AcceptedRebootEnds`, `EventuallyRegistered`, `HandlerReturns`, `LinesLeave`), since the
prover does not reason about fairness and `ENABLED`. Every safety property of the passing
runs is a theorem.

## 5. What is not modelled, and why

* The ansible event dispatcher formats events; nothing depends on it.
* The hardware inventory is input; which part of it is sent, and the difference, are in
  `Heartbeat`.
* Netfilter and volumes are thin wrappers of `nft` and of paths: their failures are those
  of `Run` in `WorkloadManager`. Secrets are the same.
* A torn `workload-mapping.json` or `services.json` makes the constructors fail and `main`
  end in `log.Fatalf`, at every start: there is no behaviour after it to check. The
  hazard is listed in `PROJECT.json` without a property for this reason. A torn
  `playbook-mapping.json` is left out too.
* The ticker of the ansible manager is written like the heartbeat's, and its queue of
  events like the others': they are modelled once. The upgrade status in a heartbeat is
  read and sent.
* What a scrape reads, and which samples the filters let through, is pure.
* The vendored time-series database, podman, systemd, rpm-ostree and greenboot are
  modelled by what the code sees of them.
* The mocks, the generated code of the tests and of the message types carry no logic.
