-------------------------- MODULE WorkloadManager --------------------------
(***************************************************************************)
(* How the device worker turns the configured workloads into pods: the     *)
(* workload manager (internal/workload/manager.go), the wrapper it calls   *)
(* (wrapper.go), the repository of pod ids (mapping/mapping.go) and the     *)
(* record of systemd services (internal/service/systemd.go), over podman   *)
(* and systemd, which are external.                                        *)
(*                                                                         *)
(* Update, StopWorkloads and Deregister hold managementLock, so one of     *)
(* them runs at a time; every call they make to the disk, to podman or to  *)
(* systemd may fail, and a crash may fall between any two calls.           *)
(*                                                                         *)
(* A pod id is not modelled as a number: what matters of the id recorded   *)
(* for a workload is whether it is the id of the pod that exists now       *)
(* ("live") or of one that is gone ("stale").  A workload whose pod carries*)
(* an io.containers.autoupdate label, which an image registry auth file    *)
(* adds, gets a systemd unit that runs "podman play kube --replace" when   *)
(* started and "--down" when stopped: both act on the manifest, and the    *)
(* first gives the pod a new id.                                           *)
(***************************************************************************)
EXTENDS Naturals, FiniteSets

CONSTANTS
  Workloads,    \* workload names
  Specs,        \* pod specifications
  SelfUpdating, \* the specifications whose own labels ask for auto-update
  Auths,        \* contents of auth files
  NoAuth,       \* no auth file
  None,         \* no manifest, pod, unit or deployment
  Torn,         \* a file whose writing failed half-way
  MaxUpdates,   \* bound: configurations handed to Update
  Settings      \* what the configurations of a behaviour ask for, and its bounds
                \* on failing calls and on crashes

ASSUME ConstantsAssumption ==
  /\ IsFiniteSet(Workloads)
  /\ SelfUpdating \subseteq Specs
  /\ NoAuth \notin Auths
  /\ MaxUpdates \in Nat
  /\ Settings \subseteq [specs : SUBSET Specs, auths : SUBSET Auths, faults : Nat, crashes : Nat]

Deployments == [spec : Specs, auth : Auths \cup {NoAuth}]
Manifests == [spec : Specs, authLabel : BOOLEAN]

ASSUME SpecialValuesAssumption ==
  /\ None \notin Deployments \cup Manifests \cup [manifest : Manifests, running : BOOLEAN]
  /\ None \notin {"plain", "auto"}
  /\ Torn \notin Manifests \cup {None}
  /\ Torn \notin Auths \cup {NoAuth}

VARIABLES
  wanted,       \* the workloads of the last configuration, None when absent
  phase,        \* what the holder of managementLock is doing
  step,         \* the call it makes next
  cur,          \* the workload it works on
  todo,         \* the workloads left in its loop
  errs,         \* the running operation, or the last one, reports an error
  last,         \* the last operation that ran to its end in this process
  updates,      \* number of calls of Update
  events,       \* length of eventsQueue
  deregistered, \* WorkloadManager.deregistered
  manifest,     \* per workload, the file .../<name>/pod.yaml
  authFile,     \* per workload, the file .../<name>/auth.json
  pod,          \* per workload, the pod of that name (podman)
  mapping,      \* the repository's id for the workload
  mappingFile,  \* the same in workload-mapping.json
  service,      \* the service manager has a service for the workload
  serviceFile,  \* the same in services.json
  unit,         \* the systemd unit of the workload, "plain" or "auto"
  setting,      \* the setting of this behaviour
  faults,       \* failed calls so far
  crashes       \* crashes so far

control == <<wanted, phase, step, cur, todo, errs, last, updates, crashes>>
files == <<manifest, authFile>>
repository == <<mapping, mappingFile>>
services == <<service, serviceFile, unit>>
vars == <<setting, control, events, deregistered, files, pod, repository, services, faults>>

Asked == [spec : setting.specs, auth : setting.auths \cup {NoAuth}]
Pods == [manifest : Manifests, running : BOOLEAN]
Id == {"none", "live", "stale"}

TypeOK ==
  /\ setting \in Settings
  /\ wanted \in [Workloads -> Deployments \cup {None}]
  /\ phase \in {"free", "apply", "prune", "stop", "clean"}
  /\ step \in {"next", "store", "auth", "unlink", "rm", "unmap", "run", "map",
               "unit", "start", "record", "report", "files"}
  /\ cur \in Workloads
  /\ todo \in SUBSET Workloads
  /\ errs \in BOOLEAN
  /\ last \in {"none", "update", "stop", "deregister"}
  /\ updates \in Nat /\ events \in Nat /\ faults \in Nat /\ crashes \in Nat
  /\ deregistered \in BOOLEAN
  /\ manifest \in [Workloads -> Manifests \cup {None, Torn}]
  /\ authFile \in [Workloads -> Auths \cup {NoAuth, Torn}]
  /\ pod \in [Workloads -> Pods \cup {None}]
  /\ mapping \in [Workloads -> Id]
  /\ mappingFile \in [Workloads -> Id]
  /\ service \in [Workloads -> BOOLEAN]
  /\ serviceFile \in [Workloads -> BOOLEAN]
  /\ unit \in [Workloads -> {"plain", "auto", None}]

Init ==
  /\ setting \in Settings
  /\ wanted = [w \in Workloads |-> None]
  /\ phase = "free" /\ step = "next"
  /\ cur \in Workloads
  /\ todo = {} /\ errs = FALSE /\ last = "none"
  /\ updates = 0 /\ events = 0 /\ faults = 0 /\ crashes = 0
  /\ deregistered = FALSE
  /\ manifest = [w \in Workloads |-> None]
  /\ authFile = [w \in Workloads |-> NoAuth]
  /\ pod = [w \in Workloads |-> None]
  /\ mapping = [w \in Workloads |-> "none"]
  /\ mappingFile = [w \in Workloads |-> "none"]
  /\ service = [w \in Workloads |-> FALSE]
  /\ serviceFile = [w \in Workloads |-> FALSE]
  /\ unit = [w \in Workloads |-> None]

-----------------------------------------------------------------------------
(* Moving from call to call *)

\* The call succeeded: the next one is s.
Then(s) ==
  /\ step' = s
  /\ UNCHANGED <<wanted, phase, cur, todo, errs, last, updates, crashes, faults>>

\* Mutation: the first error ends the loop.
FailsAndStops ==
  /\ faults < setting.faults
  /\ faults' = faults + 1
  /\ errs' = TRUE
  /\ step' = "next" /\ todo' = {}
  /\ UNCHANGED <<wanted, phase, cur, last, updates, crashes>>

\* The call failed: the error is collected and the loop goes on.
Fails ==
  /\ faults < setting.faults
  /\ faults' = faults + 1
  /\ errs' = TRUE
  /\ step' = "next"
  /\ UNCHANGED <<wanted, phase, cur, todo, last, updates, crashes>>

\* The operation returns and releases managementLock.
Return(op) ==
  /\ phase' = "free" /\ step' = "next" /\ todo' = {}
  /\ last' = op
  /\ UNCHANGED <<wanted, cur, updates, crashes>>

At(s) == phase # "free" /\ step = s

Existing == {w \in Workloads : pod[w] # None}
Configured == {w \in Workloads : wanted[w] # None}

\* Mutation: what is stored is the deployment, not the pod made of it.
PodYamlUnconverted(d) == d

\* toPod and toPodYaml; the auth file adds a label with its path.
PodYaml(d) == [spec |-> d.spec, authLabel |-> d.auth # NoAuth]

\* hasAutoUpdateEnabled
AutoUpdate(m) == m.authLabel \/ m.spec \in SelfUpdating

\* The pod of w is gone: an id recorded for it no longer finds a pod.
Gone(repo, w) == [repo EXCEPT ![w] = IF @ = "live" THEN "stale" ELSE @]

-----------------------------------------------------------------------------
(* WorkloadManager.Update: the configured workloads *)

\* A deregistered manager returns at once.
BeginUpdate(conf) ==
  /\ phase = "free"
  /\ updates < MaxUpdates
  /\ updates' = updates + 1
  /\ IF deregistered
       THEN UNCHANGED <<wanted, phase, step, cur, todo, errs, last, crashes>>
       ELSE /\ wanted' = conf
            /\ phase' = "apply" /\ step' = "next" /\ errs' = FALSE
            /\ todo' = {w \in Workloads : conf[w] # None}
            /\ UNCHANGED <<cur, last, crashes>>
  /\ UNCHANGED <<events, deregistered, files, pod, repository, services, faults>>

\* Mutation: only the manifest is compared.
ManifestModified(w) == manifest[w] # PodYaml(wanted[w])

\* podConfigurationModified
Modified(w) ==
  \/ manifest[w] # PodYaml(wanted[w])
  \/ authFile[w] # wanted[w].auth

NextWorkload(w) ==
  /\ At("next") /\ phase = "apply"
  /\ w \in todo
  /\ cur' = w
  /\ todo' = todo \ {w}
  /\ step' = IF Modified(w) THEN "store" ELSE "next"
  /\ UNCHANGED <<wanted, phase, errs, last, updates, crashes, events, deregistered,
                 files, pod, repository, services, faults>>

\* The pod is ill-formed, waits for a mount, or its directory cannot be made.
RejectWorkload(w) ==
  /\ At("next") /\ phase = "apply"
  /\ w \in todo
  /\ faults < setting.faults
  /\ faults' = faults + 1
  /\ todo' = todo \ {w}
  /\ errs' = TRUE
  /\ UNCHANGED <<wanted, phase, step, cur, last, updates, crashes, events, deregistered,
                 files, pod, repository, services>>

StoreManifest ==
  /\ At("store")
  /\ \/ Then("auth") /\ manifest' = [manifest EXCEPT ![cur] = PodYaml(wanted[cur])]
     \/ Fails /\ manifest' \in {manifest, [manifest EXCEPT ![cur] = Torn]}
  /\ UNCHANGED <<events, deregistered, authFile, pod, repository, services>>

ManageAuthFile ==
  /\ At("auth")
  /\ \/ Then("unlink") /\ authFile' = [authFile EXCEPT ![cur] = wanted[cur].auth]
     \/ Fails /\ UNCHANGED authFile
     \/ Fails /\ wanted[cur].auth # NoAuth /\ authFile' = [authFile EXCEPT ![cur] = Torn]
  /\ UNCHANGED <<events, deregistered, manifest, pod, repository, services>>

-----------------------------------------------------------------------------
(* Workload.Remove: the service, the pod, the mapping *)

\* What stopping the unit of w does to its pod; --down needs the manifest.
StopUnit(w) ==
  IF unit[w] = "auto" /\ manifest[w] \in Manifests
    THEN /\ pod' = [pod EXCEPT ![w] = None]
         /\ mapping' = Gone(mapping, w)
         /\ mappingFile' = Gone(mappingFile, w)
    ELSE /\ pod' = IF unit[w] = "plain" /\ pod[w] # None
                     THEN [pod EXCEPT ![w].running = FALSE] ELSE pod
         /\ UNCHANGED repository

\* removeService.  A failure to stop is ignored, and so is a failure to write
\* services.json; removing a unit file that is not there is an error.
RemoveService ==
  /\ At("unlink")
  /\ IF ~service[cur]
       THEN Then("rm") /\ UNCHANGED <<pod, repository, services>>
       ELSE \/ /\ unit[cur] # None
               /\ Then("rm")
               /\ StopUnit(cur)
               /\ unit' = [unit EXCEPT ![cur] = None]
               /\ service' = [service EXCEPT ![cur] = FALSE]
               /\ serviceFile' = service'
            \/ /\ unit[cur] # None
               /\ faults < setting.faults /\ faults' = faults + 1
               /\ StopUnit(cur) \/ UNCHANGED <<pod, repository>>
               /\ unit' = [unit EXCEPT ![cur] = None]
               /\ service' = [service EXCEPT ![cur] = FALSE]
               /\ serviceFile' \in {serviceFile, service'}
               /\ step' = "rm"
               /\ UNCHANGED <<wanted, phase, cur, todo, errs, last, updates, crashes>>
            \/ /\ Fails
               /\ StopUnit(cur) \/ UNCHANGED <<pod, repository>>
               /\ unit' \in {unit, [unit EXCEPT ![cur] = None]}
               /\ UNCHANGED <<service, serviceFile>>
            \/ /\ unit[cur] = None
               /\ errs' = TRUE /\ step' = "next"
               /\ UNCHANGED <<wanted, phase, cur, todo, last, updates, crashes, faults,
                              pod, repository, services>>
  /\ UNCHANGED <<events, deregistered, files>>

\* Mutation: without a recorded id there is nothing to remove.
RemovePodById ==
  /\ At("rm")
  /\ Then("unmap")
  /\ IF mapping[cur] = "live"
       THEN /\ pod' = [pod EXCEPT ![cur] = None]
            /\ mapping' = Gone(mapping, cur) /\ mappingFile' = Gone(mappingFile, cur)
       ELSE UNCHANGED <<pod, repository>>
  /\ UNCHANGED <<events, deregistered, files, services>>

\* podman.Remove is given the recorded id, or the name when none is recorded;
\* a pod that does not exist is no error.
RemovePod ==
  /\ At("rm")
  /\ \/ /\ Then("unmap")
        /\ IF mapping[cur] = "stale"
             THEN UNCHANGED <<pod, repository>>
             ELSE /\ pod' = [pod EXCEPT ![cur] = None]
                  /\ mapping' = Gone(mapping, cur)
                  /\ mappingFile' = Gone(mappingFile, cur)
     \/ Fails /\ UNCHANGED <<pod, repository>>
  /\ UNCHANGED <<events, deregistered, files, services>>

\* Mutation: the entry is removed from memory only.
UnmapInMemory ==
  /\ At("unmap")
  /\ mapping' = [mapping EXCEPT ![cur] = "none"]
  /\ Then(IF phase = "apply" THEN "run" ELSE "next")
  /\ UNCHANGED <<mappingFile, events, deregistered, files, pod, services>>

\* mappingRepository.Remove: the entry leaves memory before the file is
\* written.  A failed write keeps the file as it was.
Unmap ==
  /\ At("unmap")
  /\ mapping' = [mapping EXCEPT ![cur] = "none"]
  /\ \/ /\ Then(IF phase = "apply" THEN "run" ELSE "next")
        /\ mappingFile' = mapping'
     \/ Fails /\ UNCHANGED mappingFile
  /\ UNCHANGED <<events, deregistered, files, pod, services>>

-----------------------------------------------------------------------------
(* Workload.Run: the pod, its mapping, its unit *)

\* A failed Run also queues an event.
RunFails == Fails /\ events' = events + 1

\* podman creates the pod, then its containers: a failure may leave the pod
\* behind.  It refuses a pod whose name is taken.
RunPod ==
  LET created == [pod EXCEPT ![cur] = [manifest |-> manifest[cur], running |-> FALSE]]
  IN /\ At("run")
     /\ \/ pod[cur] = None /\ Then("map") /\ pod' = created /\ UNCHANGED events
        \/ pod[cur] = None /\ RunFails /\ pod' \in {pod, created}
        \/ /\ pod[cur] # None
           /\ errs' = TRUE /\ step' = "next" /\ events' = events + 1
           /\ UNCHANGED <<wanted, phase, cur, todo, last, updates, crashes, faults, pod>>
     /\ UNCHANGED <<deregistered, files, repository, services>>

AddMapping ==
  /\ At("map")
  /\ mapping' = [mapping EXCEPT ![cur] = "live"]
  /\ \/ Then("unit") /\ mappingFile' = mapping' /\ UNCHANGED events
     \/ RunFails /\ UNCHANGED mappingFile
  /\ UNCHANGED <<deregistered, files, pod, services>>

\* GenerateSystemdService, then svc.Add and svc.Enable.
AddUnit ==
  LET kind == IF AutoUpdate(pod[cur].manifest) THEN "auto" ELSE "plain"
      written == [unit EXCEPT ![cur] = kind]
  IN /\ At("unit")
     /\ \/ Then("start") /\ unit' = written /\ UNCHANGED events
        \/ RunFails /\ unit' \in {unit, written}
     /\ UNCHANGED <<deregistered, files, pod, repository, service, serviceFile>>

\* svc.Start: the pod is started, or removed and made anew from the manifest.
\* A failure, be it between the two, is logged and nothing else.
StartUnit ==
  /\ At("start")
  /\ \/ /\ Then("record")
        /\ IF unit[cur] = "auto"
             THEN /\ pod' = [pod EXCEPT ![cur] = [manifest |-> manifest[cur], running |-> TRUE]]
                  /\ mapping' = Gone(mapping, cur)
                  /\ mappingFile' = Gone(mappingFile, cur)
             ELSE /\ pod' = [pod EXCEPT ![cur].running = TRUE]
                  /\ UNCHANGED repository
     \/ /\ faults < setting.faults /\ faults' = faults + 1
        /\ step' = "record"
        /\ \/ UNCHANGED <<pod, repository>>
           \/ /\ unit[cur] = "auto"
              /\ pod' = [pod EXCEPT ![cur] = None]
              /\ mapping' = Gone(mapping, cur)
              /\ mappingFile' = Gone(mappingFile, cur)
        /\ UNCHANGED <<wanted, phase, cur, todo, errs, last, updates, crashes>>
  /\ UNCHANGED <<events, deregistered, files, services>>

\* serviceManager.Add
RecordService ==
  /\ At("record")
  /\ service' = [service EXCEPT ![cur] = TRUE]
  /\ \/ Then("report") /\ serviceFile' = service' /\ UNCHANGED events
     \/ RunFails /\ UNCHANGED serviceFile
  /\ UNCHANGED <<deregistered, files, pod, repository, unit>>

\* GetPodReportForId; on success the started event is sent in the background.
ReportPod ==
  /\ At("report")
  /\ \/ pod[cur] # None /\ Then("next") /\ UNCHANGED events
     \/ pod[cur] # None /\ RunFails
     \/ /\ pod[cur] = None
        /\ errs' = TRUE /\ step' = "next" /\ events' = events + 1
        /\ UNCHANGED <<wanted, phase, cur, todo, last, updates, crashes, faults>>
  /\ UNCHANGED <<deregistered, files, pod, repository, services>>

-----------------------------------------------------------------------------
(* WorkloadManager.Update: the pods that are no longer configured *)

ListDeployed ==
  /\ At("next") /\ phase = "apply" /\ todo = {}
  /\ \/ /\ phase' = "prune"
        /\ todo' = Existing \ Configured
        /\ UNCHANGED <<wanted, step, cur, errs, last, updates, crashes, faults>>
     \/ /\ faults < setting.faults /\ faults' = faults + 1
        /\ errs' = TRUE
        /\ Return("update")
  /\ UNCHANGED <<events, deregistered, files, pod, repository, services>>

\* The workload's directory goes first; failing to delete it does not stop
\* the removal of the pod.
PruneWorkload(w) ==
  /\ At("next") /\ phase = "prune"
  /\ w \in todo
  /\ cur' = w /\ todo' = todo \ {w}
  /\ step' = "unlink"
  /\ \/ /\ manifest' = [manifest EXCEPT ![w] = None]
        /\ authFile' = [authFile EXCEPT ![w] = NoAuth]
        /\ UNCHANGED <<errs, faults>>
     \/ /\ faults < setting.faults /\ faults' = faults + 1
        /\ errs' = TRUE
        /\ UNCHANGED files
  /\ UNCHANGED <<wanted, phase, last, updates, crashes, events, deregistered, pod,
                 repository, services>>

EndUpdate ==
  /\ At("next") /\ phase = "prune" /\ todo = {}
  /\ Return("update")
  /\ UNCHANGED <<errs, events, deregistered, files, pod, repository, services, faults>>

-----------------------------------------------------------------------------
(* StopWorkloads and Deregister both start from the list of pods *)

\* Mutation: the configured workloads are stopped, not the deployed ones.
BeginStopConfigured ==
  /\ phase = "free"
  /\ phase' = "stop" /\ step' = "next" /\ errs' = FALSE
  /\ todo' = Configured
  /\ UNCHANGED <<wanted, cur, last, updates, crashes, events, deregistered,
                 files, pod, repository, services, faults>>

\* When the pods cannot be listed none is stopped.
BeginStop ==
  /\ phase = "free"
  /\ \/ /\ phase' = "stop" /\ step' = "next" /\ errs' = FALSE
        /\ todo' = Existing
        /\ UNCHANGED <<wanted, cur, last, updates, crashes, faults>>
     \/ /\ faults < setting.faults /\ faults' = faults + 1
        /\ errs' = TRUE
        /\ Return("stop")
  /\ UNCHANGED <<events, deregistered, files, pod, repository, services>>

\* podman.Stop by the recorded id, or by name.
StopPod(w) ==
  /\ At("next") /\ phase = "stop"
  /\ w \in todo
  /\ cur' = w /\ todo' = todo \ {w}
  /\ \/ /\ pod' = IF mapping[w] # "stale" /\ pod[w] # None
                    THEN [pod EXCEPT ![w].running = FALSE] ELSE pod
        /\ UNCHANGED <<errs, faults>>
     \/ /\ faults < setting.faults /\ faults' = faults + 1
        /\ errs' = TRUE /\ UNCHANGED pod
  /\ UNCHANGED <<wanted, phase, step, last, updates, crashes, events, deregistered, files,
                 repository, services>>

EndStop ==
  /\ At("next") /\ phase = "stop" /\ todo = {}
  /\ Return("stop")
  /\ UNCHANGED <<errs, events, deregistered, files, pod, repository, services, faults>>

\* Mutation: the configured workloads are removed, not the deployed ones.
BeginDeregisterConfigured ==
  /\ phase = "free"
  /\ phase' = "clean" /\ todo' = Configured /\ step' = "next" /\ errs' = FALSE
  /\ UNCHANGED <<wanted, cur, last, updates, crashes, events, deregistered,
                 files, pod, repository, services, faults>>

\* When the pods cannot be listed none is removed and Deregister goes on.
BeginDeregister ==
  /\ phase = "free"
  /\ phase' = "clean"
  /\ \/ todo' = Existing /\ step' = "next" /\ errs' = FALSE /\ UNCHANGED faults
     \/ /\ faults < setting.faults /\ faults' = faults + 1
        /\ todo' = {} /\ step' = "files" /\ errs' = TRUE
  /\ UNCHANGED <<wanted, cur, last, updates, crashes, events, deregistered, files, pod,
                 repository, services>>

RemoveNext(w) ==
  /\ At("next") /\ phase = "clean"
  /\ w \in todo
  /\ cur' = w /\ todo' = todo \ {w}
  /\ step' = "unlink"
  /\ UNCHANGED <<wanted, phase, errs, last, updates, crashes, events, deregistered, files,
                 pod, repository, services, faults>>

AllRemoved ==
  /\ At("next") /\ phase = "clean" /\ todo = {}
  /\ Then("files")
  /\ UNCHANGED <<events, deregistered, files, pod, repository, services>>

\* The manifests, the mapping file and the services file are deleted, each
\* whether or not the others could be.  Memory keeps its entries.
DeleteFiles ==
  LET noManifest == [w \in Workloads |-> None]
      noAuth == [w \in Workloads |-> NoAuth]
      noId == [w \in Workloads |-> "none"]
      noService == [w \in Workloads |-> FALSE]
  IN /\ At("files")
     /\ deregistered' = TRUE
     /\ Return("deregister")
     /\ \/ /\ manifest' = noManifest /\ authFile' = noAuth
           /\ mappingFile' = noId /\ serviceFile' = noService
           /\ UNCHANGED <<errs, faults>>
        \/ /\ faults < setting.faults /\ faults' = faults + 1
           /\ errs' = TRUE
           /\ \/ manifest' = noManifest /\ authFile' = noAuth
              \/ UNCHANGED files
           /\ mappingFile' \in {mappingFile, noId}
           /\ serviceFile' \in {serviceFile, noService}
     /\ UNCHANGED <<events, pod, mapping, service, unit>>

-----------------------------------------------------------------------------
\* The heartbeat takes the queued events, under managementLock.
PopEvents ==
  /\ phase = "free"
  /\ events > 0
  /\ events' = 0
  /\ UNCHANGED <<control, deregistered, files, pod, repository, services, faults>>

\* The process dies and starts again: the repository and the services are
\* read back from their files.  main then calls Update, through Init.
Crash ==
  /\ crashes < setting.crashes
  /\ crashes' = crashes + 1
  /\ phase' = "free" /\ step' = "next" /\ todo' = {} /\ errs' = FALSE
  /\ last' = "none" /\ events' = 0 /\ deregistered' = FALSE
  /\ mapping' = mappingFile
  /\ service' = serviceFile
  /\ UNCHANGED <<wanted, cur, updates, faults, files, pod, mappingFile, serviceFile, unit>>

Remove == RemoveService \/ RemovePod \/ Unmap
Run == RunPod \/ AddMapping \/ AddUnit \/ StartUnit \/ RecordService \/ ReportPod

Step ==
  \/ \E conf \in [Workloads -> Asked \cup {None}] : BeginUpdate(conf)
  \/ \E w \in Workloads :
       NextWorkload(w) \/ RejectWorkload(w) \/ PruneWorkload(w) \/ StopPod(w) \/ RemoveNext(w)
  \/ StoreManifest \/ ManageAuthFile
  \/ Remove \/ Run
  \/ ListDeployed \/ EndUpdate
  \/ BeginStop \/ EndStop
  \/ BeginDeregister \/ AllRemoved \/ DeleteFiles
  \/ PopEvents
  \/ Crash

Next == Step /\ UNCHANGED setting

Spec == Init /\ [][Next]_vars

-----------------------------------------------------------------------------
(* Properties *)

Plain(w) == pod[w] # None /\ ~AutoUpdate(pod[w].manifest)

\* The repository, in memory and on disk, never names a dead pod for a
\* workload whose pod exists, so that Remove and Stop find it, after any
\* failures and crashes.  It holds of pods that are not replaced by their own
\* systemd unit.  (Workload.Remove, Workload.Run, mappingRepository)
MappingFindsPod ==
  \A w \in Workloads : Plain(w) => mapping[w] # "stale" /\ mappingFile[w] # "stale"

Deployed(w) == pod[w] # None /\ pod[w].manifest = PodYaml(wanted[w])

AfterUpdate == phase = "free" /\ last = "update"

\* Without a failure, an Update leaves every configured workload deployed from
\* its current manifest and with its current auth file, whatever updates,
\* stops and removals came before.  With one it need not: the manifest is
\* stored before the pod is replaced, so a workload whose Run failed counts as
\* unchanged from then on.  (WorkloadManager.Update)
Converges ==
  AfterUpdate /\ faults = 0 /\ crashes = 0 =>
    \A w \in Configured :
      /\ Deployed(w)
      /\ manifest[w] = pod[w].manifest
      /\ authFile[w] = wanted[w].auth

\* A failing call costs the workload it was made for and no other: every other
\* workload of the configuration is still tried.  (WorkloadManager.Update;
\* manager_test.go, "Some workloads failed")
OneFailureOneWorkload ==
  AfterUpdate /\ crashes = 0 =>
    Cardinality({w \in Configured : ~Deployed(w)}) <= faults

\* An Update that reports no error leaves no pod that is not configured.  It
\* does not hold of the pods of auto-update units.  (WorkloadManager.Update:
\* "Remove any workloads that don't correspond to the configured ones")
StaleRemoved == AfterUpdate /\ ~errs => Existing \subseteq Configured

\* The same of the pods that are not replaced by their own unit, after any
\* failures and crashes.
StalePlainRemoved ==
  AfterUpdate /\ ~errs => \A w \in Existing \ Configured : ~Plain(w)

\* A StopWorkloads that reports no error leaves no pod running but those of
\* auto-update units; a graceful reboot counts on it.
\* (WorkloadManager.StopWorkloads, "stopping all workloads")
StopStopsAll ==
  phase = "free" /\ last = "stop" /\ ~errs =>
    \A w \in Existing : Plain(w) => ~pod[w].running

\* A Deregister that reports no error leaves no manifest, nothing in the two
\* files and no pod but those of auto-update units, after any failures and
\* crashes.  (WorkloadManager.Deregister)
DeregisterLeavesNothing ==
  phase = "free" /\ last = "deregister" /\ ~errs =>
    \A w \in Workloads :
      /\ ~Plain(w) /\ manifest[w] = None
      /\ mappingFile[w] = "none" /\ ~serviceFile[w]
=============================================================================
