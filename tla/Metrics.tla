------------------------------- MODULE Metrics -------------------------------
(***************************************************************************)
(* The metrics of the device: the targets of the metrics daemon and their  *)
(* goroutines (internal/metrics/daemon.go), the observers that set them    *)
(* (system.go, data_transfer.go, workload.go) and the retention of the     *)
(* store (metrics.go).                                                     *)
(*                                                                         *)
(* Three goroutines change the targets: the consumer of configurations,    *)
(* the one that hands pod events to the observers (workload/wrapper.go),   *)
(* and a deregistration.  podman, systemd and the vendored store are       *)
(* external.                                                               *)
(***************************************************************************)
EXTENDS Naturals, Sequences, FiniteSets

CONSTANTS
  Workloads,   \* names of workloads
  Messages,    \* configurations: intervals, workloads and a retention
  Default,     \* the one a device starts with
  None,        \* no value
  MaxEvents,   \* bound: events of podman under way
  MaxFaults    \* bound: failing calls and crashes

\* The components that have a target of their own; interval 0 is "disabled".  A
\* workload may have the name of one: all targets are in one map.
Components == {"system", "transfer"}
Names == Components \cup Workloads

PodEvents == [kind : {"started", "stopped"}, name : Workloads]

ASSUME ConstantsAssumption ==
  /\ None \notin Names \cup Nat
  /\ Messages \subseteq [intervals : [Components -> Nat], retention : Nat,
                         workloads : SUBSET Workloads, metered : SUBSET Workloads]
  /\ \A m \in Messages : m.metered \subseteq m.workloads
  /\ Default \in Messages
  /\ MaxEvents \in Nat /\ MaxFaults \in Nat

VARIABLES
  pc,        \* where Manager.Update, or main's registration of observers, is
  msg,       \* the message it works on
  saved,     \* what the configuration manager has on disk
  result,    \* what the last Update of each observer returned
  latest,    \* latestConfig of SystemMetrics and of DataTransferMetrics
  exporter,  \* the unit node_exporter: is it enabled, does it run
  config,    \* WorkloadMetrics.workloadConfig: which have metrics
  current,   \* metricsDaemon.targets: the interval of each target, or 0
  clashed,   \* events of a workload named like a component changed its target
  store,     \* the retention the store was opened with, None when closed
  applied,   \* the retention of TSDB.appliedOptions
  pods,      \* the workloads that have a pod
  stream,    \* events from podman, in order
  sent,      \* the workloads with a started event sent by a goroutine of the worker
  handling,  \* the workload whose started event is being handled
  listening, \* WorkloadMetrics is an observer of the workloads
  closing,   \* where a deregistration is
  late,      \* a started event was handled for a configured workload without a pod
  halfway,   \* the exporter changed, and the change is in no configuration
  broken,    \* the store was closed to be opened again, and was not
  faults

configVars == <<pc, msg, saved, result>>
systemVars == <<latest, exporter, halfway>>
targets == <<current, clashed>>
storage == <<store, applied, broken>>
events == <<stream, sent, handling, listening, late>>
vars == <<configVars, systemVars, config, targets, storage, pods, events, closing, faults>>

Steps == {"down", "idle", "store", "workloads", "system", "exporter", "target",
          "transfer", "subscribe", "pods", "save"}

TypeOK ==
  /\ pc \in Steps /\ msg \in Messages /\ saved \in Messages
  /\ result \in [{"store", "system"} -> {"ok", "error"}]
  /\ latest \in [Components -> Nat \cup {None}]
  /\ exporter \in [enabled : BOOLEAN, running : BOOLEAN]
  /\ config.metered \subseteq config.workloads /\ config.workloads \subseteq Workloads
  /\ current \in [Names -> Nat] /\ clashed \subseteq Components
  /\ store \in Nat \cup {None} /\ applied \in Nat
  /\ pods \subseteq Workloads
  /\ stream \in Seq(PodEvents)
  /\ sent \subseteq Workloads /\ handling \in Workloads \cup {None}
  /\ closing \in {"no", "pods", "system", "store", "done"}
  /\ listening \in BOOLEAN /\ late \in BOOLEAN
  /\ halfway \in BOOLEAN /\ broken \in BOOLEAN
  /\ faults \in 0..MaxFaults

Init ==
  /\ pc = "down" /\ msg = Default /\ saved = Default
  /\ result = [o \in {"store", "system"} |-> "ok"]
  /\ latest = [c \in Components |-> None]
  /\ exporter = [enabled |-> FALSE, running |-> FALSE]
  /\ config = [workloads |-> {}, metered |-> {}]
  /\ current = [n \in Names |-> 0] /\ clashed = {}
  /\ store = None /\ applied = Default.retention
  /\ pods = {} /\ stream = <<>> /\ sent = {}
  /\ handling = None /\ listening = FALSE /\ closing = "no"
  /\ late = FALSE /\ halfway = FALSE /\ broken = FALSE
  /\ faults = 0

Fault == faults < MaxFaults /\ faults' = faults + 1

-----------------------------------------------------------------------------
(* The process *)

\* main opens the store and registers the observers, in the order of Update:
\* each is handed the saved configuration by its Init.
Boot ==
  /\ pc = "down"
  /\ pc' = "store" /\ msg' = saved
  /\ store' = Default.retention /\ applied' = Default.retention
  /\ UNCHANGED <<saved, result, systemVars, config, targets, broken, pods, events,
                 closing, faults>>

\* The death of the process; pods and units stay.
Die ==
  /\ pc' = "down"
  /\ result' = [o \in {"store", "system"} |-> "ok"]
  /\ latest' = [c \in Components |-> None]
  /\ config' = [workloads |-> {}, metered |-> {}]
  /\ current' = [n \in Names |-> 0] /\ clashed' = {}
  /\ store' = None
  /\ stream' = <<>> /\ sent' = {} /\ handling' = None
  /\ listening' = FALSE /\ closing' = "no"
  /\ late' = FALSE /\ broken' = FALSE
  /\ UNCHANGED <<msg, saved, exporter, applied, pods>>

Crash ==
  /\ pc # "down"
  /\ Die /\ Fault
  /\ UNCHANGED halfway

-----------------------------------------------------------------------------
(* The daemon *)

DeleteTarget(n) == current' = [current EXCEPT ![n] = 0]

\* It stops the target that is already present.
AddTarget(n, interval) == current' = [current EXCEPT ![n] = interval]

-----------------------------------------------------------------------------
(* Manager.Update: the observers, one after the other *)

Update(m) ==
  /\ pc = "idle"
  /\ pc' = "store" /\ msg' = m
  /\ UNCHANGED <<saved, result, systemVars, config, targets, storage, pods, events,
                 closing, faults>>

Return(o, r, next) ==
  /\ result' = [result EXCEPT ![o] = r]
  /\ pc' = next
  /\ UNCHANGED <<msg, saved>>

\* Mutation: the store is opened with options of its own.
ReopenForgets == store' = msg.retention /\ UNCHANGED <<applied, broken>>

Reopen == store' = msg.retention /\ applied' = msg.retention /\ UNCHANGED broken

\* Close reports errors after it has closed; Open fails after the new retention
\* was noted.
FailReopen == store' = None /\ applied' \in {applied, msg.retention} /\ broken' = TRUE

\* TSDB.Update.  A store closed a second time panics.
UpdateStore ==
  /\ pc = "store"
  /\ \/ /\ msg.retention = applied
        /\ Return("store", "ok", "workloads")
        /\ UNCHANGED <<systemVars, config, targets, storage, events, pods, closing, faults>>
     \/ /\ msg.retention # applied /\ store = None
        /\ Die
        /\ UNCHANGED <<halfway, faults>>
     \/ /\ msg.retention # applied /\ store # None
        /\ \/ Reopen /\ Return("store", "ok", "workloads") /\ UNCHANGED faults
           \/ FailReopen /\ Return("store", "error", "workloads") /\ Fault
        /\ UNCHANGED <<systemVars, config, targets, events, pods, closing>>

UpdateWorkloads ==
  /\ pc = "workloads"
  /\ config' = [workloads |-> msg.workloads, metered |-> msg.metered]
  /\ pc' = "system"
  /\ UNCHANGED <<msg, saved, result, systemVars, targets, storage, pods, events, closing,
                 faults>>

-----------------------------------------------------------------------------
(* SystemMetrics and DataTransferMetrics *)

Wanted(c) == msg.intervals[c]

Unchanged(c) == latest[c] = Wanted(c)

\* ensureNodeExporterState: enable then start, or stop then disable.
FirstCall ==
  exporter' = IF Wanted("system") = 0 THEN [exporter EXCEPT !.running = FALSE]
                                      ELSE [exporter EXCEPT !.enabled = TRUE]

SecondCall ==
  exporter' = IF Wanted("system") = 0 THEN [exporter EXCEPT !.enabled = FALSE]
                                      ELSE [exporter EXCEPT !.running = TRUE]

\* Mutation: the configuration is remembered before the exporter followed it.
RememberFirst == latest' = [latest EXCEPT !["system"] = Wanted("system")]

\* What an Update that fails in the exporter remembers.
RememberFailed == UNCHANGED latest

UpdateSystem ==
  /\ pc = "system"
  /\ \/ /\ Unchanged("system")
        /\ Return("system", "ok", "transfer")
        /\ UNCHANGED <<systemVars, faults>>
     \/ /\ ~Unchanged("system") /\ FirstCall
        /\ pc' = "exporter"
        /\ UNCHANGED <<msg, saved, result, latest, halfway, faults>>
     \/ /\ ~Unchanged("system") /\ RememberFailed /\ Fault
        /\ Return("system", "error", "transfer")
        /\ UNCHANGED <<exporter, halfway>>
  /\ UNCHANGED <<config, targets, storage, pods, events, closing>>

EndExporter ==
  /\ pc = "exporter"
  /\ \/ /\ SecondCall /\ halfway' = FALSE
        /\ pc' = "target"
        /\ UNCHANGED <<msg, saved, result, latest, faults>>
     \/ /\ RememberFailed /\ Fault
        /\ Return("system", "error", "transfer")
        /\ halfway' = TRUE
        /\ UNCHANGED exporter
  /\ UNCHANGED <<config, targets, storage, pods, events, closing>>

SetTarget(c) ==
  /\ IF Wanted(c) = 0 THEN DeleteTarget(c) ELSE AddTarget(c, Wanted(c))
  /\ latest' = [latest EXCEPT ![c] = Wanted(c)]
  /\ UNCHANGED <<exporter, halfway, config, clashed, storage, pods, events, closing, faults>>

UpdateTarget ==
  /\ pc = "target"
  /\ SetTarget("system")
  /\ Return("system", "ok", "transfer")

\* The worker subscribes to podman's events before the workload manager is
\* registered; it is told of the pods that run.
UpdateTransfer ==
  /\ pc = "transfer"
  /\ pc' = IF listening THEN "pods" ELSE "subscribe"
  /\ IF Unchanged("transfer")
       THEN UNCHANGED <<systemVars, config, targets, storage, pods, events, closing, faults>>
       ELSE SetTarget("transfer")
  /\ UNCHANGED <<msg, saved, result>>

Subscribe ==
  /\ pc = "subscribe"
  /\ pc' = "pods"
  /\ sent' = pods
  /\ UNCHANGED <<msg, saved, result, systemVars, config, targets, storage, pods, stream,
                 handling, listening, late, closing, faults>>

-----------------------------------------------------------------------------
(* Pods and their events *)

\* The event loop of the worker runs.
Subscribed == listening \/ pc \in {"pods", "save"}

\* The workload manager's Update, seen from here: it starts or removes a pod,
\* or fails and leaves the rest.  A pod its unit starts may send no event, so
\* Run, unless it fails first, sends one, from a goroutine.
StartPod(w) ==
  /\ pc = "pods" /\ closing = "no"
  /\ w \in msg.workloads \ pods
  /\ pods' = pods \cup {w}
  /\ \/ UNCHANGED stream
     \/ /\ Len(stream) < MaxEvents
        /\ stream' = Append(stream, [kind |-> "started", name |-> w])
  /\ \/ w \notin sent /\ sent' = sent \cup {w} /\ UNCHANGED faults
     \/ Fault /\ UNCHANGED sent
  /\ UNCHANGED <<configVars, systemVars, config, targets, storage, handling, listening,
                 late, closing>>

RemovePod(w) ==
  /\ w \in pods /\ Subscribed
  /\ \/ pc = "pods" /\ closing = "no" /\ w \notin msg.workloads
     \/ closing = "pods"
  /\ Len(stream) < MaxEvents
  /\ pods' = pods \ {w}
  /\ stream' = Append(stream, [kind |-> "stopped", name |-> w])
  /\ UNCHANGED <<configVars, systemVars, config, targets, storage, sent, handling,
                 listening, late, closing, faults>>

EndPods ==
  /\ pc = "pods"
  /\ pc' = "save"
  /\ \/ (pods = msg.workloads \/ closing # "no") /\ UNCHANGED faults
     \/ Fault
  /\ UNCHANGED <<msg, saved, result, systemVars, config, targets, storage, pods, events,
                 closing>>

\* The end of Update; at the start, main makes WorkloadMetrics an observer of
\* the workloads after it registered the workload manager.
Save ==
  /\ pc = "save"
  /\ pc' = "idle" /\ saved' = msg /\ listening' = TRUE
  /\ UNCHANGED <<msg, result, systemVars, config, targets, storage, pods, stream, sent,
                 handling, late, closing, faults>>

\* systemd or podman replaces a pod, or the workload manager does, whose Run
\* sends an event of its own.
ReplacePod(w) ==
  /\ w \in pods /\ Subscribed
  /\ Len(stream) + 1 < MaxEvents
  /\ stream' = stream \o <<[kind |-> "stopped", name |-> w],
                           [kind |-> "started", name |-> w]>>
  /\ \/ UNCHANGED sent
     \/ /\ pc = "pods" /\ closing = "no" /\ w \in msg.workloads /\ w \notin sent
        /\ sent' = sent \cup {w}
  /\ UNCHANGED <<configVars, systemVars, config, targets, storage, pods, handling,
                 listening, late, closing, faults>>

-----------------------------------------------------------------------------
(* The goroutine that hands the events to the observers *)

\* Mutation: a workload that is not part of the configuration gets a target.
HandleAnyway(w) == handling' = w

\* WorkloadStarted reads the configuration; without metrics there is nothing
\* to add.
Handle(w) == handling' = IF w \in config.metered THEN w ELSE None

Clash(w) == clashed' = clashed \cup ({w} \cap Components)

\* A started event is dropped when the pod cannot be inspected any more; it may
\* be handled when the pod is gone, if it was inspected before.
HandleEvent ==
  /\ handling = None /\ stream # <<>>
  /\ stream' = Tail(stream)
  /\ LET e == Head(stream) IN
       \/ /\ ~listening \/ (e.kind = "started" /\ e.name \notin pods)
          /\ UNCHANGED <<targets, handling>>
       \/ /\ listening /\ e.kind = "stopped"
          /\ DeleteTarget(e.name) /\ Clash(e.name)
          /\ UNCHANGED handling
       \/ /\ listening /\ e.kind = "started"
          /\ Handle(e.name)
          /\ UNCHANGED targets
  /\ UNCHANGED <<configVars, systemVars, config, storage, pods, sent, listening, late,
                 closing, faults>>

HandleSent(w) ==
  /\ handling = None /\ w \in sent
  /\ sent' = sent \ {w}
  /\ IF listening THEN Handle(w) ELSE UNCHANGED handling
  /\ late' = (late \/ (listening /\ w \in config.metered \ pods))
  /\ UNCHANGED <<configVars, systemVars, config, targets, storage, pods, stream, listening,
                 closing, faults>>

AddWorkload ==
  /\ handling # None
  /\ AddTarget(handling, 1) /\ Clash(handling)
  /\ handling' = None
  /\ UNCHANGED <<configVars, systemVars, config, storage, pods, stream, sent, listening,
                 late, closing, faults>>

-----------------------------------------------------------------------------
(* Registration.Deregister, on a goroutine of the gRPC server *)

\* The workload manager removes the pods under the lock its Update holds.
Deregister ==
  /\ pc \notin {"down", "pods"} /\ listening /\ closing = "no"
  /\ closing' = "pods"
  /\ UNCHANGED <<configVars, systemVars, config, targets, storage, pods, events, faults>>

DeregisterPods ==
  /\ closing = "pods"
  /\ \/ pods = {} /\ UNCHANGED faults
     \/ Fault
  /\ closing' = "system"
  /\ UNCHANGED <<configVars, systemVars, config, targets, storage, pods, events>>

DeregisterSystem ==
  /\ closing = "system"
  /\ DeleteTarget("system")
  /\ closing' = "store"
  /\ UNCHANGED <<configVars, systemVars, config, clashed, storage, pods, events, faults>>

\* TSDB.Deregister; a store that is closed already panics.
DeregisterStore ==
  /\ closing = "store"
  /\ \/ /\ store # None
        /\ store' = None /\ closing' = "done"
        /\ UNCHANGED <<configVars, systemVars, config, targets, applied, broken, pods,
                       events, faults>>
     \/ /\ store = None
        /\ Die
        /\ UNCHANGED <<halfway, faults>>

-----------------------------------------------------------------------------
(* Specification *)

Observe ==
  \/ UpdateStore \/ UpdateWorkloads \/ UpdateSystem \/ EndExporter \/ UpdateTarget
  \/ UpdateTransfer \/ Subscribe \/ EndPods \/ Save

Next ==
  \/ Boot \/ Crash \/ Observe
  \/ \E m \in Messages : Update(m)
  \/ \E w \in Workloads : StartPod(w) \/ RemovePod(w) \/ ReplacePod(w) \/ HandleSent(w)
  \/ HandleEvent \/ AddWorkload
  \/ Deregister \/ DeregisterPods \/ DeregisterSystem \/ DeregisterStore

Spec == Init /\ [][Next]_vars

-----------------------------------------------------------------------------
(* Properties *)

Quiet == pc = "idle" /\ handling = None /\ stream = <<>> /\ sent = {}

\* Once the events are handled every target of a workload has a pod:
\* WorkloadMetrics forgets a workload before its pod is removed, so that a
\* started event that comes late, after the stopped one, is of a workload it does
\* not know.  It can be of one it knows, when the pod of a configured workload is
\* gone (the device deregistered, or the workload came back and its pod failed):
\* those runs are exempt, and a workload named like a component has the target of
\* that component.  (main's order of observers; WorkloadStarted, WorkloadRemoved)
NoTargetWithoutPod ==
  Quiet /\ ~late => \A w \in (Workloads \ pods) \ Components : current[w] = 0

\* After an Update that reported success the system's target is the configured
\* one, unless the events of a workload of that name changed it; and
\* node_exporter runs, now and after a boot, exactly when there is to be one.
\* The exception is an earlier Update that failed between its two calls of
\* systemd.  (SystemMetrics.Update)
SystemFollows ==
  pc = "idle" /\ result["system"] = "ok" /\ closing = "no" /\ ~halfway =>
    /\ "system" \notin clashed => current["system"] = Wanted("system")
    /\ exporter.enabled = (Wanted("system") # 0)
    /\ exporter.running = (Wanted("system") # 0)

\* After an Update that reported success the store is open with the configured
\* retention, unless it could not be opened again since the start of the
\* process.  (TSDB.Update)
RetentionApplied ==
  pc = "idle" /\ result["store"] = "ok" /\ closing = "no" /\ ~broken =>
    store = msg.retention
=============================================================================
