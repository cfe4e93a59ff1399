------------------------- MODULE WorkloadObservers -------------------------
(***************************************************************************)
(* The workload logs, the mount manager and the data transfer monitor      *)
(* together, on the goroutines that call them, with the part of the        *)
(* workload manager that makes and removes the pods they are told of.      *)
(* (WorkloadManager has that part in detail.)                              *)
(***************************************************************************)
EXTENDS WorkloadLogs, MountManager, DataTransfer

vars == <<busVars, logsVars, mountVars, transferVars>>

TypeOK == BusTypeOK /\ LogsTypeOK /\ MountTypeOK /\ TransferTypeOK

Init == BusInit /\ LogsInit /\ MountInit /\ TransferInit

-----------------------------------------------------------------------------
(* WorkloadManager.Update, after the logs and before the mounts *)

\* PodShouldWaitForMount: a pod whose block device is a configured mount is not
\* made while no mount is listed there, and no other try is made for it.
IsPathMounted(d) == d \in Listing
WaitsForMount(w) ==
  \E k \in DOMAIN Conf.mounts :
    Conf.mounts[k].directory = Conf.volume[w] /\ ~IsPathMounted(Conf.volume[w])

\* A pod that exists is as configured, waits, cannot be made, or is made.
UpdateWorkload(w) ==
  /\ Alive /\ turn = "pods"
  /\ w \in todo /\ todo' = todo \ {w}
  /\ \/ (w \in pods \/ WaitsForMount(w)) /\ UNCHANGED <<pods, events, late, faults>>
     \/ w \notin pods /\ ~WaitsForMount(w) /\ Fault /\ UNCHANGED <<pods, events, late>>
     \/ w \notin pods /\ ~WaitsForMount(w) /\ Started(w) /\ UNCHANGED faults
  /\ UNCHANGED <<proc, configVars, turn, handling>>

EndWorkloads ==
  /\ Alive /\ turn = "pods" /\ todo = {}
  /\ \/ Pass("prune") /\ todo' = pods \ Conf.workloads /\ UNCHANGED faults
     \/ Pass("mounts") /\ Fault /\ UNCHANGED todo
  /\ UNCHANGED <<pods, eventVars>>

PruneWorkload(w) ==
  /\ Alive /\ turn = "prune"
  /\ w \in todo /\ todo' = todo \ {w}
  /\ \/ Removed(w) /\ UNCHANGED faults
     \/ Fault /\ UNCHANGED <<pods, events, late>>
  /\ UNCHANGED <<proc, configVars, turn, handling>>

EndPrune ==
  /\ Alive /\ turn = "prune" /\ todo = {}
  /\ Pass("mounts")
  /\ UNCHANGED <<todo, pods, eventVars, faults>>

UpdateWorkloads ==
  \/ \E w \in Workloads : UpdateWorkload(w) \/ PruneWorkload(w)
  \/ EndWorkloads \/ EndPrune

-----------------------------------------------------------------------------

Bus ==
  \/ Receive \/ Save \/ TakeEvent
  \/ \E w \in Workloads : RestartPod(w) \/ TakeLate(w)

Next ==
  \/ (Bus \/ UpdateWorkloads) /\ UNCHANGED <<logsVars, mountVars, transferVars>>
  \/ LogsNext /\ UNCHANGED <<mountVars, transferVars>>
  \/ UpdateMounts /\ UNCHANGED <<logsVars, transferVars>>
  \/ TransferNext /\ UNCHANGED <<logsVars, mountVars>>

\* Go runs the goroutine of every transport.
Fairness == \A b \in Transports : WF_vars(SendLine(b) /\ UNCHANGED <<mountVars, transferVars>>)

Spec == Init /\ [][Next]_vars /\ Fairness
=============================================================================
