----------------------- MODULE WorkloadManagerProofs -----------------------
(***************************************************************************)
(* What holds of the workload manager for any workloads, specifications,   *)
(* auth files and settings, hence for any number of failing calls and      *)
(* crashes, with auto-update units and without: the types; that the record *)
(* of a plain pod finds it; that an operation which reports no error has   *)
(* done what it is for; and what a failing call can cost an update.        *)
(***************************************************************************)
EXTENDS WorkloadManager, FiniteSetTheorems, TLAPS

\* The parts of TypeOK, kept one by one.
ControlOK ==
  /\ setting \in Settings
  /\ wanted \in [Workloads -> Deployments \cup {None}]
  /\ phase \in {"free", "apply", "prune", "stop", "clean"}
  /\ step \in {"next", "store", "auth", "unlink", "rm", "unmap", "run", "map",
               "unit", "start", "record", "report", "files"}
  /\ cur \in Workloads /\ todo \in SUBSET Workloads
  /\ last \in {"none", "update", "stop", "deregister"}
FlagsOK == errs \in BOOLEAN /\ deregistered \in BOOLEAN
CountsOK == updates \in Nat /\ events \in Nat /\ faults \in Nat /\ crashes \in Nat
FilesOK ==
  /\ manifest \in [Workloads -> Manifests \cup {None, Torn}]
  /\ authFile \in [Workloads -> Auths \cup {NoAuth, Torn}]
PodsOK == pod \in [Workloads -> Pods \cup {None}]
RecordsOK ==
  /\ mapping \in [Workloads -> Id] /\ mappingFile \in [Workloads -> Id]
  /\ service \in [Workloads -> BOOLEAN] /\ serviceFile \in [Workloads -> BOOLEAN]
  /\ unit \in [Workloads -> {"plain", "auto", None}]

\* Which steps an operation has, and what it is given to work on.
Places ==
  /\ phase \in {"free", "stop"} => step = "next"
  /\ phase = "prune" => step \in {"next", "unlink", "rm", "unmap"}
  /\ phase = "clean" => step \in {"next", "unlink", "rm", "unmap", "files"}
  /\ step = "files" => todo = {}
  /\ phase = "apply" => step # "files" /\ todo \subseteq Configured
  /\ phase = "prune" => todo \cap Configured = {}
  /\ phase = "apply" /\ step # "next" => cur \in Configured
  /\ deregistered => phase \notin {"apply", "prune"} /\ last # "update"

Kind(m) == IF AutoUpdate(m) THEN "auto" ELSE "plain"

\* How far Update has come with the workload it deploys.
Deploying ==
  phase = "apply" =>
    /\ step \notin {"next", "store"} => manifest[cur] = PodYaml(wanted[cur])
    /\ step = "run" => mapping[cur] = "none" /\ mappingFile[cur] = "none"
    /\ step \in {"map", "unit", "start"} =>
         pod[cur] # None /\ pod[cur].manifest = manifest[cur]
    /\ step = "start" => unit[cur] = Kind(manifest[cur])

TypeInv == ControlOK /\ FlagsOK /\ CountsOK /\ FilesOK /\ PodsOK /\ RecordsOK /\ Places /\ Deploying

\* The workloads a loop has not yet dealt with.
Left(w) == w \in todo \/ (w = cur /\ step \in {"unlink", "rm"})

\* What an operation that reported no error so far has done of its loop.
Pruned ==
  ~errs /\ phase = "prune" => \A w \in Existing \ Configured : Plain(w) => Left(w)
Stopped ==
  ~errs /\ phase = "stop" => \A w \in Existing : Plain(w) /\ pod[w].running => w \in todo
Cleaned ==
  ~errs /\ phase = "clean" => \A w \in Existing : Plain(w) => Left(w)

Loops ==
  /\ Pruned /\ StalePlainRemoved
  /\ Stopped /\ StopStopsAll
  /\ Cleaned /\ DeregisterLeavesNothing

(* What failing calls cost *)

InHand(w) == w = cur /\ step # "next"

\* A workload with a manifest has the pod and the unit of that manifest.
Kept(w) ==
  manifest[w] # None =>
    pod[w] # None /\ pod[w].manifest = manifest[w] /\ unit[w] = Kind(manifest[w])

\* What is recorded of a workload finds its unit and its pod.
Consistent(w) ==
  /\ service[w] <=> unit[w] # None
  /\ unit[w] = None /\ pod[w] # None => mapping[w] # "stale"
  /\ unit[w] = "plain" /\ pod[w] # None => ~AutoUpdate(pod[w].manifest)

\* The update that runs, or ran last, has been through with the workload.
Updated(w) ==
  /\ w \in Configured
  /\ \/ phase = "apply" /\ w \notin todo
     \/ phase = "prune"
     \/ AfterUpdate

Applied(w) ==
  Updated(w) => manifest[w] = PodYaml(wanted[w]) /\ authFile[w] = wanted[w].auth

\* How far an operation has come with a workload none of whose calls failed.
Underway(w) ==
  /\ step \in {"store", "auth", "unlink"} => Consistent(w)
  /\ phase = "prune" => w \notin Configured /\ manifest[w] = None
  /\ phase = "apply" /\ step \notin {"store", "auth"} => authFile[w] = wanted[w].auth
  /\ step \in {"rm", "unmap", "run", "map", "unit"} => unit[w] = None /\ ~service[w]
  /\ phase = "apply" =>
       /\ step = "rm" => pod[w] = None \/ mapping[w] # "stale"
       /\ step \in {"unmap", "run"} => pod[w] = None
       /\ step \in {"start", "record", "report"} => unit[w] = Kind(manifest[w])
       /\ step \in {"record", "report"} => pod[w] # None /\ pod[w].manifest = manifest[w]
       /\ step \in {"start", "record"} => ~service[w]
       /\ step = "report" => service[w]

Settled(w) == Kept(w) /\ Consistent(w) /\ Applied(w)

Good(w) == IF InHand(w) THEN Underway(w) ELSE Settled(w)

\* While the worker neither crashes nor is deregistered, only workloads one of
\* whose calls failed can be other than they should be.
Contained ==
  crashes = 0 /\ ~deregistered /\ phase # "clean" =>
    \E F \in SUBSET Workloads :
      Cardinality(F) <= faults /\ \A w \in Workloads \ F : Good(w)

-----------------------------------------------------------------------------
\* What toPodYaml makes of a deployment is a manifest.
LEMMA PodYamlType ==
  ASSUME NEW d \in Deployments
  PROVE  PodYaml(d) \in Manifests /\ PodYaml(d) # None
<1>1. (d.auth # NoAuth) \in BOOLEAN
  OBVIOUS
<1>2. PodYaml(d) \in Manifests
  BY <1>1 DEF PodYaml, Deployments, Manifests
<1>3. QED
  BY <1>2, SpecialValuesAssumption

\* What a configuration asks for are deployments.
LEMMA AskedType ==
  ASSUME setting \in Settings
  PROVE  [Workloads -> Asked \cup {None}] \subseteq [Workloads -> Deployments \cup {None}]
BY ConstantsAssumption DEF Asked, Deployments

\* Removing an id takes that of one workload only, and changes nothing if it is absent.
LEMMA GoneType ==
  ASSUME NEW repo \in [Workloads -> Id], NEW w \in Workloads
  PROVE  /\ Gone(repo, w) \in [Workloads -> Id]
         /\ \A v \in Workloads \ {w} : Gone(repo, w)[v] = repo[v]
         /\ repo[w] = "none" => Gone(repo, w) = repo
BY DEF Gone, Id

\* A pod that is created is a pod.
LEMMA NewPodType ==
  ASSUME NEW m \in Manifests, NEW b \in BOOLEAN
  PROVE  [manifest |-> m, running |-> b] \in Pods /\ [manifest |-> m, running |-> b] # None
BY SpecialValuesAssumption DEF Pods

\* A step that may stop or remove the pod of w, with what is recorded of it, and
\* nothing else of the pods.
Lessened(w) ==
  /\ pod' \in [Workloads -> Pods \cup {None}]
  /\ mapping' \in [Workloads -> Id] /\ mappingFile' \in [Workloads -> Id]
  /\ \A v \in Workloads \ {w} :
       pod'[v] = pod[v] /\ mapping'[v] = mapping[v] /\ mappingFile'[v] = mappingFile[v]
  /\ pod'[w] # None =>
       /\ pod[w] # None /\ pod'[w].manifest = pod[w].manifest
       /\ pod'[w].running => pod[w].running
       /\ mapping'[w] = mapping[w] /\ mappingFile'[w] = mappingFile[w]

\* Stopping a pod lessens it,
LEMMA Halting ==
  ASSUME PodsOK, RecordsOK, NEW w \in Workloads, pod[w] # None, UNCHANGED repository,
         pod' = [pod EXCEPT ![w].running = FALSE]
  PROVE  Lessened(w) /\ pod'[w] # None /\ pod'[w].running = FALSE
<1>1. pod[w] \in Pods
  BY DEF PodsOK
<1>2. pod'[w] = [pod[w] EXCEPT !.running = FALSE]
  BY DEF PodsOK
<1>3. /\ pod'[w] \in Pods /\ pod'[w].manifest = pod[w].manifest
      /\ pod'[w].running = FALSE
  BY <1>1, <1>2 DEF Pods
<1>4. pod' \in [Workloads -> Pods \cup {None}]
  BY <1>2, <1>3 DEF PodsOK
<1>5. pod'[w] # None
  BY <1>3, SpecialValuesAssumption DEF Pods
<1>6. QED
  BY <1>1, <1>3, <1>4, <1>5 DEF Lessened, PodsOK, RecordsOK, repository

\* so does removing it with its id,
LEMMA Removing ==
  ASSUME PodsOK, RecordsOK, NEW w \in Workloads, pod' = [pod EXCEPT ![w] = None],
         mapping' = Gone(mapping, w), mappingFile' = Gone(mappingFile, w)
  PROVE  Lessened(w)
BY GoneType DEF Lessened, PodsOK, RecordsOK

\* and so does a call that touches neither pods nor ids.
LEMMA Keeping ==
  ASSUME PodsOK, RecordsOK, NEW w \in Workloads, UNCHANGED <<pod, repository>>
  PROVE  Lessened(w)
BY DEF Lessened, PodsOK, RecordsOK, repository

\* What stopping a unit does to its pod: it may stop or remove it.
LEMMA Stopping ==
  ASSUME PodsOK, RecordsOK, NEW w \in Workloads, StopUnit(w)
  PROVE  Lessened(w)
<1>1. CASE unit[w] = "auto" /\ manifest[w] \in Manifests
  BY <1>1, Removing DEF StopUnit
<1>2. CASE ~(unit[w] = "auto" /\ manifest[w] \in Manifests)
  BY <1>2, Halting, Keeping DEF StopUnit
<1>3. QED
  BY <1>1, <1>2

\* The same of RemoveService, whatever its calls answer,
LEMMA ServiceEffect ==
  ASSUME PodsOK, RecordsOK, cur \in Workloads, RemoveService PROVE Lessened(cur)
BY Stopping, Keeping DEF RemoveService

\* of removing a pod,
LEMMA RemoveEffect ==
  ASSUME PodsOK, RecordsOK, cur \in Workloads, RemovePod PROVE Lessened(cur)
BY Removing, Keeping DEF RemovePod

\* and of stopping one.
LEMMA StopEffect ==
  ASSUME PodsOK, RecordsOK, NEW w \in Workloads, StopPod(w) PROVE Lessened(w)
BY Halting, Keeping DEF StopPod

\* A pod that its unit replaces is one of an auto-update unit.
LEMMA StartEffect ==
  ASSUME TypeInv, StartUnit
  PROVE  /\ pod' \in [Workloads -> Pods \cup {None}]
         /\ mapping' \in [Workloads -> Id] /\ mappingFile' \in [Workloads -> Id]
         /\ \A v \in Workloads \ {cur} :
              /\ pod'[v] = pod[v]
              /\ mapping'[v] = mapping[v] /\ mappingFile'[v] = mappingFile[v]
         /\ pod'[cur] # None => pod'[cur].manifest = manifest[cur]
         /\ pod'[cur] # None /\ ~AutoUpdate(manifest[cur]) => UNCHANGED repository
<1>1. phase = "apply" /\ step = "start"
  BY DEF StartUnit, At, TypeInv, ControlOK, Places
<1>2. /\ cur \in Workloads /\ manifest[cur] \in Manifests
      /\ pod[cur] # None /\ pod[cur] \in Pods /\ pod[cur].manifest = manifest[cur]
      /\ unit[cur] = "auto" => AutoUpdate(manifest[cur])
  BY <1>1, PodYamlType DEF TypeInv, ControlOK, PodsOK, Places, Deploying, Configured, Kind
<1>3. CASE pod' = [pod EXCEPT ![cur].running = TRUE] /\ UNCHANGED repository
  <2>1. pod'[cur] = [pod[cur] EXCEPT !.running = TRUE]
    BY <1>2, <1>3 DEF TypeInv, PodsOK
  <2>2. pod'[cur] \in Pods /\ pod'[cur].manifest = manifest[cur]
    BY <1>2, <2>1 DEF Pods
  <2>3. QED
    BY <1>2, <1>3, <2>2 DEF TypeInv, PodsOK, RecordsOK, repository
<1>4. CASE /\ unit[cur] = "auto"
           /\ pod' = [pod EXCEPT ![cur] = [manifest |-> manifest[cur], running |-> TRUE]]
           /\ mapping' = Gone(mapping, cur) /\ mappingFile' = Gone(mappingFile, cur)
  BY <1>2, <1>4, NewPodType, GoneType DEF TypeInv, PodsOK, RecordsOK
<1>5. CASE /\ unit[cur] = "auto"
           /\ pod' = [pod EXCEPT ![cur] = None]
           /\ mapping' = Gone(mapping, cur) /\ mappingFile' = Gone(mappingFile, cur)
  BY <1>2, <1>5, GoneType DEF TypeInv, PodsOK, RecordsOK
<1>6. CASE UNCHANGED <<pod, repository>>
  BY <1>2, <1>6 DEF TypeInv, PodsOK, RecordsOK, repository
<1>7. QED
  BY <1>3, <1>4, <1>5, <1>6 DEF StartUnit

\* The parts of the invariant hold on an empty device.
LEMMA Initially ==
  Init => /\ ControlOK /\ FlagsOK /\ CountsOK /\ FilesOK /\ PodsOK /\ RecordsOK
          /\ Places /\ Deploying
          /\ MappingFindsPod /\ Pruned /\ Stopped /\ Cleaned
<1> SUFFICES ASSUME Init
             PROVE  /\ ControlOK /\ FlagsOK /\ CountsOK /\ FilesOK /\ PodsOK /\ RecordsOK
                    /\ Places /\ Deploying
                    /\ MappingFindsPod /\ Pruned /\ Stopped /\ Cleaned
  OBVIOUS
<1>1. ControlOK /\ FlagsOK /\ CountsOK
  BY DEF Init, ControlOK, FlagsOK, CountsOK
<1>2. FilesOK /\ PodsOK /\ RecordsOK
  BY DEF Init, FilesOK, PodsOK, RecordsOK, Id
<1>3. Places /\ Deploying /\ Pruned /\ Stopped /\ Cleaned
  BY DEF Init, Places, Deploying, Pruned, Stopped, Cleaned
<1>4. MappingFindsPod
  BY DEF Init, MappingFindsPod, Plain
<1>5. QED
  BY <1>1, <1>2, <1>3, <1>4

\* Every step keeps the types of the control.
LEMMA ControlInductive == ControlOK /\ [Next]_vars => ControlOK'
<1> SUFFICES ASSUME ControlOK, [Next]_vars PROVE ControlOK'
  OBVIOUS
<1>s. UNCHANGED setting
  BY DEF Next, vars
<1> USE <1>s DEF ControlOK, control, files, repository, services, At
<1>1. ASSUME NEW conf \in [Workloads -> Asked \cup {None}], BeginUpdate(conf) PROVE ControlOK'
  BY <1>1, AskedType DEF BeginUpdate
<1>2. ASSUME NEW w \in Workloads, NextWorkload(w) PROVE ControlOK'
  BY <1>2 DEF NextWorkload
<1>3. ASSUME NEW w \in Workloads, RejectWorkload(w) PROVE ControlOK'
  BY <1>3 DEF RejectWorkload
<1>4. CASE StoreManifest
  BY <1>4 DEF StoreManifest, Then, Fails
<1>5. CASE ManageAuthFile
  BY <1>5 DEF ManageAuthFile, Then, Fails
<1>6. CASE RemoveService
  BY <1>6 DEF RemoveService, StopUnit, Then, Fails
<1>7. CASE RemovePod
  BY <1>7 DEF RemovePod, Then, Fails
<1>8. CASE Unmap
  BY <1>8 DEF Unmap, Then, Fails
<1>9. CASE RunPod
  BY <1>9 DEF RunPod, RunFails, Then, Fails
<1>10. CASE AddMapping
  BY <1>10 DEF AddMapping, RunFails, Then, Fails
<1>11. CASE AddUnit
  BY <1>11 DEF AddUnit, RunFails, Then, Fails
<1>12. CASE StartUnit
  BY <1>12 DEF StartUnit, Then, Fails
<1>13. CASE RecordService
  BY <1>13 DEF RecordService, RunFails, Then, Fails
<1>14. CASE ReportPod
  BY <1>14 DEF ReportPod, RunFails, Then, Fails
<1>15. CASE ListDeployed
  BY <1>15 DEF ListDeployed, Return, Existing, Configured
<1>16. ASSUME NEW w \in Workloads, PruneWorkload(w) PROVE ControlOK'
  BY <1>16 DEF PruneWorkload
<1>17. CASE EndUpdate
  BY <1>17 DEF EndUpdate, Return
<1>18. CASE BeginStop
  BY <1>18 DEF BeginStop, Return, Existing
<1>19. ASSUME NEW w \in Workloads, StopPod(w) PROVE ControlOK'
  BY <1>19 DEF StopPod
<1>20. CASE EndStop
  BY <1>20 DEF EndStop, Return
<1>21. CASE BeginDeregister
  BY <1>21 DEF BeginDeregister, Existing
<1>22. ASSUME NEW w \in Workloads, RemoveNext(w) PROVE ControlOK'
  BY <1>22 DEF RemoveNext
<1>23. CASE AllRemoved
  BY <1>23 DEF AllRemoved, Then
<1>24. CASE DeleteFiles
  BY <1>24 DEF DeleteFiles, Return
<1>25. CASE PopEvents
  BY <1>25 DEF PopEvents
<1>26. CASE Crash
  BY <1>26 DEF Crash
<1>27. CASE UNCHANGED vars
  BY <1>27 DEF vars
<1>28. QED
  BY <1>1, <1>2, <1>3, <1>4, <1>5, <1>6, <1>7, <1>8, <1>9, <1>10, <1>11, <1>12, <1>13,
     <1>14, <1>15, <1>16, <1>17, <1>18, <1>19, <1>20, <1>21, <1>22, <1>23, <1>24, <1>25,
     <1>26, <1>27 DEF Next, Step, Remove, Run

\* Every step keeps the flags Boolean.
LEMMA FlagsInductive == FlagsOK /\ [Next]_vars => FlagsOK'
<1> SUFFICES ASSUME FlagsOK, [Next]_vars PROVE FlagsOK'
  OBVIOUS
<1> USE DEF FlagsOK, control, files, repository, services
<1>1. ASSUME NEW conf \in [Workloads -> Asked \cup {None}], BeginUpdate(conf) PROVE FlagsOK'
  BY <1>1 DEF BeginUpdate
<1>2. ASSUME NEW w \in Workloads, NextWorkload(w) PROVE FlagsOK'
  BY <1>2 DEF NextWorkload
<1>3. ASSUME NEW w \in Workloads, RejectWorkload(w) PROVE FlagsOK'
  BY <1>3 DEF RejectWorkload
<1>4. CASE StoreManifest
  BY <1>4 DEF StoreManifest, Then, Fails
<1>5. CASE ManageAuthFile
  BY <1>5 DEF ManageAuthFile, Then, Fails
<1>6. CASE RemoveService
  BY <1>6 DEF RemoveService, StopUnit, Then, Fails
<1>7. CASE RemovePod
  BY <1>7 DEF RemovePod, Then, Fails
<1>8. CASE Unmap
  BY <1>8 DEF Unmap, Then, Fails
<1>9. CASE RunPod
  BY <1>9 DEF RunPod, RunFails, Then, Fails
<1>10. CASE AddMapping
  BY <1>10 DEF AddMapping, RunFails, Then, Fails
<1>11. CASE AddUnit
  BY <1>11 DEF AddUnit, RunFails, Then, Fails
<1>12. CASE StartUnit
  BY <1>12 DEF StartUnit, Then, Fails
<1>13. CASE RecordService
  BY <1>13 DEF RecordService, RunFails, Then, Fails
<1>14. CASE ReportPod
  BY <1>14 DEF ReportPod, RunFails, Then, Fails
<1>15. CASE ListDeployed
  BY <1>15 DEF ListDeployed, Return
<1>16. ASSUME NEW w \in Workloads, PruneWorkload(w) PROVE FlagsOK'
  BY <1>16 DEF PruneWorkload
<1>17. CASE EndUpdate
  BY <1>17 DEF EndUpdate, Return
<1>18. CASE BeginStop
  BY <1>18 DEF BeginStop, Return
<1>19. ASSUME NEW w \in Workloads, StopPod(w) PROVE FlagsOK'
  BY <1>19 DEF StopPod
<1>20. CASE EndStop
  BY <1>20 DEF EndStop, Return
<1>21. CASE BeginDeregister
  BY <1>21 DEF BeginDeregister
<1>22. ASSUME NEW w \in Workloads, RemoveNext(w) PROVE FlagsOK'
  BY <1>22 DEF RemoveNext
<1>23. CASE AllRemoved
  BY <1>23 DEF AllRemoved, Then
<1>24. CASE DeleteFiles
  BY <1>24 DEF DeleteFiles, Return
<1>25. CASE PopEvents
  BY <1>25 DEF PopEvents
<1>26. CASE Crash
  BY <1>26 DEF Crash
<1>27. CASE UNCHANGED vars
  BY <1>27 DEF vars
<1>28. QED
  BY <1>1, <1>2, <1>3, <1>4, <1>5, <1>6, <1>7, <1>8, <1>9, <1>10, <1>11, <1>12, <1>13,
     <1>14, <1>15, <1>16, <1>17, <1>18, <1>19, <1>20, <1>21, <1>22, <1>23, <1>24, <1>25,
     <1>26, <1>27 DEF Next, Step, Remove, Run

\* Every step keeps the counters natural.
LEMMA CountsInductive == CountsOK /\ [Next]_vars => CountsOK'
<1> SUFFICES ASSUME CountsOK, [Next]_vars PROVE CountsOK'
  OBVIOUS
<1> USE DEF CountsOK, control, files, repository, services
<1>1. ASSUME NEW conf \in [Workloads -> Asked \cup {None}], BeginUpdate(conf) PROVE CountsOK'
  BY <1>1 DEF BeginUpdate
<1>2. ASSUME NEW w \in Workloads, NextWorkload(w) PROVE CountsOK'
  BY <1>2 DEF NextWorkload
<1>3. ASSUME NEW w \in Workloads, RejectWorkload(w) PROVE CountsOK'
  BY <1>3 DEF RejectWorkload
<1>4. CASE StoreManifest
  BY <1>4 DEF StoreManifest, Then, Fails
<1>5. CASE ManageAuthFile
  BY <1>5 DEF ManageAuthFile, Then, Fails
<1>6. CASE RemoveService
  BY <1>6 DEF RemoveService, StopUnit, Then, Fails
<1>7. CASE RemovePod
  BY <1>7 DEF RemovePod, Then, Fails
<1>8. CASE Unmap
  BY <1>8 DEF Unmap, Then, Fails
<1>9. CASE RunPod
  BY <1>9 DEF RunPod, RunFails, Then, Fails
<1>10. CASE AddMapping
  BY <1>10 DEF AddMapping, RunFails, Then, Fails
<1>11. CASE AddUnit
  BY <1>11 DEF AddUnit, RunFails, Then, Fails
<1>12. CASE StartUnit
  BY <1>12 DEF StartUnit, Then, Fails
<1>13. CASE RecordService
  BY <1>13 DEF RecordService, RunFails, Then, Fails
<1>14. CASE ReportPod
  BY <1>14 DEF ReportPod, RunFails, Then, Fails
<1>15. CASE ListDeployed
  BY <1>15 DEF ListDeployed, Return
<1>16. ASSUME NEW w \in Workloads, PruneWorkload(w) PROVE CountsOK'
  BY <1>16 DEF PruneWorkload
<1>17. CASE EndUpdate
  BY <1>17 DEF EndUpdate, Return
<1>18. CASE BeginStop
  BY <1>18 DEF BeginStop, Return
<1>19. ASSUME NEW w \in Workloads, StopPod(w) PROVE CountsOK'
  BY <1>19 DEF StopPod
<1>20. CASE EndStop
  BY <1>20 DEF EndStop, Return
<1>21. CASE BeginDeregister
  BY <1>21 DEF BeginDeregister
<1>22. ASSUME NEW w \in Workloads, RemoveNext(w) PROVE CountsOK'
  BY <1>22 DEF RemoveNext
<1>23. CASE AllRemoved
  BY <1>23 DEF AllRemoved, Then
<1>24. CASE DeleteFiles
  BY <1>24 DEF DeleteFiles, Return
<1>25. CASE PopEvents
  BY <1>25 DEF PopEvents
<1>26. CASE Crash
  BY <1>26 DEF Crash
<1>27. CASE UNCHANGED vars
  BY <1>27 DEF vars
<1>28. QED
  BY <1>1, <1>2, <1>3, <1>4, <1>5, <1>6, <1>7, <1>8, <1>9, <1>10, <1>11, <1>12, <1>13,
     <1>14, <1>15, <1>16, <1>17, <1>18, <1>19, <1>20, <1>21, <1>22, <1>23, <1>24, <1>25,
     <1>26, <1>27 DEF Next, Step, Remove, Run
\* Every step keeps the types of the files.
LEMMA FilesInductive == ControlOK /\ Places /\ FilesOK /\ [Next]_vars => FilesOK'
<1> SUFFICES ASSUME ControlOK, Places, FilesOK, [Next]_vars PROVE FilesOK'
  OBVIOUS
<1> USE DEF ControlOK, Places, control, files, repository, services, At, FilesOK
<1>1. ASSUME NEW conf \in [Workloads -> Asked \cup {None}], BeginUpdate(conf) PROVE FilesOK'
  BY <1>1 DEF BeginUpdate
<1>2. ASSUME NEW w \in Workloads, NextWorkload(w) PROVE FilesOK'
  BY <1>2 DEF NextWorkload
<1>3. ASSUME NEW w \in Workloads, RejectWorkload(w) PROVE FilesOK'
  BY <1>3 DEF RejectWorkload
<1>4. CASE StoreManifest
  <2>1. wanted[cur] \in Deployments
    BY <1>4 DEF StoreManifest, Configured
  <2>2. QED
    BY <1>4, <2>1, PodYamlType DEF StoreManifest, Then, Fails
<1>5. CASE ManageAuthFile
  <2>1. wanted[cur].auth \in Auths \cup {NoAuth}
    BY <1>5 DEF ManageAuthFile, Configured, Deployments
  <2>2. QED
    BY <1>5, <2>1 DEF ManageAuthFile, Then, Fails
<1>6. CASE RemoveService
  BY <1>6 DEF RemoveService, StopUnit, Then, Fails
<1>7. CASE RemovePod
  BY <1>7 DEF RemovePod, Then, Fails
<1>8. CASE Unmap
  BY <1>8 DEF Unmap, Then, Fails
<1>9. CASE RunPod
  BY <1>9 DEF RunPod, RunFails, Then, Fails
<1>10. CASE AddMapping
  BY <1>10 DEF AddMapping, RunFails, Then, Fails
<1>11. CASE AddUnit
  BY <1>11 DEF AddUnit, RunFails, Then, Fails
<1>12. CASE StartUnit
  BY <1>12 DEF StartUnit, Then, Fails
<1>13. CASE RecordService
  BY <1>13 DEF RecordService, RunFails, Then, Fails
<1>14. CASE ReportPod
  BY <1>14 DEF ReportPod, RunFails, Then, Fails
<1>15. CASE ListDeployed
  BY <1>15 DEF ListDeployed, Return
<1>16. ASSUME NEW w \in Workloads, PruneWorkload(w) PROVE FilesOK'
  BY <1>16 DEF PruneWorkload
<1>17. CASE EndUpdate
  BY <1>17 DEF EndUpdate, Return
<1>18. CASE BeginStop
  BY <1>18 DEF BeginStop, Return
<1>19. ASSUME NEW w \in Workloads, StopPod(w) PROVE FilesOK'
  BY <1>19 DEF StopPod
<1>20. CASE EndStop
  BY <1>20 DEF EndStop, Return
<1>21. CASE BeginDeregister
  BY <1>21 DEF BeginDeregister
<1>22. ASSUME NEW w \in Workloads, RemoveNext(w) PROVE FilesOK'
  BY <1>22 DEF RemoveNext
<1>23. CASE AllRemoved
  BY <1>23 DEF AllRemoved, Then
<1>24. CASE DeleteFiles
  BY <1>24 DEF DeleteFiles, Return
<1>25. CASE PopEvents
  BY <1>25 DEF PopEvents
<1>26. CASE Crash
  BY <1>26 DEF Crash
<1>27. CASE UNCHANGED vars
  BY <1>27 DEF vars
<1>28. QED
  BY <1>1, <1>2, <1>3, <1>4, <1>5, <1>6, <1>7, <1>8, <1>9, <1>10, <1>11, <1>12, <1>13,
     <1>14, <1>15, <1>16, <1>17, <1>18, <1>19, <1>20, <1>21, <1>22, <1>23, <1>24, <1>25,
     <1>26, <1>27 DEF Next, Step, Remove, Run

\* Every step keeps the types of the pods.
LEMMA PodsInductive == TypeInv /\ [Next]_vars => PodsOK'
<1> SUFFICES ASSUME TypeInv, [Next]_vars PROVE PodsOK'
  OBVIOUS
<1> USE DEF TypeInv, ControlOK, FilesOK, PodsOK, RecordsOK, Places, control, files,
   repository, services, At
<1>1. ASSUME NEW conf \in [Workloads -> Asked \cup {None}], BeginUpdate(conf) PROVE PodsOK'
  BY <1>1 DEF BeginUpdate
<1>2. ASSUME NEW w \in Workloads, NextWorkload(w) PROVE PodsOK'
  BY <1>2 DEF NextWorkload
<1>3. ASSUME NEW w \in Workloads, RejectWorkload(w) PROVE PodsOK'
  BY <1>3 DEF RejectWorkload
<1>4. CASE StoreManifest
  BY <1>4 DEF StoreManifest, Then, Fails
<1>5. CASE ManageAuthFile
  BY <1>5 DEF ManageAuthFile, Then, Fails
<1>6. CASE RemoveService
  BY <1>6, ServiceEffect DEF Lessened
<1>7. CASE RemovePod
  BY <1>7, RemoveEffect DEF Lessened
<1>8. CASE Unmap
  BY <1>8 DEF Unmap, Then, Fails
<1>9. CASE RunPod
  <2>1. manifest[cur] \in Manifests
    BY <1>9, PodYamlType DEF RunPod, Deploying, Configured
  <2>2. QED
    BY <1>9, <2>1, NewPodType DEF RunPod, RunFails, Then, Fails
<1>10. CASE AddMapping
  BY <1>10 DEF AddMapping, RunFails, Then, Fails
<1>11. CASE AddUnit
  BY <1>11 DEF AddUnit, RunFails, Then, Fails
<1>12. CASE StartUnit
  BY <1>12, StartEffect DEF Lessened
<1>13. CASE RecordService
  BY <1>13 DEF RecordService, RunFails, Then, Fails
<1>14. CASE ReportPod
  BY <1>14 DEF ReportPod, RunFails, Then, Fails
<1>15. CASE ListDeployed
  BY <1>15 DEF ListDeployed, Return
<1>16. ASSUME NEW w \in Workloads, PruneWorkload(w) PROVE PodsOK'
  BY <1>16 DEF PruneWorkload
<1>17. CASE EndUpdate
  BY <1>17 DEF EndUpdate, Return
<1>18. CASE BeginStop
  BY <1>18 DEF BeginStop, Return
<1>19. ASSUME NEW w \in Workloads, StopPod(w) PROVE PodsOK'
  BY <1>19, StopEffect DEF Lessened
<1>20. CASE EndStop
  BY <1>20 DEF EndStop, Return
<1>21. CASE BeginDeregister
  BY <1>21 DEF BeginDeregister
<1>22. ASSUME NEW w \in Workloads, RemoveNext(w) PROVE PodsOK'
  BY <1>22 DEF RemoveNext
<1>23. CASE AllRemoved
  BY <1>23 DEF AllRemoved, Then
<1>24. CASE DeleteFiles
  BY <1>24 DEF DeleteFiles, Return
<1>25. CASE PopEvents
  BY <1>25 DEF PopEvents
<1>26. CASE Crash
  BY <1>26 DEF Crash
<1>27. CASE UNCHANGED vars
  BY <1>27 DEF vars
<1>28. QED
  BY <1>1, <1>2, <1>3, <1>4, <1>5, <1>6, <1>7, <1>8, <1>9, <1>10, <1>11, <1>12, <1>13,
     <1>14, <1>15, <1>16, <1>17, <1>18, <1>19, <1>20, <1>21, <1>22, <1>23, <1>24, <1>25,
     <1>26, <1>27 DEF Next, Step, Remove, Run

\* Every step keeps the types of the records.
LEMMA RecordsInductive == TypeInv /\ [Next]_vars => RecordsOK'
<1> SUFFICES ASSUME TypeInv, [Next]_vars PROVE RecordsOK'
  OBVIOUS
<1> USE DEF TypeInv, ControlOK, FilesOK, PodsOK, RecordsOK, Places, control, files,
   repository, services, At
<1>1. ASSUME NEW conf \in [Workloads -> Asked \cup {None}], BeginUpdate(conf) PROVE RecordsOK'
  BY <1>1 DEF BeginUpdate
<1>2. ASSUME NEW w \in Workloads, NextWorkload(w) PROVE RecordsOK'
  BY <1>2 DEF NextWorkload
<1>3. ASSUME NEW w \in Workloads, RejectWorkload(w) PROVE RecordsOK'
  BY <1>3 DEF RejectWorkload
<1>4. CASE StoreManifest
  BY <1>4 DEF StoreManifest, Then, Fails
<1>5. CASE ManageAuthFile
  BY <1>5 DEF ManageAuthFile, Then, Fails
<1>6. CASE RemoveService
  <2>1. mapping' \in [Workloads -> Id] /\ mappingFile' \in [Workloads -> Id]
    BY <1>6, ServiceEffect DEF Lessened
  <2>2. /\ service' \in [Workloads -> BOOLEAN]
        /\ serviceFile' = serviceFile \/ serviceFile' = service'
    BY <1>6 DEF RemoveService
  <2>3. unit' \in [Workloads -> {"plain", "auto", None}]
    BY <1>6 DEF RemoveService
  <2>4. QED
    BY <2>1, <2>2, <2>3
<1>7. CASE RemovePod
  BY <1>7, RemoveEffect DEF RemovePod, Lessened, Then, Fails
<1>8. CASE Unmap
  BY <1>8 DEF Unmap, Then, Fails, Id
<1>9. CASE RunPod
  BY <1>9 DEF RunPod, RunFails, Then, Fails
<1>10. CASE AddMapping
  BY <1>10 DEF AddMapping, RunFails, Then, Fails, Id
<1>11. CASE AddUnit
  BY <1>11 DEF AddUnit, RunFails, Then, Fails
<1>12. CASE StartUnit
  BY <1>12, StartEffect DEF StartUnit, Then, Fails
<1>13. CASE RecordService
  BY <1>13 DEF RecordService, RunFails, Then, Fails
<1>14. CASE ReportPod
  BY <1>14 DEF ReportPod, RunFails, Then, Fails
<1>15. CASE ListDeployed
  BY <1>15 DEF ListDeployed, Return
<1>16. ASSUME NEW w \in Workloads, PruneWorkload(w) PROVE RecordsOK'
  BY <1>16 DEF PruneWorkload
<1>17. CASE EndUpdate
  BY <1>17 DEF EndUpdate, Return
<1>18. CASE BeginStop
  BY <1>18 DEF BeginStop, Return
<1>19. ASSUME NEW w \in Workloads, StopPod(w) PROVE RecordsOK'
  BY <1>19 DEF StopPod
<1>20. CASE EndStop
  BY <1>20 DEF EndStop, Return
<1>21. CASE BeginDeregister
  BY <1>21 DEF BeginDeregister
<1>22. ASSUME NEW w \in Workloads, RemoveNext(w) PROVE RecordsOK'
  BY <1>22 DEF RemoveNext
<1>23. CASE AllRemoved
  BY <1>23 DEF AllRemoved, Then
<1>24. CASE DeleteFiles
  BY <1>24 DEF DeleteFiles, Return, Id
<1>25. CASE PopEvents
  BY <1>25 DEF PopEvents
<1>26. CASE Crash
  BY <1>26 DEF Crash
<1>27. CASE UNCHANGED vars
  BY <1>27 DEF vars
<1>28. QED
  BY <1>1, <1>2, <1>3, <1>4, <1>5, <1>6, <1>7, <1>8, <1>9, <1>10, <1>11, <1>12, <1>13,
     <1>14, <1>15, <1>16, <1>17, <1>18, <1>19, <1>20, <1>21, <1>22, <1>23, <1>24, <1>25,
     <1>26, <1>27 DEF Next, Step, Remove, Run

\* Every step keeps operations to their steps.
LEMMA PlacesInductive == ControlOK /\ Places /\ [Next]_vars => Places'
<1> SUFFICES ASSUME ControlOK, Places, [Next]_vars PROVE Places'
  OBVIOUS
<1> USE DEF ControlOK, Places, control, files, repository, services, At, Configured
<1>1. ASSUME NEW conf \in [Workloads -> Asked \cup {None}], BeginUpdate(conf) PROVE Places'
  BY <1>1 DEF BeginUpdate
<1>2. ASSUME NEW w \in Workloads, NextWorkload(w) PROVE Places'
  BY <1>2 DEF NextWorkload
<1>3. ASSUME NEW w \in Workloads, RejectWorkload(w) PROVE Places'
  BY <1>3 DEF RejectWorkload
<1>4. CASE StoreManifest
  BY <1>4 DEF StoreManifest, Then, Fails
<1>5. CASE ManageAuthFile
  BY <1>5 DEF ManageAuthFile, Then, Fails
<1>6. CASE RemoveService
  BY <1>6 DEF RemoveService, StopUnit, Then, Fails
<1>7. CASE RemovePod
  BY <1>7 DEF RemovePod, Then, Fails
<1>8. CASE Unmap
  BY <1>8 DEF Unmap, Then, Fails
<1>9. CASE RunPod
  BY <1>9 DEF RunPod, RunFails, Then, Fails
<1>10. CASE AddMapping
  BY <1>10 DEF AddMapping, RunFails, Then, Fails
<1>11. CASE AddUnit
  BY <1>11 DEF AddUnit, RunFails, Then, Fails
<1>12. CASE StartUnit
  BY <1>12 DEF StartUnit, Then, Fails
<1>13. CASE RecordService
  BY <1>13 DEF RecordService, RunFails, Then, Fails
<1>14. CASE ReportPod
  BY <1>14 DEF ReportPod, RunFails, Then, Fails
<1>15. CASE ListDeployed
  BY <1>15 DEF ListDeployed, Return
<1>16. ASSUME NEW w \in Workloads, PruneWorkload(w) PROVE Places'
  BY <1>16 DEF PruneWorkload
<1>17. CASE EndUpdate
  BY <1>17 DEF EndUpdate, Return
<1>18. CASE BeginStop
  BY <1>18 DEF BeginStop, Return
<1>19. ASSUME NEW w \in Workloads, StopPod(w) PROVE Places'
  BY <1>19 DEF StopPod
<1>20. CASE EndStop
  BY <1>20 DEF EndStop, Return
<1>21. CASE BeginDeregister
  BY <1>21 DEF BeginDeregister
<1>22. ASSUME NEW w \in Workloads, RemoveNext(w) PROVE Places'
  BY <1>22 DEF RemoveNext
<1>23. CASE AllRemoved
  BY <1>23 DEF AllRemoved, Then
<1>24. CASE DeleteFiles
  BY <1>24 DEF DeleteFiles, Return
<1>25. CASE PopEvents
  BY <1>25 DEF PopEvents
<1>26. CASE Crash
  BY <1>26 DEF Crash
<1>27. CASE UNCHANGED vars
  BY <1>27 DEF vars
<1>28. QED
  BY <1>1, <1>2, <1>3, <1>4, <1>5, <1>6, <1>7, <1>8, <1>9, <1>10, <1>11, <1>12, <1>13,
     <1>14, <1>15, <1>16, <1>17, <1>18, <1>19, <1>20, <1>21, <1>22, <1>23, <1>24, <1>25,
     <1>26, <1>27 DEF Next, Step, Remove, Run

\* Every step keeps Deploying.
LEMMA DeployingInductive == TypeInv /\ [Next]_vars => Deploying'
<1> SUFFICES ASSUME TypeInv, [Next]_vars PROVE Deploying'
  OBVIOUS
<1> USE DEF TypeInv, ControlOK, FilesOK, PodsOK, RecordsOK, Places, control, files,
   repository, services, At, Deploying
<1>1. ASSUME NEW conf \in [Workloads -> Asked \cup {None}], BeginUpdate(conf) PROVE Deploying'
  BY <1>1 DEF BeginUpdate
<1>2. ASSUME NEW w \in Workloads, NextWorkload(w) PROVE Deploying'
  BY <1>2 DEF NextWorkload
<1>3. ASSUME NEW w \in Workloads, RejectWorkload(w) PROVE Deploying'
  BY <1>3 DEF RejectWorkload
<1>4. CASE StoreManifest
  BY <1>4 DEF StoreManifest, Then, Fails
<1>5. CASE ManageAuthFile
  BY <1>5 DEF ManageAuthFile, Then, Fails
<1>6. CASE RemoveService
  BY <1>6 DEF RemoveService, StopUnit, Then, Fails
<1>7. CASE RemovePod
  BY <1>7 DEF RemovePod, Then, Fails
<1>8. CASE Unmap
  BY <1>8 DEF Unmap, Then, Fails
<1>9. CASE RunPod
  <2>1. manifest[cur] \in Manifests
    BY <1>9, PodYamlType DEF RunPod, Configured
  <2>2. step' = "map" => pod'[cur] = [manifest |-> manifest[cur], running |-> FALSE]
    BY <1>9 DEF RunPod, RunFails, Then, Fails
  <2>3. step' = "map" => pod'[cur] # None /\ pod'[cur].manifest = manifest[cur]
    <3>1. [manifest |-> manifest[cur], running |-> FALSE] # None
      BY <2>1, NewPodType
    <3>2. QED
      BY <2>2, <3>1
  <2>4. step' \in {"map", "next"} /\ cur' = cur /\ UNCHANGED <<manifest, wanted>>
    BY <1>9 DEF RunPod, RunFails, Then, Fails
  <2>5. QED
    BY <1>9, <2>3, <2>4 DEF RunPod
<1>10. CASE AddMapping
  BY <1>10 DEF AddMapping, RunFails, Then, Fails
<1>11. CASE AddUnit
  BY <1>11 DEF AddUnit, RunFails, Then, Fails, Kind
<1>12. CASE StartUnit
  BY <1>12 DEF StartUnit, Then, Fails
<1>13. CASE RecordService
  BY <1>13 DEF RecordService, RunFails, Then, Fails
<1>14. CASE ReportPod
  BY <1>14 DEF ReportPod, RunFails, Then, Fails
<1>15. CASE ListDeployed
  BY <1>15 DEF ListDeployed, Return
<1>16. ASSUME NEW w \in Workloads, PruneWorkload(w) PROVE Deploying'
  BY <1>16 DEF PruneWorkload
<1>17. CASE EndUpdate
  BY <1>17 DEF EndUpdate, Return
<1>18. CASE BeginStop
  BY <1>18 DEF BeginStop, Return
<1>19. ASSUME NEW w \in Workloads, StopPod(w) PROVE Deploying'
  BY <1>19 DEF StopPod
<1>20. CASE EndStop
  BY <1>20 DEF EndStop, Return
<1>21. CASE BeginDeregister
  BY <1>21 DEF BeginDeregister
<1>22. ASSUME NEW w \in Workloads, RemoveNext(w) PROVE Deploying'
  BY <1>22 DEF RemoveNext
<1>23. CASE AllRemoved
  BY <1>23 DEF AllRemoved, Then
<1>24. CASE DeleteFiles
  BY <1>24 DEF DeleteFiles, Return
<1>25. CASE PopEvents
  BY <1>25 DEF PopEvents
<1>26. CASE Crash
  BY <1>26 DEF Crash
<1>27. CASE UNCHANGED vars
  BY <1>27 DEF vars
<1>28. QED
  BY <1>1, <1>2, <1>3, <1>4, <1>5, <1>6, <1>7, <1>8, <1>9, <1>10, <1>11, <1>12, <1>13,
     <1>14, <1>15, <1>16, <1>17, <1>18, <1>19, <1>20, <1>21, <1>22, <1>23, <1>24, <1>25,
     <1>26, <1>27 DEF Next, Step, Remove, Run

\* An id becomes stale only with its pod.
LEMMA MappingInductive == TypeInv /\ MappingFindsPod /\ [Next]_vars => MappingFindsPod'
<1> SUFFICES ASSUME TypeInv, MappingFindsPod, [Next]_vars PROVE MappingFindsPod'
  OBVIOUS
<1> USE DEF TypeInv, ControlOK, FilesOK, PodsOK, RecordsOK, Places, control, files,
   repository, services, At, Deploying, MappingFindsPod, Plain
<1>1. ASSUME NEW conf \in [Workloads -> Asked \cup {None}], BeginUpdate(conf) PROVE MappingFindsPod'
  BY <1>1 DEF BeginUpdate
<1>2. ASSUME NEW w \in Workloads, NextWorkload(w) PROVE MappingFindsPod'
  BY <1>2 DEF NextWorkload
<1>3. ASSUME NEW w \in Workloads, RejectWorkload(w) PROVE MappingFindsPod'
  BY <1>3 DEF RejectWorkload
<1>4. CASE StoreManifest
  BY <1>4 DEF StoreManifest, Then, Fails
<1>5. CASE ManageAuthFile
  BY <1>5 DEF ManageAuthFile, Then, Fails
<1>6. CASE RemoveService
  BY <1>6, ServiceEffect DEF Lessened
<1>7. CASE RemovePod
  BY <1>7, RemoveEffect DEF Lessened
<1>8. CASE Unmap
  BY <1>8 DEF Unmap, Then, Fails
<1>9. CASE RunPod
  BY <1>9 DEF RunPod, RunFails, Then, Fails
<1>10. CASE AddMapping
  BY <1>10 DEF AddMapping, RunFails, Then, Fails
<1>11. CASE AddUnit
  BY <1>11 DEF AddUnit, RunFails, Then, Fails
<1>12. CASE StartUnit
  BY <1>12, StartEffect DEF StartUnit
<1>13. CASE RecordService
  BY <1>13 DEF RecordService, RunFails, Then, Fails
<1>14. CASE ReportPod
  BY <1>14 DEF ReportPod, RunFails, Then, Fails
<1>15. CASE ListDeployed
  BY <1>15 DEF ListDeployed, Return
<1>16. ASSUME NEW w \in Workloads, PruneWorkload(w) PROVE MappingFindsPod'
  BY <1>16 DEF PruneWorkload
<1>17. CASE EndUpdate
  BY <1>17 DEF EndUpdate, Return
<1>18. CASE BeginStop
  BY <1>18 DEF BeginStop, Return
<1>19. ASSUME NEW w \in Workloads, StopPod(w) PROVE MappingFindsPod'
  BY <1>19, StopEffect DEF Lessened
<1>20. CASE EndStop
  BY <1>20 DEF EndStop, Return
<1>21. CASE BeginDeregister
  BY <1>21 DEF BeginDeregister
<1>22. ASSUME NEW w \in Workloads, RemoveNext(w) PROVE MappingFindsPod'
  BY <1>22 DEF RemoveNext
<1>23. CASE AllRemoved
  BY <1>23 DEF AllRemoved, Then
<1>24. CASE DeleteFiles
  BY <1>24 DEF DeleteFiles, Return
<1>25. CASE PopEvents
  BY <1>25 DEF PopEvents
<1>26. CASE Crash
  BY <1>26 DEF Crash
<1>27. CASE UNCHANGED vars
  BY <1>27 DEF vars
<1>28. QED
  BY <1>1, <1>2, <1>3, <1>4, <1>5, <1>6, <1>7, <1>8, <1>9, <1>10, <1>11, <1>12, <1>13,
     <1>14, <1>15, <1>16, <1>17, <1>18, <1>19, <1>20, <1>21, <1>22, <1>23, <1>24, <1>25,
     <1>26, <1>27 DEF Next, Step, Remove, Run

\* Each loop deals with what is left of it, and an operation returns when nothing
\* is left.
LEMMA LoopsInductive == TypeInv /\ MappingFindsPod /\ Loops /\ [Next]_vars => Loops'
<1> SUFFICES ASSUME TypeInv, MappingFindsPod, Loops, [Next]_vars PROVE Loops'
  OBVIOUS
<1> USE DEF TypeInv, ControlOK, PodsOK, RecordsOK, Places, Loops, Pruned, Stopped, Cleaned,
         StalePlainRemoved, StopStopsAll, DeregisterLeavesNothing, AfterUpdate, Existing,
         Configured, Plain, Left, control, files, repository, services, At
<1>1. CASE StoreManifest \/ ManageAuthFile \/ Run
  <2>1. phase = "apply" /\ phase' = phase
    BY <1>1 DEF StoreManifest, ManageAuthFile, Run, RunPod, AddMapping, AddUnit, StartUnit,
         RecordService, ReportPod, RunFails, Then, Fails
  <2>2. QED
    BY <2>1
<1>2. ASSUME NEW conf \in [Workloads -> Asked \cup {None}], BeginUpdate(conf) PROVE Loops'
  BY <1>2 DEF BeginUpdate
<1>3. ASSUME NEW w \in Workloads, NextWorkload(w) \/ RejectWorkload(w) PROVE Loops'
  BY <1>3 DEF NextWorkload, RejectWorkload
<1>4. CASE RemoveService
  <2>1. /\ phase # "free" /\ phase' = phase /\ wanted' = wanted /\ cur' = cur /\ todo' = todo
        /\ step = "unlink" /\ (~errs' => ~errs /\ step' = "rm")
    BY <1>4 DEF RemoveService, Then, Fails
  <2>2. QED
    BY <1>4, <2>1, ServiceEffect DEF Lessened
<1>5. CASE RemovePod
  <2>1. /\ phase # "free" /\ phase' = phase /\ wanted' = wanted /\ cur' = cur /\ todo' = todo
        /\ step = "rm" /\ (~errs' => ~errs /\ step' = "unmap")
    BY <1>5 DEF RemovePod, Then, Fails
  <2>2. ~errs' => pod'[cur] = None \/ mapping[cur] = "stale"
    BY <1>5 DEF RemovePod, Fails
  <2>3. ~errs' /\ pod'[cur] # None => AutoUpdate(pod'[cur].manifest)
    BY <1>5, <2>2, RemoveEffect DEF Lessened, MappingFindsPod
  <2>4. QED
    BY <1>5, <2>1, <2>3, RemoveEffect DEF Lessened
<1>6. CASE Unmap
  BY <1>6 DEF Unmap, Then, Fails
<1>7. CASE ListDeployed
  BY <1>7 DEF ListDeployed, Return
<1>8. ASSUME NEW w \in Workloads, PruneWorkload(w) PROVE Loops'
  BY <1>8 DEF PruneWorkload
<1>9. CASE EndUpdate
  BY <1>9 DEF EndUpdate, Return
<1>10. CASE BeginStop
  BY <1>10 DEF BeginStop, Return
<1>11. ASSUME NEW w \in Workloads, StopPod(w) PROVE Loops'
  <2>1. /\ phase = "stop" /\ phase' = phase /\ todo' = todo \ {w} /\ (~errs' => ~errs)
    BY <1>11 DEF StopPod
  <2>2. ~errs' /\ pod'[w] # None => AutoUpdate(pod'[w].manifest) \/ ~pod'[w].running
    <3>1. CASE mapping[w] # "stale" /\ pod[w] # None /\ ~errs'
      BY <1>11, <2>1, <3>1, Halting DEF StopPod
    <3>2. CASE mapping[w] = "stale"
      BY <1>11, <3>2, StopEffect DEF Lessened, MappingFindsPod
    <3>3. CASE pod[w] = None
      BY <1>11, <3>3, StopEffect DEF Lessened
    <3>4. QED
      BY <3>1, <3>2, <3>3
  <2>3. QED
    BY <1>11, <2>1, <2>2, StopEffect DEF Lessened
<1>12. CASE EndStop
  BY <1>12 DEF EndStop, Return
<1>13. CASE BeginDeregister
  BY <1>13 DEF BeginDeregister
<1>14. ASSUME NEW w \in Workloads, RemoveNext(w) PROVE Loops'
  BY <1>14 DEF RemoveNext
<1>15. CASE AllRemoved
  BY <1>15 DEF AllRemoved, Then
<1>16. CASE DeleteFiles
  <2>1. /\ phase = "clean" /\ step = "files" /\ phase' = "free" /\ last' = "deregister"
        /\ UNCHANGED pod /\ (~errs' => ~errs)
    BY <1>16 DEF DeleteFiles, Return
  <2>2. ~errs' => \A w \in Workloads :
          manifest'[w] = None /\ mappingFile'[w] = "none" /\ ~serviceFile'[w]
    BY <1>16 DEF DeleteFiles
  <2>3. QED
    BY <2>1, <2>2
<1>17. CASE PopEvents
  BY <1>17 DEF PopEvents
<1>18. CASE Crash
  BY <1>18 DEF Crash
<1>19. CASE UNCHANGED vars
  BY <1>19 DEF vars
<1>20. QED
  BY <1>1, <1>2, <1>3, <1>4, <1>5, <1>6, <1>7, <1>8, <1>9, <1>10, <1>11, <1>12, <1>13,
     <1>14, <1>15, <1>16, <1>17, <1>18, <1>19 DEF Next, Step, Remove

-----------------------------------------------------------------------------
(* What failing calls cost *)

\* A step that fails at one workload, or does it no harm, and does none to the
\* others, keeps Contained.
LEMMA Blame ==
  ASSUME CountsOK, Contained, NEW x \in Workloads,
         crashes' = 0 /\ ~deregistered' /\ phase' # "clean" =>
           crashes = 0 /\ ~deregistered /\ phase # "clean",
         \A w \in Workloads \ {x} : Good(w) => Good(w)',
         \/ faults' = faults + 1
         \/ faults' = faults /\ (Good(x) => Good(x)')
  PROVE  Contained'
<1> SUFFICES ASSUME crashes' = 0 /\ ~deregistered' /\ phase' # "clean"
             PROVE  \E G \in SUBSET Workloads :
                      Cardinality(G) <= faults' /\ \A w \in Workloads \ G : Good(w)'
  BY DEF Contained
<1>1. PICK F \in SUBSET Workloads :
        Cardinality(F) <= faults /\ \A w \in Workloads \ F : Good(w)
  BY DEF Contained
<1>2. IsFiniteSet(F)
  BY ConstantsAssumption, FS_Subset
<1>3. CASE faults' = faults + 1
  <2>1. /\ Cardinality(F) \in Nat
        /\ Cardinality(F \cup {x}) =
             IF x \in F THEN Cardinality(F) ELSE Cardinality(F) + 1
    BY <1>2, FS_AddElement, FS_CardinalityType
  <2>2. Cardinality(F \cup {x}) <= faults'
    BY <1>1, <1>3, <2>1 DEF CountsOK
  <2>3. \A w \in Workloads \ (F \cup {x}) : Good(w)'
    BY <1>1
  <2>4. QED
    BY <2>2, <2>3
<1>4. CASE faults' = faults /\ (Good(x) => Good(x)')
  BY <1>1, <1>4
<1>5. QED
  BY <1>3, <1>4

\* The workload is not worked on, before or after a step.
Untouched(w) ==
  /\ ~InHand(w) /\ ~InHand(w)'
  /\ UNCHANGED <<manifest[w], authFile[w], pod[w], mapping[w], service[w], unit[w]>>
  /\ Updated(w)' => Updated(w) /\ wanted'[w] = wanted[w]

\* A workload nothing was done to stays as it is.
LEMMA UntouchedStaysGood ==
  ASSUME NEW w \in Workloads, Untouched(w), Good(w)
  PROVE  Good(w)'
BY DEF Untouched, Good, Settled, Kept, Consistent, Applied

\* The next call for the workload in hand touches no other.
Calls ==
  /\ step # "next" /\ phase # "free"
  /\ UNCHANGED <<wanted, phase, cur, todo, last, crashes, deregistered>>
  /\ \A w \in Workloads \ {cur} :
       UNCHANGED <<manifest[w], authFile[w], pod[w], mapping[w], service[w], unit[w]>>

\* A call of an operation touches the workload at hand only.
LEMMA CallsElsewhere ==
  ASSUME Calls, NEW w \in Workloads \ {cur}
  PROVE  Untouched(w)
BY DEF Calls, Untouched, InHand, Updated, Configured, AfterUpdate

\* Such a call either fails or does its workload no harm.
CallGoesWell ==
  /\ faults' = faults
  /\ Underway(cur) => IF step' = "next" THEN Settled(cur)' ELSE Underway(cur)'

\* A call that fails is blamed on its workload, another keeps it good.
LEMMA CallContained ==
  ASSUME TypeInv, Contained, Calls,
         phase # "clean" => faults' = faults + 1 \/ CallGoesWell
  PROVE  Contained'
<1>1. CASE phase = "clean"
  BY <1>1 DEF Calls, Contained
<1>2. CASE phase # "clean"
  <2>1. \A w \in Workloads \ {cur} : Good(w) => Good(w)'
    BY CallsElsewhere, UntouchedStaysGood
  <2>2. cur' = cur /\ cur \in Workloads /\ step # "next"
    BY DEF Calls, TypeInv, ControlOK
  <2>3. CallGoesWell => faults' = faults /\ (Good(cur) => Good(cur)')
    BY <2>2 DEF CallGoesWell, Good, InHand
  <2>4. \/ faults' = faults + 1
        \/ \E x \in Workloads : x = cur /\ faults' = faults /\ (Good(x) => Good(x)')
    BY <1>2, <2>2, <2>3
  <2>5. QED
    BY <2>1, <2>2, <2>4, Blame DEF TypeInv, Calls
<1>3. QED
  BY <1>1, <1>2

\* Every step keeps failures to the workloads whose calls fail.
LEMMA ContainedInductive ==
  TypeInv /\ MappingFindsPod /\ Contained /\ [Next]_vars => Contained'
<1> SUFFICES ASSUME TypeInv, MappingFindsPod, Contained, [Next]_vars PROVE Contained'
  OBVIOUS
<1>t. CountsOK /\ cur \in Workloads
  BY DEF TypeInv, ControlOK
<1> USE DEF TypeInv, ControlOK, PodsOK, RecordsOK, FilesOK, Places, control, files,
         repository, services, At
<1>1. ASSUME NEW conf \in [Workloads -> Asked \cup {None}], BeginUpdate(conf) PROVE Contained'
  <2>1. CASE deregistered
    BY <1>1, <2>1 DEF BeginUpdate, Contained
  <2>2. CASE ~deregistered
    <3>1. \A w \in Workloads : Untouched(w)
      BY <1>1, <2>2 DEF BeginUpdate, Untouched, InHand, Updated, Configured, AfterUpdate
    <3>2. QED
      BY <1>t, <1>1, <3>1, UntouchedStaysGood, Blame DEF BeginUpdate
  <2>3. QED
    BY <2>1, <2>2
<1>2. ASSUME NEW w \in Workloads, NextWorkload(w) PROVE Contained'
  <2>1. \A v \in Workloads \ {w} : Untouched(v)
    BY <1>2 DEF NextWorkload, Untouched, InHand, Updated, Configured, AfterUpdate
  <2>2. Good(w) => Good(w)'
    <3>1. CASE Modified(w)
      BY <1>2, <3>1 DEF NextWorkload, Good, InHand, Settled, Underway, Consistent
    <3>2. CASE ~Modified(w)
      BY <1>2, <3>2 DEF NextWorkload, Modified, Good, InHand, Settled, Kept, Consistent,
         Applied
    <3>3. QED
      BY <3>1, <3>2
  <2>3. QED
    BY <1>t, <1>2, <2>1, <2>2, UntouchedStaysGood, Blame DEF NextWorkload
<1>3. ASSUME NEW w \in Workloads, RejectWorkload(w) PROVE Contained'
  <2>1. \A v \in Workloads \ {w} : Untouched(v)
    BY <1>3 DEF RejectWorkload, Untouched, InHand, Updated, Configured, AfterUpdate
  <2>2. QED
    BY <1>t, <1>3, <2>1, UntouchedStaysGood, Blame DEF RejectWorkload
<1>4. CASE StoreManifest
  <2>1. Calls
    BY <1>4 DEF StoreManifest, Then, Fails, Calls
  <2>2. phase # "clean" => faults' = faults + 1 \/ CallGoesWell
    BY <1>4 DEF StoreManifest, Then, Fails, CallGoesWell, Underway, Consistent
  <2>3. QED
    BY <2>1, <2>2, CallContained
<1>5. CASE ManageAuthFile
  <2>1. Calls
    BY <1>5 DEF ManageAuthFile, Then, Fails, Calls
  <2>2. phase # "clean" => faults' = faults + 1 \/ CallGoesWell
    BY <1>5 DEF ManageAuthFile, Then, Fails, CallGoesWell, Underway, Consistent
  <2>3. QED
    BY <2>1, <2>2, CallContained
<1>6. CASE RemoveService
  <2>1. Calls
    BY <1>6 DEF RemoveService, StopUnit, Gone, Then, Fails, Calls
  <2>2. phase # "clean" => faults' = faults + 1 \/ CallGoesWell
    <3> SUFFICES ASSUME phase # "clean", faults' # faults + 1, Underway(cur)
                 PROVE  faults' = faults /\ step' # "next" /\ Underway(cur)'
      <4>1. CASE Underway(cur)
        BY <4>1 DEF CallGoesWell
      <4>2. CASE ~Underway(cur)
        BY <1>6, <4>2 DEF CallGoesWell, RemoveService, Then, Fails
      <4>3. QED
        BY <4>1, <4>2
    <3>1. Consistent(cur) /\ (phase = "prune" => cur \notin Configured /\ manifest[cur] = None)
          /\ (phase = "apply" => authFile[cur] = wanted[cur].auth)
      BY <1>6 DEF RemoveService, Underway
    <3>2. /\ faults' = faults /\ step' = "rm" /\ unit'[cur] = None /\ ~service'[cur]
          /\ StopUnit(cur) \/ (unit[cur] = None /\ UNCHANGED <<pod, repository>>)
      BY <1>6, <3>1 DEF RemoveService, Then, Fails, Consistent
    <3>3. phase = "apply" => pod'[cur] = None \/ mapping'[cur] # "stale"
      <4>1. CASE unit[cur] = "auto" /\ phase = "apply"
        <5>1. manifest[cur] \in Manifests
          BY <1>6, <4>1, PodYamlType DEF RemoveService, Deploying, Configured
        <5>2. QED
          BY <3>2, <4>1, <5>1, SpecialValuesAssumption DEF StopUnit
      <4>2. CASE unit[cur] = "plain" /\ phase = "apply"
        BY <1>6, <3>1, <4>2, ServiceEffect DEF Consistent, MappingFindsPod, Plain, Lessened
      <4>3. CASE unit[cur] = None /\ phase = "apply"
        BY <3>1, <3>2, <4>3, SpecialValuesAssumption DEF Consistent, StopUnit
      <4>4. QED
        BY <4>1, <4>2, <4>3
    <3>4. QED
      BY <2>1, <3>1, <3>2, <3>3, <1>6 DEF Calls, Underway, RemoveService, Configured
  <2>3. QED
    BY <2>1, <2>2, CallContained
<1>7. CASE RemovePod
  <2>1. Calls
    BY <1>7 DEF RemovePod, Gone, Then, Fails, Calls
  <2>2. phase # "clean" => faults' = faults + 1 \/ CallGoesWell
    <3>1. CASE step' = "unmap"
      <4>1. pod[cur] = None \/ mapping[cur] # "stale" => pod'[cur] = None
        BY <1>7, <3>1 DEF RemovePod, Fails
      <4>2. faults' = faults
        BY <1>7, <3>1 DEF RemovePod, Then, Fails
      <4>3. QED
        BY <1>7, <2>1, <3>1, <4>1, <4>2 DEF RemovePod, Calls, CallGoesWell, Underway,
           Configured
    <3>2. CASE step' # "unmap"
      BY <1>7, <3>2 DEF RemovePod, Then, Fails
    <3>3. QED
      BY <3>1, <3>2
  <2>3. QED
    BY <2>1, <2>2, CallContained
<1>8. CASE Unmap
  <2>1. Calls
    BY <1>8 DEF Unmap, Then, Fails, Calls
  <2>2. phase # "clean" => faults' = faults + 1 \/ CallGoesWell
    <3>1. CASE step' = "run" /\ faults' = faults /\ phase = "apply"
      BY <1>8, <2>1, <3>1 DEF Unmap, Calls, CallGoesWell, Underway
    <3>2. CASE step' = "next" /\ faults' = faults /\ phase = "prune"
      <4>1. mapping'[cur] = "none" /\ step = "unmap" /\ UNCHANGED <<files, pod, services>>
        BY <1>8 DEF Unmap
      <4>2. cur' = cur /\ phase' = phase /\ wanted' = wanted
        BY <2>1 DEF Calls
      <4>3. Underway(cur) => Kept(cur)'
        BY <3>2, <4>1, <4>2 DEF Underway, Kept
      <4>4. Underway(cur) => Consistent(cur)'
        <5>1. Underway(cur) => unit'[cur] = None /\ service'[cur] = FALSE
          BY <3>2, <4>1 DEF Underway
        <5>2. QED
          BY <4>1, <4>2, <5>1, SpecialValuesAssumption DEF Consistent
      <4>5. Underway(cur) => Applied(cur)'
        BY <3>2, <4>2 DEF Underway, Applied, Updated, Configured
      <4>6. QED
        BY <3>2, <4>3, <4>4, <4>5 DEF CallGoesWell, Settled
    <3>3. QED
      BY <1>8, <3>1, <3>2 DEF Unmap, Then, Fails
  <2>3. QED
    BY <2>1, <2>2, CallContained
<1>9. CASE RunPod
  <2>1. Calls
    BY <1>9 DEF RunPod, RunFails, Then, Fails, Calls
  <2>2. phase # "clean" => faults' = faults + 1 \/ CallGoesWell
    BY <1>9 DEF RunPod, RunFails, Then, Fails, CallGoesWell, Underway
  <2>3. QED
    BY <2>1, <2>2, CallContained
<1>10. CASE AddMapping
  <2>1. Calls
    BY <1>10 DEF AddMapping, RunFails, Then, Fails, Calls
  <2>2. phase # "clean" => faults' = faults + 1 \/ CallGoesWell
    BY <1>10 DEF AddMapping, RunFails, Then, Fails, CallGoesWell, Underway
  <2>3. QED
    BY <2>1, <2>2, CallContained
<1>11. CASE AddUnit
  <2>1. Calls
    BY <1>11 DEF AddUnit, RunFails, Then, Fails, Calls
  <2>2. phase # "clean" => faults' = faults + 1 \/ CallGoesWell
    BY <1>11 DEF AddUnit, RunFails, Then, Fails, CallGoesWell, Underway, Deploying, Kind
  <2>3. QED
    BY <2>1, <2>2, CallContained
<1>12. CASE StartUnit
  <2>1. Calls
    BY <1>12 DEF StartUnit, Gone, Then, Fails, Calls
  <2>2. phase # "clean" => faults' = faults + 1 \/ CallGoesWell
    <3>1. CASE faults' = faults /\ step' = "record" /\ pod'[cur] # None
      BY <1>12, <2>1, <3>1, StartEffect DEF StartUnit, Calls, CallGoesWell, Underway
    <3>2. faults' # faults + 1 => faults' = faults /\ step' = "record"
      BY <1>12 DEF StartUnit, Then
    <3>3. faults' # faults + 1 => pod'[cur] # None
      <4>1. manifest[cur] \in Manifests /\ pod[cur] \in Pods
        BY <1>12, PodYamlType DEF StartUnit, Deploying, Configured
      <4>2. [manifest |-> manifest[cur], running |-> TRUE] # None
        BY <4>1, NewPodType
      <4>3. [pod[cur] EXCEPT !.running = TRUE] # None
        BY <4>1, SpecialValuesAssumption DEF Pods
      <4>4. QED
        BY <1>12, <4>2, <4>3 DEF StartUnit, Then
    <3>4. QED
      BY <3>1, <3>2, <3>3
  <2>3. QED
    BY <2>1, <2>2, CallContained
<1>13. CASE RecordService
  <2>1. Calls
    BY <1>13 DEF RecordService, RunFails, Then, Fails, Calls
  <2>2. phase # "clean" => faults' = faults + 1 \/ CallGoesWell
    BY <1>13 DEF RecordService, RunFails, Then, Fails, CallGoesWell, Underway
  <2>3. QED
    BY <2>1, <2>2, CallContained
<1>14. CASE ReportPod
  <2>1. Calls
    BY <1>14 DEF ReportPod, RunFails, Then, Fails, Calls
  <2>2. phase # "clean" => faults' = faults + 1 \/ CallGoesWell
    <3>1. CASE step' = "next" /\ faults' = faults /\ UNCHANGED <<files, pod, repository, services>>
      <4>1. Kind(manifest[cur]) # None
        BY SpecialValuesAssumption DEF Kind
      <4>2. QED
        BY <1>14, <2>1, <3>1, <4>1 DEF ReportPod, Calls, CallGoesWell, Underway, Settled, Kept,
           Consistent, Applied, Updated, AfterUpdate, Configured, Deploying, Kind
    <3>2. QED
      BY <1>14, <3>1 DEF ReportPod, RunFails, Then, Fails
  <2>3. QED
    BY <2>1, <2>2, CallContained
<1>15. CASE ListDeployed
  <2>1. \A w \in Workloads : Untouched(w)
    BY <1>15 DEF ListDeployed, Return, Untouched, InHand, Updated, Configured, AfterUpdate
  <2>2. QED
    BY <1>t, <1>15, <2>1, UntouchedStaysGood, Blame DEF ListDeployed, Return
<1>16. ASSUME NEW w \in Workloads, PruneWorkload(w) PROVE Contained'
  <2>1. \A v \in Workloads \ {w} : Untouched(v)
    BY <1>16 DEF PruneWorkload, Untouched, InHand, Updated, Configured, AfterUpdate
  <2>2. \/ faults' = faults + 1
        \/ faults' = faults /\ (Good(w) => Good(w)')
    <3>1. w \notin Configured /\ step = "next" /\ phase = "prune" /\ wanted' = wanted
      BY <1>16 DEF PruneWorkload
    <3>2. CASE manifest' = [manifest EXCEPT ![w] = None] /\ faults' = faults
      <4>1. Consistent(w) => Underway(w)'
        BY <1>16, <3>1, <3>2 DEF PruneWorkload, Underway, Consistent, Configured
      <4>2. QED
        BY <1>16, <3>1, <3>2, <4>1 DEF PruneWorkload, Good, InHand, Settled
    <3>3. faults' = faults + 1 \/ (manifest' = [manifest EXCEPT ![w] = None] /\ faults' = faults)
      BY <1>16 DEF PruneWorkload
    <3>4. QED
      BY <3>2, <3>3
  <2>3. QED
    BY <1>t, <1>16, <2>1, <2>2, UntouchedStaysGood, Blame DEF PruneWorkload
<1>17. CASE EndUpdate
  <2>1. \A w \in Workloads : Untouched(w)
    BY <1>17 DEF EndUpdate, Return, Untouched, InHand, Updated, Configured, AfterUpdate
  <2>2. QED
    BY <1>t, <1>17, <2>1, UntouchedStaysGood, Blame DEF EndUpdate, Return
<1>18. CASE BeginStop \/ EndStop
  <2>1. \A w \in Workloads : Untouched(w)
    BY <1>18 DEF BeginStop, EndStop, Return, Untouched, InHand, Updated, Configured,
       AfterUpdate
  <2>2. QED
    BY <1>t, <1>18, <2>1, UntouchedStaysGood, Blame DEF BeginStop, EndStop, Return
<1>19. ASSUME NEW w \in Workloads, StopPod(w) PROVE Contained'
  <2>1. \A v \in Workloads \ {w} : Untouched(v)
    BY <1>19 DEF StopPod, Untouched, InHand, Updated, Configured, AfterUpdate
  <2>2. Good(w) => Good(w)'
    <3>1. pod[w] # None => pod'[w] # None
      BY <1>19, Halting DEF StopPod
    <3>2. QED
      BY <1>19, <3>1, StopEffect DEF StopPod, Lessened, Good, InHand, Settled, Kept,
         Consistent, Applied, Updated, AfterUpdate, Configured
  <2>3. QED
    BY <1>t, <1>19, <2>1, <2>2, UntouchedStaysGood, Blame DEF StopPod
<1>20. CASE BeginDeregister \/ AllRemoved \/ Crash \/ \E w \in Workloads : RemoveNext(w)
  BY <1>20, <1>t DEF BeginDeregister, AllRemoved, Then, Crash, RemoveNext, Contained, CountsOK
<1>21. CASE DeleteFiles
  BY <1>21 DEF DeleteFiles, Contained
<1>22. CASE PopEvents
  <2>1. \A w \in Workloads : Untouched(w)
    BY <1>22 DEF PopEvents, Untouched, InHand, Updated, Configured, AfterUpdate
  <2>2. QED
    BY <1>t, <1>22, <2>1, UntouchedStaysGood, Blame DEF PopEvents
<1>23. CASE UNCHANGED vars
  <2>1. \A w \in Workloads : Untouched(w) \/ (InHand(w) /\ (Good(w) => Good(w)'))
    BY <1>23 DEF vars, Untouched, InHand, Updated, Configured, AfterUpdate, Good,
       Underway, Consistent
  <2>2. QED
    BY <1>t, <1>23, <2>1, UntouchedStaysGood, Blame DEF vars
<1>24. QED
  BY <1>1, <1>2, <1>3, <1>4, <1>5, <1>6, <1>7, <1>8, <1>9, <1>10, <1>11, <1>12, <1>13,
     <1>14, <1>15, <1>16, <1>17, <1>18, <1>19, <1>20, <1>21, <1>22, <1>23
     DEF Next, Step, Remove, Run

-----------------------------------------------------------------------------
\* The invariant for the pods that should go holds at every step.
LEMMA Invariance == Spec => [](TypeInv /\ MappingFindsPod /\ Loops)
<1>1. Init => TypeInv /\ MappingFindsPod /\ Loops
  BY Initially DEF TypeInv, Loops, Init, StalePlainRemoved, StopStopsAll,
     DeregisterLeavesNothing, AfterUpdate
<1>2. TypeInv /\ [Next]_vars => TypeInv'
  BY ControlInductive, FlagsInductive, CountsInductive, FilesInductive, PodsInductive,
     RecordsInductive, PlacesInductive, DeployingInductive DEF TypeInv
<1>3. QED
  BY <1>1, <1>2, MappingInductive, LoopsInductive, PTL DEF Spec

\* The state variables always have the types TypeOK states.
THEOREM TypeCorrect == Spec => []TypeOK
<1>1. TypeInv => TypeOK
  BY DEF TypeInv, ControlOK, FlagsOK, CountsOK, FilesOK, PodsOK, RecordsOK, TypeOK
<1>2. QED
  BY <1>1, Invariance, PTL

\* The recorded id of a plain pod finds it.
THEOREM IdsFindPods == Spec => []MappingFindsPod
BY Invariance, PTL

\* An update that reports no error leaves no plain pod that is not configured.
THEOREM StalePodsGo == Spec => []StalePlainRemoved
<1>1. Loops => StalePlainRemoved
  BY DEF Loops
<1>2. QED
  BY <1>1, Invariance, PTL

\* A stop that reports no error leaves no plain pod running.
THEOREM StopIsComplete == Spec => []StopStopsAll
<1>1. Loops => StopStopsAll
  BY DEF Loops
<1>2. QED
  BY <1>1, Invariance, PTL

\* A deregistration that reports no error leaves no plain pod, manifest or record.
THEOREM DeregisterIsComplete == Spec => []DeregisterLeavesNothing
<1>1. Loops => DeregisterLeavesNothing
  BY DEF Loops
<1>2. QED
  BY <1>1, Invariance, PTL

\* Before anything failed no workload is to blame.
LEMMA ContainedInitially == Init => Contained
<1> SUFFICES ASSUME Init PROVE \E F \in SUBSET Workloads :
                                 Cardinality(F) <= faults /\ \A w \in Workloads \ F : Good(w)
  BY DEF Contained
<1>1. Cardinality({}) = 0 /\ faults = 0
  BY FS_EmptySet DEF Init
<1>2. \A w \in Workloads : Good(w)
  BY DEF Init, Good, InHand, Settled, Kept, Consistent, Applied, Updated, AfterUpdate
<1>3. Cardinality({}) <= faults
  BY <1>1
<1>4. QED
  BY <1>2, <1>3

\* The failures stay contained at every step.
LEMMA ContainedInvariance == Spec => [](TypeInv /\ Contained)
BY ContainedInitially, Invariance, ContainedInductive, PTL DEF Spec

\* What Contained says of a workload once an update is over.
LEMMA GoodIsDeployed ==
  ASSUME TypeInv, AfterUpdate, NEW w \in Configured, Good(w)
  PROVE  /\ Deployed(w)
         /\ manifest[w] = pod[w].manifest
         /\ authFile[w] = wanted[w].auth
<1>1. Kept(w) /\ Applied(w) /\ Updated(w)
  BY DEF TypeInv, Places, AfterUpdate, Good, InHand, Settled, Updated
<1>2. manifest[w] = PodYaml(wanted[w]) /\ authFile[w] = wanted[w].auth
  BY <1>1 DEF Applied
<1>3. wanted[w] \in Deployments
  BY DEF TypeInv, ControlOK, Configured
<1>4. manifest[w] # None
  BY <1>2, <1>3, PodYamlType
<1>5. QED
  BY <1>1, <1>2, <1>4 DEF Kept, Deployed

\* After an update at most as many workloads are bad as calls failed.
LEMMA ContainedAfterUpdate ==
  ASSUME TypeInv, Contained, AfterUpdate, crashes = 0
  PROVE  \E F \in SUBSET Workloads :
           Cardinality(F) <= faults /\ \A w \in Workloads \ F : Good(w)
BY DEF TypeInv, Contained, AfterUpdate, Places

\* After an update without a failing call or a crash since the worker started,
\* every configured workload runs the pod, the manifest and the auth file of its
\* configuration.  (WorkloadManager.Update)
THEOREM UpdateConverges == Spec => []Converges
<1>1. TypeInv /\ Contained => Converges
  <2> SUFFICES ASSUME TypeInv, Contained, AfterUpdate, faults = 0, crashes = 0,
                      NEW w \in Configured
               PROVE  /\ Deployed(w)
                      /\ manifest[w] = pod[w].manifest
                      /\ authFile[w] = wanted[w].auth
    BY DEF Converges
  <2>1. PICK F \in SUBSET Workloads :
          Cardinality(F) <= faults /\ \A v \in Workloads \ F : Good(v)
    BY ContainedAfterUpdate
  <2>2. IsFiniteSet(F)
    BY ConstantsAssumption, FS_Subset
  <2>3. Cardinality(F) \in Nat /\ (Cardinality(F) = 0 => F = {})
    BY <2>2, FS_CardinalityType, FS_EmptySet
  <2>4. F = {}
    BY <2>1, <2>3
  <2>5. Good(w)
    BY <2>1, <2>4 DEF Configured
  <2>6. QED
    BY <2>5, GoodIsDeployed
<1>2. QED
  BY <1>1, ContainedInvariance, PTL

\* As long as the worker does not crash, an update leaves no more configured
\* workloads without their pod than calls have failed: an error at one workload
\* never keeps another from its deployment.  (WorkloadManager.Update)
THEOREM FailuresContained == Spec => []OneFailureOneWorkload
<1>1. TypeInv /\ Contained => OneFailureOneWorkload
  <2> DEFINE Missing == {w \in Configured : ~Deployed(w)}
  <2> SUFFICES ASSUME TypeInv, Contained, AfterUpdate, crashes = 0
               PROVE  Cardinality(Missing) <= faults
    BY DEF OneFailureOneWorkload
  <2>1. PICK F \in SUBSET Workloads :
          Cardinality(F) <= faults /\ \A v \in Workloads \ F : Good(v)
    BY ContainedAfterUpdate
  <2>2. IsFiniteSet(F)
    BY ConstantsAssumption, FS_Subset
  <2>3. Missing \subseteq F
    BY <2>1, GoodIsDeployed DEF Configured
  <2>4. Cardinality(Missing) <= Cardinality(F)
    BY <2>2, <2>3, FS_Subset
  <2>5. Cardinality(F) \in Nat /\ Cardinality(Missing) \in Nat
    BY <2>2, <2>3, FS_Subset, FS_CardinalityType
  <2>6. QED
    BY <2>1, <2>4, <2>5 DEF TypeInv, CountsOK
<1>2. QED
  BY <1>1, ContainedInvariance, PTL

=============================================================================
