---------------------- MODULE WorkloadObserversProofs ----------------------
(***************************************************************************)
(* Proofs about the observers of WorkloadObservers: the lines, streams and *)
(* writers of the logs, the mounts, and the objects and the times of the   *)
(* data transfer monitor, with any number of workloads, configurations,    *)
(* transports, lines and failing calls.                                    *)
(*                                                                         *)
(* The invariants come first.  Core types the two goroutines and the       *)
(* monitor, each component has an invariant of its own, and what is said   *)
(* of the writers needs the events on their way to the logs as well.  The  *)
(* footprint of a component (BusFoot, LogsFoot, ...) is what its steps do  *)
(* to the variables of the bus; an invariant is kept by the steps of the   *)
(* other components because of their footprints.                           *)
(***************************************************************************)
EXTENDS WorkloadObservers, SequenceTheorems, TLAPS

Early == {"dial", "leftovers", "transports", "targets", "streams"}

\* No configuration but the device's own was handed over yet.
First == Len(handed) = 1

ConfigsOK ==
  /\ handed \in Seq(Configurations) \ {<<>>}
  /\ script \in Seq(Configurations)
  /\ memory \in Configurations
  /\ \E s \in Scripts : Len(handed) + Len(script) <= Len(s)

\* Nobody is told of a pod before the logs observe the workloads.
BusOK ==
  /\ BusTypeOK
  /\ ConfigsOK
  /\ proc = "starting" => First /\ turn \notin {"idle", "save"}
  /\ First /\ turn \in Early => proc # "up" /\ handling = None /\ events = <<>>
  /\ turn = "streams" => First /\ todo \subseteq pods

Removal(w) == [kind |-> "removed", name |-> w]
Start(w) == [kind |-> "started", name |-> w]

Waiting(e) == \E k \in DOMAIN events : events[k] = e
ToldTo(o, e) == handling # None /\ handling.event = e /\ Head(handling.observers) = o

\* The mounts, when Update is before one of them and when it is through.
AsConfigured(k) ==
  /\ Conf.mounts[k].directory \in mounted
  /\ OnlyName(Conf.mounts[k].directory) =>
       Shows(Place[Conf.mounts[k].directory], Conf.mounts[k].device)
MountsInv ==
  /\ MountTypeOK
  /\ nextMount # 0 => turn = "mounts"
  /\ nextMount # 0 =>
       \A d \in Directories :
         Place[d] \in Clear /\ d \notin mounted \cup currentMounts => mounts[Place[d]] = <<>>
  /\ ~mountFailed /\ (nextMount # 0 \/ turn = "transfer") =>
       \A k \in DOMAIN Conf.mounts : k < nextMount \/ turn = "transfer" => AsConfigured(k)

SyncType == [step : {"idle", "choose", "connect", "path", "stats", "forget"},
             left : SUBSET Workloads, name : Workloads \cup {None},
             direction : {"egress", "ingress"}, copy : 0..Len(handed), failed : BOOLEAN]

SyncOK ==
  /\ TransferTypeOK
  /\ sync \in [Threads -> SyncType]

\* The event goroutine synchronises the workload it was told is gone.
SyncTold ==
  sync["events"].step # "idle" => ToldTo("transfer", Removal(sync["events"].name))

Core == BusOK /\ SyncOK /\ SyncTold

TransferObserves == proc # "starting" \/ turn = "transfer"
RemovalsInv ==
  /\ handling # None /\ handling.observers # <<"logs">> => TransferObserves
  /\ sync["ticker"].step # "idle" => proc # "starting"
  /\ \A w \in Workloads :
       lastSync[w] = "kept" =>
         /\ TransferObserves
         /\ w \notin pods =>
              \/ Waiting(Removal(w))
              \/ /\ handling # None /\ handling.event = Removal(w)
                 /\ handling.observers # <<"logs">>

\* The lines of a buffer's data, and those a transport has, waiting or on the way.
Held(d) == {d[k] : k \in DOMAIN d}
Distinct(d) == \A j, k \in DOMAIN d : d[j] = d[k] => j = k
Has(b, n) == n \in Held(buffers[b].data) \/ n = buffers[b].sending

BufferType == [data : Seq(1..lines), sending : 0..lines, broken : BOOLEAN]

\* The transports dialled, the one of this update not before it is dialled.
BuffersInv ==
  /\ lines \in Nat
  /\ DOMAIN buffers \subseteq Transports
  /\ \A b \in DOMAIN buffers : b[1] \in DOMAIN handed /\ (b[1] = Len(handed) => turn # "dial")
  /\ buffers \in [DOMAIN buffers -> BufferType]
  /\ \A b \in DOMAIN buffers : Len(buffers[b].data) <= BufferSize + 1

\* Every line is in one place.
LinesInv ==
  /\ delivered \cup refused \subseteq 1..lines
  /\ delivered \cap refused = {}
  /\ \A b \in DOMAIN buffers :
       Distinct(buffers[b].data) /\ buffers[b].sending \notin Held(buffers[b].data)
  /\ \A b \in DOMAIN buffers, n \in delivered \cup refused : ~Has(b, n)
  /\ \A b, c \in DOMAIN buffers, n \in 1..lines : Has(b, n) /\ Has(c, n) => b = c
  /\ \A n \in (1..lines) \ (delivered \cup refused) : \E b \in DOMAIN buffers : Has(b, n)

TransportsOK ==
  /\ transports \in [Names -> Transports \cup {None}]
  /\ dialled \in [Names -> Transports \cup {None}]
  /\ \A n \in Names :
       /\ transports[n] # None => transports[n] \in DOMAIN buffers /\ transports[n][2] = n
       /\ dialled[n] # None => dialled[n] \in DOMAIN buffers /\ dialled[n][2] = n
  /\ workloadsConfig \in [Workloads -> Names \cup {None}]
  /\ missed \subseteq Names

States == {"set", "live", "failed", "unstopped", "leaked", "cancelled", "gone"}
WritersOK ==
  /\ writers \in Seq([workload : Workloads, transport : DOMAIN buffers, state : States])
  /\ wwriter \in [Workloads -> Nat \cup {None}]
  /\ \A w \in Workloads : wwriter[w] # None =>
       wwriter[w] \in DOMAIN writers /\ writers[wwriter[w]].workload = w
  /\ found \in [step : {"delete", "target", "transport", "set", "start"},
                transport : Names \cup Transports \cup {None}]
  /\ found.step # "delete" => handling # None /\ ToldTo("logs", Start(Name))
  /\ found.step = "transport" => found.transport \in Names
  /\ found.step = "set" => found.transport \in DOMAIN buffers
  /\ found.step = "start" => writers # <<>>

\* The logs have been told, or are to be told, that the pod of w is gone.
LogsHear(w) == Waiting(Removal(w)) \/ ToldTo("logs", Removal(w))

\* The streams that can be stopped, the writers the map has, the writer that
\* WorkloadStarted is making, and the map before Init has looked at the pods.
LiveInv ==
  \A i \in DOMAIN writers :
    writers[i].state = "live" =>
      /\ wwriter[writers[i].workload] = i
      /\ writers[i].workload \notin pods => LogsHear(writers[i].workload)
CurrentInv ==
  \A w \in Workloads : wwriter[w] # None =>
    \/ writers[wwriter[w]].state \in {"live", "failed"}
    \/ /\ writers[wwriter[w]].state = "set" /\ found.step = "start"
       /\ wwriter[w] = Len(writers) /\ Name = w
FoundInv ==
  /\ found.step \in {"target", "transport", "set"} => wwriter[Name] = None
  /\ found.step = "start" =>
       /\ writers[Len(writers)].workload = Name
       /\ writers[Len(writers)].state \in {"set", "unstopped"}
       /\ writers[Len(writers)].state = "set" => wwriter[Name] = Len(writers)
NoneYet ==
  /\ First /\ turn \in Early \ {"streams"} => \A w \in Workloads : wwriter[w] = None
  /\ turn = "streams" => \A w \in todo : wwriter[w] = None

StreamsInv == LiveInv /\ CurrentInv /\ FoundInv /\ NoneYet

Steady(w) ==
  /\ \A k \in DOMAIN handed : LogsOf(handed[k], w) = LogsOf(Conf, w)
  /\ LogsOf(Conf, w)[2] # None
  /\ Conf.target[w] \notin missed
Target(w) == Conf.target[w]

\* Before the logs were handed the first configuration as far as its transports,
\* and as far as the targets of its workloads.
Undialled == First /\ turn \in {"dial", "leftovers", "transports"}
Untargeted == First /\ turn \in Early \ {"streams"}

\* A removal that waits, or is told, and whose pod is there again, has a start
\* behind it.
PodEvents ==
  \A w \in pods :
    /\ \A j \in DOMAIN events : events[j] = Removal(w) =>
         \E k \in DOMAIN events : j < k /\ events[k] = Start(w)
    /\ ToldTo("logs", Removal(w)) => Waiting(Start(w))

SteadyTransport ==
  \A w \in Workloads : Steady(w) =>
    /\ ~Untargeted => workloadsConfig[w] = Target(w)
    /\ ~Undialled => transports[Target(w)] # None
    /\ turn \in {"leftovers", "transports"} => dialled[Target(w)] # None

\* The start of w that is told, its writer, and its pod when it has none, for a
\* workload w with transport n.
StartTold(w, n) ==
  handling # None /\ Name = w =>
    /\ found.step = "transport" => found.transport = n
    /\ found.step = "set" => found.transport[2] = n
    /\ found.step = "start" => wwriter[w] # None
WriterTo(w, n) == wwriter[w] # None => writers[wwriter[w]].transport[2] = n
Awaited(w) ==
  w \in pods =>
    \/ wwriter[w] # None
    \/ Waiting(Start(w))
    \/ ToldTo("logs", Start(w))
    \/ Untargeted
    \/ turn = "streams" /\ w \in todo
SteadyWriter ==
  \A w \in Workloads : Steady(w) =>
    StartTold(w, Target(w)) /\ WriterTo(w, Target(w)) /\ Awaited(w)

-----------------------------------------------------------------------------

\* The last configuration handed over is one of the script.
LEMMA LastConfiguration ==
  ASSUME BusOK
  PROVE  /\ Len(handed) \in Nat \ {0} /\ DOMAIN handed = 1..Len(handed)
         /\ Conf \in Configurations /\ Conf.workloads \subseteq Workloads
         /\ \A n \in Names : <<Len(handed), n>> \in Transports
<1>1. Len(handed) \in Nat \ {0} /\ DOMAIN handed = 1..Len(handed)
      /\ \A k \in 1..Len(handed) : handed[k] \in Configurations
  BY DEF BusOK, ConfigsOK
<1>2. Conf \in Configurations /\ Conf.workloads \subseteq Workloads
  BY <1>1, BusAssumption DEF Conf, BusAssumption
<1>3. PICK s \in Scripts : Len(handed) + Len(script) <= Len(s)
  BY DEF BusOK, ConfigsOK
<1>4. s \in Seq(Configurations) /\ Len(script) \in Nat
  BY <1>3, BusAssumption DEF BusAssumption, BusOK, ConfigsOK
<1>5. Len(handed) \in DOMAIN s
  BY <1>1, <1>3, <1>4
<1>6. Len(handed) \in UNION {DOMAIN t : t \in Scripts}
  BY <1>3, <1>5
<1>7. \A n \in Names : <<Len(handed), n>> \in Transports
  BY <1>6 DEF Transports
<1> QED
  BY <1>1, <1>2, <1>7

\* What the two goroutines' own steps leave alone.
BusFoot ==
  /\ UNCHANGED <<proc, pods, todo>>
  /\ \/ UNCHANGED <<handed, turn>>
     \/ turn = "idle" /\ turn' = "dial" /\ script # <<>>
          /\ handed' = Append(handed, Head(script))
     \/ turn = "save" /\ turn' = "idle" /\ UNCHANGED handed

\* The steps of the two goroutines themselves,
LEMMA BusSteps == Bus => BusFoot
  BY DEF Bus, BusFoot, Receive, Save, TakeEvent, RestartPod, TakeLate, configVars, eventVars

\* The same of the workload manager,
PodsFoot ==
  /\ UNCHANGED <<proc, configVars, handling>>
  /\ \/ turn \in {"pods", "prune"} /\ turn' = turn
     \/ turn = "pods" /\ turn' \in {"prune", "mounts"}
     \/ turn = "prune" /\ turn' = "mounts"

\* of the workload manager,
LEMMA PodsSteps == UpdateWorkloads => PodsFoot
  BY DEF UpdateWorkloads, PodsFoot, UpdateWorkload, EndWorkloads, PruneWorkload, EndPrune,
         Pass, configVars, eventVars

\* of the logs,
ToldBy(o) == handling # None /\ Head(handling.observers) = o /\ Told
LogsFoot ==
  /\ UNCHANGED <<configVars, pods, events, late>>
  /\ proc' \in {proc, "dead"}
  /\ faults' = faults \/ Fault
  /\ \/ turn' = turn
     \/ turn = "dial" /\ turn' = "leftovers"
     \/ turn = "leftovers" /\ turn' = "transports"
     \/ turn = "transports" /\ turn' = "targets"
     \/ turn = "targets" /\ turn' \in {"streams", "pods"}
     \/ turn = "streams" /\ turn' = "pods"
  /\ handling' = handling \/ (ToldBy("logs") /\ turn' = turn)
  /\ todo' \subseteq todo \cup pods \cup Conf.workloads
  /\ turn' = "streams" => \/ turn = "streams" /\ todo' \subseteq todo
                          \/ turn # "streams" /\ proc = "starting" /\ todo' = pods

\* of the logs,
LEMMA LogsSteps == LogsNext => LogsFoot
<1> SUFFICES ASSUME LogsNext PROVE LogsFoot
  OBVIOUS
<1> USE DEF LogsFoot, Pass, configVars, eventVars, busVars
<1>1. CASE Dial
  BY <1>1 DEF Dial
<1>2. CASE DeleteLeftovers
  BY <1>2 DEF DeleteLeftovers
<1>3. CASE SetTransports
  BY <1>3 DEF SetTransports
<1>4. CASE SetWorkloadsConfig
  BY <1>4 DEF SetWorkloadsConfig
<1>5. CASE \E w \in Workloads : InitStream(w)
  BY <1>5 DEF InitStream
<1>6. CASE EndStreams
  BY <1>6 DEF EndStreams
<1>7. CASE WorkloadStarted
  BY <1>7 DEF WorkloadStarted, DeleteOld, ReadTarget, ReadTransport, SetWriter, StartWriter,
              Telling, Goes, Returns, ToldBy
<1>8. CASE WorkloadRemoved
  BY <1>8 DEF WorkloadRemoved, Telling, ToldBy
<1>9. CASE ConcurrentMaps
  BY <1>9 DEF ConcurrentMaps
<1>10. CASE \E i \in DOMAIN writers : WriteLine(i)
  BY <1>10 DEF WriteLine
<1>11. CASE \E b \in DOMAIN buffers : SendLine(b) \/ BreakConnection(b)
  BY <1>11 DEF SendLine, ReadLine, WriteLog, BreakConnection
<1> QED
  BY <1>1, <1>2, <1>3, <1>4, <1>5, <1>6, <1>7, <1>8, <1>9, <1>10, <1>11
     DEF LogsNext, UpdateLogs

\* of the mount manager,
MountsFoot ==
  /\ UNCHANGED <<proc, configVars, todo, pods, eventVars>>
  /\ faults' = faults \/ Fault
  /\ turn = "mounts" /\ turn' \in {"mounts", "transfer"}

\* of the mounts,
LEMMA MountsSteps == UpdateMounts => MountsFoot
  BY DEF UpdateMounts, MountsFoot, GetMounts, SkipMount, Mount, EndMounts, Continue, Pass,
         configVars, eventVars

\* and of the monitor.
TransferFoot ==
  /\ UNCHANGED <<configVars, todo, pods, events, late>>
  /\ faults' = faults \/ Fault
  /\ \/ turn' = turn /\ proc' \in {proc, "dead"}
     \/ turn = "transfer" /\ proc = "starting" /\ proc' = "up" /\ turn' = "idle"
     \/ turn = "transfer" /\ proc # "starting" /\ proc' = proc /\ turn' = "save"
  /\ handling' = handling \/ ToldBy("transfer")

\* and of the monitor keep to their footprints.
LEMMA TransferSteps == SyncTold /\ TransferNext => TransferFoot
<1> SUFFICES ASSUME SyncTold, TransferNext PROVE TransferFoot
  OBVIOUS
<1> USE DEF TransferFoot, configVars, eventVars, busVars
<1>1. CASE UpdateTransfer
  BY <1>1 DEF UpdateTransfer, EndHandOver
<1>2. CASE Tick \/ ChooseWorkload \/ Deregister
  BY <1>2 DEF Tick, ChooseWorkload, Deregister
<1>3. CASE IgnoreStarted \/ SyncRemoved
  BY <1>3 DEF IgnoreStarted, SyncRemoved, Telling, ToldBy
<1>4. CASE Forget
  BY <1>4 DEF Forget, ToldBy, ToldTo, SyncTold, At
<1>5. CASE \E t \in Threads : Connect(t) \/ SyncPath(t) \/ EndPaths(t)
  BY <1>5 DEF Connect, SyncPath, EndPaths
<1> QED
  BY <1>1, <1>2, <1>3, <1>4, <1>5 DEF TransferNext

-----------------------------------------------------------------------------
(* The two goroutines *)

\* Telling the next observer keeps the event well typed.
LEMMA ToldTyped ==
  ASSUME BusOK, NEW o, ToldBy(o)
  PROVE  /\ handling' = None \/ handling' \in Tellings
         /\ handling.observers = <<"logs", "transfer">> => handling' # None
         /\ handling' # None => /\ handling'.event = handling.event
                                /\ handling.observers = <<"logs", "transfer">>
                                /\ handling'.observers = <<"transfer">>
<1>1. handling \in Tellings
  BY DEF BusOK, BusTypeOK, ToldBy
<1>2. CASE handling.observers = <<"logs", "transfer">>
  <2>1. handling' = [handling EXCEPT !.observers = <<"transfer">>]
    BY <1>2 DEF ToldBy, Told
  <2>2. handling' \in Tellings /\ handling'.event = handling.event
    BY <1>1, <2>1 DEF Tellings
  <2> QED
    BY <1>1, <1>2, <2>1, <2>2, BusAssumption DEF BusAssumption, Tellings
<1>3. CASE handling.observers # <<"logs", "transfer">>
  <2>1. Len(handling.observers) = 1
    BY <1>1, <1>3 DEF Tellings
  <2> QED
    BY <2>1 DEF ToldBy, Told
<1> QED
  BY <1>2, <1>3

\* An event taken, when somebody observes the pods.
LEMMA TellTyped ==
  ASSUME BusOK, NEW e \in Events, Tell(e)
  PROVE  /\ handling' = None \/ handling' \in Tellings
         /\ First /\ turn \in Early /\ proc # "up" => handling' = None
  BY DEF BusOK, Tell, Observers, Tellings, Early

\* The types of the bus hold before the first configuration,
LEMMA BusInitial == Init => BusOK
<1> SUFFICES ASSUME Init PROVE BusOK
  OBVIOUS
<1>1. PICK s \in Scripts : script = Tail(s) /\ handed = <<Head(s)>> /\ memory = Head(s)
  BY DEF Init, BusInit
<1>2. s \in Seq(Configurations) /\ s # <<>>
  BY <1>1, BusAssumption DEF BusAssumption
<1>3. ConfigsOK /\ First
  BY <1>1, <1>2 DEF ConfigsOK, First
<1>4. memory.workloads \subseteq Workloads
  BY <1>3, BusAssumption DEF BusAssumption, ConfigsOK
<1>5. BusTypeOK
  BY <1>4, BusAssumption DEF BusTypeOK, Init, BusInit, BusAssumption, Events
<1> QED
  BY <1>3, <1>5 DEF BusOK, Init, BusInit

\* and every step keeps them.
LEMMA BusInductive == BusOK /\ SyncTold /\ [Next]_vars => BusOK'
<1> SUFFICES ASSUME BusOK, SyncTold, [Next]_vars PROVE BusOK'
  OBVIOUS
<1> USE LastConfiguration
<1>0. MaxFaults \in Nat /\ faults \in 0..MaxFaults /\ (Fault => faults' \in 0..MaxFaults)
  BY BusAssumption DEF BusAssumption, BusOK, BusTypeOK, Fault
<1>1. ASSUME Bus PROVE BusOK'
  <2>1. CASE Receive
    <3>1. ConfigsOK'
      <4>1. /\ script \in Seq(Configurations) /\ script # <<>>
            /\ handed \in Seq(Configurations) /\ handed # <<>>
        BY <2>1 DEF Receive, ConfigsOK, BusOK
      <4>2. /\ script' \in Seq(Configurations) /\ Len(script') = Len(script) - 1
            /\ Head(script) \in Configurations
        BY <2>1, <4>1 DEF Receive
      <4>3. handed' = handed \/ handed' = Append(handed, Head(script))
        BY <2>1 DEF Receive
      <4>4. /\ handed' \in Seq(Configurations) \ {<<>>}
            /\ Len(handed') \in {Len(handed), Len(handed) + 1}
        <5>1. /\ Append(handed, Head(script)) \in Seq(Configurations)
              /\ Append(handed, Head(script)) # <<>>
              /\ Len(Append(handed, Head(script))) = Len(handed) + 1
          BY <4>1, <4>2, AppendProperties
        <5> QED
          BY <4>1, <4>3, <5>1
      <4>5. PICK s \in Scripts : Len(handed) + Len(script) <= Len(s)
        BY DEF BusOK, ConfigsOK
      <4>6. s \in Seq(Configurations)
        BY BusAssumption DEF BusAssumption
      <4>7. Len(handed') + Len(script') <= Len(s)
        BY <4>1, <4>2, <4>4, <4>5, <4>6
      <4> QED
        BY <2>1, <4>2, <4>4, <4>7 DEF Receive, ConfigsOK, BusOK
    <3>2. handed' # handed => Len(handed') > 1
      BY <2>1 DEF Receive, ConfigsOK, BusOK
    <3> QED
      BY <2>1, <3>1, <3>2 DEF Receive, BusOK, BusTypeOK, eventVars, First, Early
  <2>2. CASE Save
    BY <2>2, <1>0 DEF Save, BusOK, BusTypeOK, ConfigsOK, eventVars, First, Early, Alive
  <2>3. CASE TakeEvent
    <3>1. events' \in Seq(Events) /\ Head(events) \in Events /\ events # <<>>
      BY <2>3 DEF TakeEvent, BusOK, BusTypeOK
    <3>2. /\ handling' = None \/ handling' \in Tellings
          /\ First /\ turn \in Early => handling' = None /\ FALSE
      BY <2>3, <3>1, TellTyped DEF TakeEvent, BusOK
    <3>3. BusTypeOK'
      BY <2>3, <3>1, <3>2 DEF TakeEvent, BusOK, BusTypeOK, configVars
    <3> QED
      BY <2>3, <3>2, <3>3 DEF TakeEvent, BusOK, ConfigsOK, configVars, First
  <2>4. ASSUME NEW w \in Workloads, RestartPod(w) PROVE BusOK'
    <3>1. events' \in Seq(Events)
      BY <2>4 DEF RestartPod, BusOK, BusTypeOK, Events
    <3> QED
      BY <2>4, <3>1, <1>0
         DEF RestartPod, BusOK, BusTypeOK, ConfigsOK, configVars, First
  <2>5. ASSUME NEW w \in Workloads, TakeLate(w) PROVE BusOK'
    <3>1. Start(w) \in Events /\ Tell(Start(w))
      BY <2>5 DEF TakeLate, Start, Events
    <3>2. /\ handling' = None \/ handling' \in Tellings
          /\ First /\ turn \in Early => handling' = None
      BY <3>1, TellTyped DEF BusOK
    <3>3. BusTypeOK'
      BY <2>5, <3>2 DEF TakeLate, BusOK, BusTypeOK, configVars
    <3> QED
      BY <2>5, <3>2, <3>3 DEF TakeLate, BusOK, ConfigsOK, configVars, First
  <2> QED
    BY <1>1, <2>1, <2>2, <2>3, <2>4, <2>5 DEF Bus
<1>2. ASSUME UpdateWorkloads PROVE BusOK'
  <2>1. PodsFoot
    BY <1>2, PodsSteps
  <2>2. /\ events' \in Seq(Events) /\ faults' \in 0..MaxFaults
        /\ todo' \subseteq Workloads /\ pods' \subseteq Workloads /\ late' \subseteq Workloads
    <3> DEFINE Typed == /\ events' \in Seq(Events) /\ faults' \in 0..MaxFaults
                        /\ todo' \subseteq Workloads /\ pods' \subseteq Workloads
                        /\ late' \subseteq Workloads
    <3>1. /\ events \in Seq(Events) /\ todo \subseteq Workloads /\ pods \subseteq Workloads
          /\ late \subseteq Workloads
      BY DEF BusOK, BusTypeOK
    <3>2. ASSUME NEW w \in Workloads, UpdateWorkload(w) \/ PruneWorkload(w) PROVE Typed
      <4>1. \A e \in Events : Append(events, e) \in Seq(Events)
        BY <3>1
      <4>2. Start(w) \in Events /\ Removal(w) \in Events
        BY DEF Start, Removal, Events
      <4>3. events' = events \/ events' = Append(events, Start(w))
              \/ events' = Append(events, Removal(w))
        BY <3>2 DEF UpdateWorkload, PruneWorkload, Started, Removed, Start, Removal
      <4>4. events' \in Seq(Events)
        BY <3>1, <4>1, <4>2, <4>3
      <4> QED
        BY <3>1, <3>2, <4>4, <1>0 DEF UpdateWorkload, PruneWorkload, Started, Removed
    <3>3. CASE EndWorkloads \/ EndPrune
      BY <3>1, <3>3, <1>0 DEF EndWorkloads, EndPrune, Pass, eventVars
    <3> QED
      BY <1>2, <3>2, <3>3 DEF UpdateWorkloads
  <2> QED
    BY <2>1, <2>2
       DEF PodsFoot, BusOK, BusTypeOK, ConfigsOK, configVars, First, Early
<1>3. ASSUME LogsNext PROVE BusOK'
  <2>1. LogsFoot
    BY <1>3, LogsSteps
  <2>2. handling' = None \/ handling' \in Tellings
    BY <2>1, ToldTyped DEF LogsFoot, BusOK, BusTypeOK
  <2>3. BusTypeOK'
    BY <2>1, <2>2, <1>0 DEF LogsFoot, BusOK, BusTypeOK, configVars
  <2>4. ConfigsOK' /\ First' = First
    BY <2>1 DEF LogsFoot, BusOK, ConfigsOK, configVars, First
  <2>5. turn' = "streams" => First' /\ todo' \subseteq pods'
    BY <2>1, <2>4 DEF LogsFoot, BusOK
  <2>6. First' /\ turn' \in Early => First /\ turn \in Early
    BY <2>1, <2>4 DEF LogsFoot, Early
  <2>7. First /\ turn \in Early => handling' = None
    BY <2>1 DEF LogsFoot, BusOK, ToldBy
  <2> QED
    BY <2>1, <2>2, <2>3, <2>4, <2>5, <2>6, <2>7 DEF LogsFoot, BusOK
<1>4. ASSUME UpdateMounts PROVE BusOK'
  BY <1>4, <1>0, MountsSteps
     DEF MountsFoot, BusOK, BusTypeOK, ConfigsOK, configVars, eventVars, First, Early
<1>5. ASSUME TransferNext PROVE BusOK'
  <2>1. TransferFoot
    BY <1>5, TransferSteps
  <2>2. handling' = None \/ handling' \in Tellings
    BY <2>1, ToldTyped DEF TransferFoot, BusOK, BusTypeOK
  <2>3. BusTypeOK'
    BY <2>1, <2>2, <1>0 DEF TransferFoot, BusOK, BusTypeOK, configVars
  <2>4. ConfigsOK' /\ First' = First
    BY <2>1 DEF TransferFoot, BusOK, ConfigsOK, configVars, First
  <2>5. First /\ turn' \in Early => turn' = turn /\ handling' = None
    BY <2>1 DEF TransferFoot, BusOK, Early, ToldBy
  <2> QED
    BY <2>1, <2>2, <2>3, <2>4, <2>5 DEF TransferFoot, BusOK, Early
<1>6. ASSUME UNCHANGED vars PROVE BusOK'
  BY <1>6 DEF BusOK, BusTypeOK, ConfigsOK, vars, busVars, configVars, eventVars, First
<1> QED
  BY <1>1, <1>2, <1>3, <1>4, <1>5, <1>6 DEF Next

\* The configurations handed over stay, and one may follow when the consumer is
\* idle.
LEMMA HandedGrows ==
  ASSUME BusOK, SyncTold, [Next]_vars
  PROVE  /\ UNCHANGED handed \/ (/\ turn = "idle" /\ turn' = "dial"
                                 /\ Len(handed') = Len(handed) + 1
                                 /\ UNCHANGED <<mountVars, transferVars, logsVars, proc>>)
         /\ Len(handed) \in Nat /\ Len(handed') \in Nat /\ Len(handed) <= Len(handed')
         /\ DOMAIN handed = 1..Len(handed) /\ DOMAIN handed' = 1..Len(handed')
         /\ \A k \in DOMAIN handed : k \in DOMAIN handed' /\ handed'[k] = handed[k]
<1>1. handed \in Seq(Configurations)
  BY DEF BusOK, ConfigsOK
<1>2. UNCHANGED handed
        \/ (/\ turn = "idle" /\ turn' = "dial" /\ script # <<>>
            /\ handed' = Append(handed, Head(script))
            /\ UNCHANGED <<mountVars, transferVars, logsVars, proc>>)
  BY BusSteps, PodsSteps, LogsSteps, MountsSteps, TransferSteps
     DEF BusFoot, PodsFoot, LogsFoot, MountsFoot, TransferFoot, Next, vars, busVars, configVars
<1>3. CASE UNCHANGED handed
  BY <1>1, <1>3
<1>4. CASE script # <<>> /\ handed' = Append(handed, Head(script))
  <2>1. Head(script) \in Configurations
    BY <1>4 DEF BusOK, ConfigsOK
  <2>2. /\ Len(handed') = Len(handed) + 1 /\ DOMAIN handed' = 1..Len(handed')
        /\ \A k \in 1..Len(handed) : handed'[k] = handed[k]
    BY <1>1, <1>4, <2>1
  <2> QED
    BY <1>1, <1>2, <2>2
<1> QED
  BY <1>2, <1>3, <1>4

-----------------------------------------------------------------------------
(* The types of the data transfer monitor *)

\* SyncOK without what SyncType says already.
SyncParts ==
  /\ fsSync \in 0..Len(handed)
  /\ connected \subseteq 1..Len(handed)
  /\ sync \in [Threads -> SyncType]
  /\ lastSync \in [Workloads -> {"none", "kept", "late"}]
  /\ ticks \in 0..MaxTicks

\* The types of the synchronisations, one by one and together.
LEMMA SyncPartsOK == SyncParts <=> SyncOK
  BY DEF SyncParts, SyncOK, TransferTypeOK, SyncType

\* Nothing is synchronised before the first configuration.
LEMMA SyncInitial == Init => SyncOK /\ SyncTold
<1> SUFFICES ASSUME Init PROVE SyncParts /\ SyncTold
  BY SyncPartsOK
<1>1. Len(handed) \in Nat
  BY BusInitial DEF BusOK, ConfigsOK
<1> QED
  BY <1>1, BusAssumption
     DEF Init, TransferInit, SyncParts, SyncTold, SyncType, NoSync, BusAssumption, Threads

\* A step that leaves the monitor alone and lets the configurations grow.
LEMMA SyncKept ==
  ASSUME SyncOK, UNCHANGED transferVars, Len(handed) \in Nat, Len(handed') \in Nat,
         Len(handed) <= Len(handed')
  PROVE  SyncOK'
<1> SUFFICES SyncParts'
  BY SyncPartsOK, PTL
<1>1. \A m \in 0..Len(handed) : m \in 0..Len(handed')
  OBVIOUS
<1>2. \A m \in 1..Len(handed) : m \in 1..Len(handed')
  OBVIOUS
<1>3. \A r \in SyncType : r \in SyncType'
  BY <1>1 DEF SyncType
<1>4. SyncParts
  BY SyncPartsOK
<1>5. sync' \in [Threads -> SyncType']
  BY <1>3, <1>4 DEF SyncParts, transferVars
<1> QED
  BY <1>1, <1>2, <1>4, <1>5 DEF SyncParts, transferVars

\* Changes to the record of a synchronisation keep its type.
LEMMA SyncFields ==
  ASSUME NEW r \in SyncType
  PROVE  /\ \A s \in {"idle", "choose", "connect", "path", "stats", "forget"} :
              [r EXCEPT !.step = s] \in SyncType
         /\ \A l \in SUBSET Workloads : [r EXCEPT !.left = l] \in SyncType
         /\ \A w \in Workloads : [r EXCEPT !.name = w] \in SyncType
         /\ \A d \in {"egress", "ingress"} : [r EXCEPT !.direction = d] \in SyncType
         /\ \A c \in 0..Len(handed) : [r EXCEPT !.copy = c] \in SyncType
         /\ \A f \in BOOLEAN : [r EXCEPT !.failed = f] \in SyncType
<1>1. \A s \in {"idle", "choose", "connect", "path", "stats", "forget"} :
        [r EXCEPT !.step = s] \in SyncType
  BY DEF SyncType
<1>2. \A l \in SUBSET Workloads : [r EXCEPT !.left = l] \in SyncType
  BY DEF SyncType
<1>3. \A w \in Workloads : [r EXCEPT !.name = w] \in SyncType
  BY DEF SyncType
<1>4. \A d \in {"egress", "ingress"} : [r EXCEPT !.direction = d] \in SyncType
  BY DEF SyncType
<1>5. \A c \in 0..Len(handed) : [r EXCEPT !.copy = c] \in SyncType
  BY DEF SyncType
<1>6. \A f \in BOOLEAN : [r EXCEPT !.failed = f] \in SyncType
  BY DEF SyncType
<1> QED
  BY <1>1, <1>2, <1>3, <1>4, <1>5, <1>6

\* The end of a direction keeps the types.
LEMMA EndDirectionTyped ==
  ASSUME SyncOK, NEW t \in Threads, NEW failed \in BOOLEAN, EndDirection(t, failed),
         UNCHANGED handed, Len(handed) \in Nat
  PROVE  /\ sync' \in [Threads -> SyncType']
         /\ lastSync' \in [Workloads -> {"none", "kept", "late"}]
<1>1. SyncType' = SyncType
  BY DEF SyncType
<1>2. sync \in [Threads -> SyncType] /\ lastSync \in [Workloads -> {"none", "kept", "late"}]
  BY SyncPartsOK DEF SyncParts
<1>3. lastSync' \in [Workloads -> {"none", "kept", "late"}]
  BY <1>2 DEF EndDirection
<1>4. \A r \in SyncType : \A s \in {"connect", "choose", "forget"},
      d \in {"egress", "ingress"} :
        \A f \in BOOLEAN :
          [r EXCEPT !.step = s, !.copy = 0, !.direction = d, !.failed = f] \in SyncType
  <2> TAKE r \in SyncType
  <2> TAKE s \in {"connect", "choose", "forget"}, d \in {"egress", "ingress"}
  <2> TAKE f \in BOOLEAN
  <2> DEFINE r1 == [r EXCEPT !.step = s]
             r2 == [r1 EXCEPT !.copy = 0]
             r3 == [r2 EXCEPT !.direction = d]
  <2>1. r1 \in SyncType
    BY SyncFields
  <2>2. r2 \in SyncType
    <3>1. 0 \in 0..Len(handed)
      OBVIOUS
    <3> QED
      BY <2>1, <3>1, SyncFields
  <2>3. r3 \in SyncType
    BY <2>2, SyncFields
  <2>4. [r3 EXCEPT !.failed = f] \in SyncType
    BY <2>3, SyncFields
  <2> QED
    BY <2>4
<1>5. \E r \in SyncType : sync' = [sync EXCEPT ![t] = r]
  <2> DEFINE again == sync[t].direction = "egress" /\ (t = "events" \/ ~failed)
             step == IF again THEN "connect" ELSE IF t = "ticker" THEN "choose" ELSE "forget"
             way == IF again THEN "ingress" ELSE "egress"
             flag == IF again THEN failed ELSE FALSE
  <2>1. sync' = [sync EXCEPT ![t] = [@ EXCEPT !.step = step, !.copy = 0, !.direction = way,
                                              !.failed = flag]]
    BY DEF EndDirection
  <2>2. [sync[t] EXCEPT !.step = step, !.copy = 0, !.direction = way, !.failed = flag]
          \in SyncType
    BY <1>2, <1>4
  <2> QED
    BY <2>1, <2>2
<1> QED
  BY <1>1, <1>2, <1>3, <1>5

\* Every step keeps the core of the invariant.
LEMMA CoreInductive == Core /\ [Next]_vars => Core'
<1> SUFFICES ASSUME Core, [Next]_vars PROVE Core'
  OBVIOUS
<1>0. BusOK /\ SyncOK /\ SyncTold /\ SyncParts
  BY SyncPartsOK DEF Core
<1>1. BusOK'
  BY <1>0, BusInductive
<1>2. /\ Len(handed) \in Nat /\ Len(handed') \in Nat /\ Len(handed) <= Len(handed')
      /\ fsSync \in 0..Len(handed) /\ sync \in [Threads -> SyncType]
      /\ lastSync \in [Workloads -> {"none", "kept", "late"}]
      /\ connected \subseteq 1..Len(handed)
      /\ ticks \in 0..MaxTicks /\ MaxTicks \in Nat
  BY <1>0, HandedGrows, BusAssumption DEF SyncParts, BusAssumption
<1>3. ASSUME UNCHANGED transferVars PROVE SyncOK'
  BY <1>0, <1>2, <1>3, SyncKept
<1>4. ASSUME TransferNext PROVE SyncOK'
  <2>1. UNCHANGED handed
    BY <1>0, <1>4, TransferSteps DEF TransferFoot, configVars
  <2>2. SyncType' = SyncType
    BY <2>1 DEF SyncType
  <2> SUFFICES SyncParts'
    BY SyncPartsOK, PTL
  <2>3. CASE UpdateTransfer
    BY <2>1, <2>2, <2>3, <1>2 DEF UpdateTransfer, SyncParts
  <2>4. CASE Tick \/ Deregister
    <3>1. \A r \in SyncType : \A l \in SUBSET Workloads :
            [[r EXCEPT !.step = "choose"] EXCEPT !.left = l] \in SyncType
      BY SyncFields
    <3>2. pods \subseteq Workloads
      BY <1>0 DEF BusOK, BusTypeOK
    <3>3. pods \cap memory.data \in SUBSET Workloads
      BY <3>2
    <3>4. sync' \in [Threads -> SyncType]
      <4> DEFINE r == [[sync["ticker"] EXCEPT !.step = "choose"]
                         EXCEPT !.left = pods \cap memory.data]
      <4>1. r \in SyncType
        BY <1>2, <3>1, <3>3 DEF Threads
      <4>2. sync' = sync \/ sync' = [sync EXCEPT !["ticker"] = r]
        BY <2>4, <1>2 DEF Tick, Deregister, Threads
      <4> QED
        BY <1>2, <4>1, <4>2
    <3> QED
      BY <2>1, <2>2, <2>4, <3>4, <1>2 DEF Tick, Deregister, SyncParts
  <2>5. CASE ChooseWorkload
    <3>1. ASSUME NEW w \in sync["ticker"].left
          PROVE  [sync["ticker"] EXCEPT !.step = "connect", !.name = w,
                                        !.left = sync["ticker"].left \ {w}] \in SyncType
      BY <1>2 DEF SyncType, Threads
    <3>2. NoSync \in SyncType
      BY <1>2 DEF SyncType, NoSync
    <3>3. sync' \in [Threads -> SyncType]
      <4>1. CASE sync' = [sync EXCEPT !["ticker"] = NoSync]
        BY <4>1, <1>2, <3>2
      <4>2. ASSUME NEW w \in sync["ticker"].left,
                   sync' = [sync EXCEPT !["ticker"] =
                              [@ EXCEPT !.step = "connect", !.name = w,
                                        !.left = sync["ticker"].left \ {w}]]
            PROVE  sync' \in [Threads -> SyncType]
        <5> DEFINE r == [sync["ticker"] EXCEPT !.step = "connect", !.name = w,
                                               !.left = sync["ticker"].left \ {w}]
        <5>1. r \in SyncType
          BY <3>1
        <5>2. sync' = [sync EXCEPT !["ticker"] = r]
          BY <4>2, <1>2 DEF SyncType, Threads
        <5> HIDE DEF r
        <5> QED
          BY <1>2, <5>1, <5>2
      <4> QED
        BY <2>5, <4>1, <4>2 DEF ChooseWorkload
    <3> QED
      BY <2>1, <2>2, <2>5, <3>3, <1>2 DEF ChooseWorkload, SyncParts
  <2>6. CASE IgnoreStarted
    BY <2>1, <2>6, <1>3 DEF IgnoreStarted, SyncOK, SyncParts, TransferTypeOK, SyncPartsOK
  <2>7. CASE SyncRemoved
    <3>1. handling.event.name \in Workloads
      BY <2>7, <1>0 DEF SyncRemoved, Telling, BusOK, BusTypeOK, Tellings, Events
    <3>2. \A r \in SyncType : \A s \in {"connect", "forget"}, w \in Workloads :
            [r EXCEPT !.step = s, !.name = w] \in SyncType
      BY DEF SyncType
    <3>3. sync' \in [Threads -> SyncType]
      BY <2>7, <1>2, <3>1, <3>2 DEF SyncRemoved, Threads
    <3> QED
      BY <2>1, <2>2, <2>7, <3>3, <1>2 DEF SyncRemoved, SyncParts
  <2>8. CASE Forget
    <3>1. NoSync \in SyncType
      BY <1>2 DEF SyncType, NoSync
    <3>2. sync' \in [Threads -> SyncType]
      BY <2>8, <1>2, <3>1 DEF Forget
    <3> QED
      BY <2>1, <2>2, <2>8, <3>2, <1>2 DEF Forget, DeleteTime, SyncParts
  <2>9. ASSUME NEW t \in Threads, Connect(t) PROVE SyncParts'
    <3>1. CASE EndDirection(t, TRUE) /\ UNCHANGED connected
      BY <2>1, <2>9, <3>1, <1>0, <1>2, EndDirectionTyped DEF Connect, SyncParts
    <3>2. CASE /\ fsSync # 0
               /\ sync' = [sync EXCEPT ![t].step = "path", ![t].copy = fsSync]
               /\ connected' = connected \cup {fsSync}
               /\ UNCHANGED lastSync
      <4>1. \A r \in SyncType : [r EXCEPT !.step = "path", !.copy = fsSync] \in SyncType
        BY <1>2 DEF SyncType
      <4>2. sync' \in [Threads -> SyncType]
        BY <3>2, <1>2, <4>1
      <4>3. fsSync \in 1..Len(handed)
        BY <3>2, <1>2
      <4> QED
        BY <2>1, <2>2, <2>9, <3>2, <4>2, <4>3, <1>2 DEF Connect, SyncParts
    <3> QED
      BY <2>9, <3>1, <3>2 DEF Connect
  <2>10. ASSUME NEW t \in Threads, SyncPath(t) PROVE SyncParts'
    <3>1. \A r \in SyncType : /\ [r EXCEPT !.step = "stats"] \in SyncType
                              /\ [r EXCEPT !.step = "stats", !.failed = TRUE] \in SyncType
      BY DEF SyncType
    <3>2. sync' \in [Threads -> SyncType]
      <4>1. CASE sync' = [sync EXCEPT ![t].step = "stats"]
        BY <4>1, <1>2, <3>1
      <4>2. CASE sync' = [sync EXCEPT ![t].step = "stats", ![t].failed = TRUE]
        <5>1. sync' = [sync EXCEPT ![t] = [@ EXCEPT !.step = "stats", !.failed = TRUE]]
          BY <4>2, <1>2
        <5> QED
          BY <5>1, <1>2, <3>1
      <4> QED
        BY <2>10, <4>1, <4>2, <1>2 DEF SyncPath, Moves
    <3> QED
      BY <2>1, <2>2, <2>10, <3>2, <1>2 DEF SyncPath, SyncParts
  <2>11. ASSUME NEW t \in Threads, EndPaths(t) PROVE SyncParts'
    <3>1. sync[t].failed \in BOOLEAN
      BY <1>2 DEF SyncType
    <3>2. /\ sync' \in [Threads -> SyncType']
          /\ lastSync' \in [Workloads -> {"none", "kept", "late"}]
      BY <2>1, <2>2, <2>11, <3>1, <1>0, <1>2, EndDirectionTyped DEF EndPaths
    <3> QED
      BY <2>1, <2>11, <3>2, <1>2 DEF EndPaths, SyncParts
  <2> QED
    BY <1>4, <2>3, <2>4, <2>5, <2>6, <2>7, <2>8, <2>9, <2>10, <2>11 DEF TransferNext
<1>5. SyncOK'
  BY <1>3, <1>4 DEF Next, vars
<1>6. SyncTold'
  <2>1. ASSUME UNCHANGED transferVars, UNCHANGED handling \/ ToldBy("logs") PROVE SyncTold'
    BY <2>1, <1>0 DEF SyncTold, ToldTo, ToldBy, transferVars, Removal
  <2>2. CASE Bus /\ UNCHANGED <<logsVars, mountVars, transferVars>>
    <3>1. handling # None => UNCHANGED handling
      BY <2>2 DEF Bus, Receive, Save, TakeEvent, RestartPod, TakeLate, eventVars
    <3> QED
      BY <2>2, <3>1, <1>0 DEF SyncTold, ToldTo, transferVars, Removal
  <2>3. CASE (UpdateWorkloads \/ LogsNext \/ UpdateMounts \/ UNCHANGED vars)
               /\ UNCHANGED transferVars
    BY <2>1, <2>3, PodsSteps, LogsSteps, MountsSteps
       DEF PodsFoot, LogsFoot, MountsFoot, vars, busVars, eventVars
  <2>4. ASSUME UNCHANGED handling,
               sync'["events"].step # "idle" => /\ sync["events"].step # "idle"
                                                /\ sync'["events"].name = sync["events"].name
        PROVE  SyncTold'
    BY <2>4, <1>0 DEF SyncTold, ToldTo, Removal
  <2>5. CASE UpdateTransfer
    BY <2>4, <2>5 DEF UpdateTransfer, eventVars
  <2>6. CASE Tick \/ ChooseWorkload \/ Deregister
    <3>1. sync'["events"] = sync["events"] /\ UNCHANGED handling
      BY <2>6, <1>2 DEF Tick, ChooseWorkload, Deregister, busVars, eventVars, Threads
    <3> QED
      BY <2>4, <3>1
  <2>7. CASE IgnoreStarted
    BY <2>7, <1>0 DEF IgnoreStarted, Telling, SyncTold, ToldTo, transferVars, Removal
  <2>8. CASE SyncRemoved
    <3>1. /\ handling' = handling /\ handling.event \in Events
          /\ sync'["events"].name = handling.event.name
      BY <2>8, <1>0, <1>2
         DEF SyncRemoved, Telling, busVars, eventVars, Threads, BusOK, BusTypeOK, Tellings,
             SyncType
    <3>2. handling.event = Removal(handling.event.name)
      BY <2>8, <3>1 DEF SyncRemoved, Telling, Events, Removal
    <3> QED
      BY <2>8, <3>1, <3>2 DEF SyncRemoved, Telling, SyncTold, ToldTo, Removal
  <2>9. CASE Forget
    BY <2>9, <1>2 DEF Forget, NoSync, Threads, SyncTold
  <2>10. ASSUME NEW t \in Threads, Connect(t) \/ SyncPath(t) \/ EndPaths(t) PROVE SyncTold'
    <3>1. UNCHANGED handling
      BY <2>10 DEF Connect, SyncPath, EndPaths, eventVars
    <3>2. /\ sync[t].step # "idle"
          /\ \A u \in Threads : sync'[u].name = sync[u].name /\ (u # t => sync'[u] = sync[u])
      <4>1. sync[t].step # "idle"
        BY <2>10 DEF Connect, SyncPath, EndPaths, At
      <4>2. \/ UNCHANGED sync \/ Moves(t, "stats")
            \/ sync' = [sync EXCEPT ![t].step = "stats", ![t].failed = TRUE]
            \/ sync' = [sync EXCEPT ![t].step = "path", ![t].copy = fsSync]
            \/ EndDirection(t, TRUE) \/ EndDirection(t, sync[t].failed)
        BY <2>10 DEF Connect, SyncPath, EndPaths
      <4>3. sync[t] \in SyncType
        BY <1>2
      <4>4. ASSUME NEW f \in {TRUE, sync[t].failed}, EndDirection(t, f)
            PROVE  \E r : sync' = [sync EXCEPT ![t] = r] /\ r.name = sync[t].name
        <5> DEFINE again == sync[t].direction = "egress" /\ (t = "events" \/ ~f)
                   step == IF again THEN "connect"
                           ELSE IF t = "ticker" THEN "choose" ELSE "forget"
                   way == IF again THEN "ingress" ELSE "egress"
                   flag == IF again THEN f ELSE FALSE
                   r == [sync[t] EXCEPT !.step = step, !.copy = 0, !.direction = way,
                                        !.failed = flag]
        <5>1. sync' = [sync EXCEPT ![t] = r]
          BY <4>4 DEF EndDirection
        <5>2. r.name = sync[t].name
          BY <4>3 DEF SyncType
        <5> HIDE DEF r
        <5> QED
          BY <5>1, <5>2
      <4>5. UNCHANGED sync \/ \E r : sync' = [sync EXCEPT ![t] = r] /\ r.name = sync[t].name
        <5>1. CASE Moves(t, "stats")
          <6> DEFINE r == [sync[t] EXCEPT !.step = "stats"]
          <6>1. sync' = [sync EXCEPT ![t] = r] /\ r.name = sync[t].name
            BY <5>1, <4>3, <1>2 DEF Moves, SyncType
          <6> QED
            BY <6>1
        <5>2. CASE sync' = [sync EXCEPT ![t].step = "stats", ![t].failed = TRUE]
          <6> DEFINE r == [sync[t] EXCEPT !.step = "stats", !.failed = TRUE]
          <6>1. sync' = [sync EXCEPT ![t] = r] /\ r.name = sync[t].name
            BY <5>2, <4>3, <1>2 DEF SyncType
          <6> QED
            BY <6>1
        <5>3. CASE sync' = [sync EXCEPT ![t].step = "path", ![t].copy = fsSync]
          <6> DEFINE r == [sync[t] EXCEPT !.step = "path", !.copy = fsSync]
          <6>1. sync' = [sync EXCEPT ![t] = r] /\ r.name = sync[t].name
            BY <5>3, <4>3, <1>2 DEF SyncType
          <6> QED
            BY <6>1
        <5> QED
          BY <4>2, <4>4, <5>1, <5>2, <5>3
      <4> QED
        BY <4>1, <4>5, <1>2
    <3> QED
      BY <2>4, <3>1, <3>2 DEF Threads
  <2> QED
    BY <2>2, <2>3, <2>5, <2>6, <2>7, <2>8, <2>9, <2>10 DEF Next, TransferNext, vars, SyncTold
<1> QED
  BY <1>1, <1>5, <1>6 DEF Core

-----------------------------------------------------------------------------
(* The times of the workloads whose pods are gone *)

\* Where a goroutine is after a direction: not within one.
LEMMA EndDirectionLeaves ==
  ASSUME SyncOK, NEW t \in Threads, NEW f, EndDirection(t, f)
  PROVE  /\ sync'[t].step \in {"connect", "choose", "forget"}
         /\ \A u \in Threads \ {t} : sync'[u] = sync[u]
         /\ sync'[t].name = sync[t].name
<1>1. sync \in [Threads -> SyncType]
  BY DEF SyncOK
<1> DEFINE again == sync[t].direction = "egress" /\ (t = "events" \/ ~f)
           step == IF again THEN "connect" ELSE IF t = "ticker" THEN "choose" ELSE "forget"
           r == [sync[t] EXCEPT !.step = step, !.copy = 0,
                                !.direction = IF again THEN "ingress" ELSE "egress",
                                !.failed = IF again THEN f ELSE FALSE]
<1>2. sync' = [sync EXCEPT ![t] = r]
  BY DEF EndDirection
<1>3. r.step = step /\ r.name = sync[t].name
  BY <1>1 DEF SyncType
<1>4. step \in {"connect", "choose", "forget"}
  OBVIOUS
<1> HIDE DEF r, step
<1> QED
  BY <1>1, <1>2, <1>3, <1>4

\* Which events wait after one was taken, and after one was reported.
LEMMA WaitingTail ==
  ASSUME BusOK, events # <<>>, events' = Tail(events), NEW e, Waiting(e)
  PROVE  e = Head(events) \/ Waiting(e)'
<1>1. events \in Seq(Events)
  BY DEF BusOK, BusTypeOK
<1>2. PICK k \in 1..Len(events) : events[k] = e
  BY <1>1 DEF Waiting
<1>3. CASE k = 1
  BY <1>1, <1>2, <1>3
<1>4. CASE k # 1
  <2>1. k - 1 \in DOMAIN events' /\ events'[k - 1] = e
    BY <1>1, <1>2, <1>4
  <2> QED
    BY <2>1 DEF Waiting
<1> QED
  BY <1>3, <1>4

\* An event that is sent waits, and those before it go on waiting;
LEMMA WaitingAppend ==
  ASSUME BusOK, NEW x \in Events, events' = Append(events, x)
  PROVE  Waiting(x)' /\ \A e : Waiting(e) => Waiting(e)'
<1>1. events \in Seq(Events)
  BY DEF BusOK, BusTypeOK
<1>2. Len(events) + 1 \in DOMAIN events' /\ events'[Len(events) + 1] = x
  BY <1>1
<1>3. \A k \in DOMAIN events : k \in DOMAIN events' /\ events'[k] = events[k]
  BY <1>1
<1> QED
  BY <1>2, <1>3 DEF Waiting

\* so they do when a pod restarts.
LEMMA WaitingRestart ==
  ASSUME BusOK, NEW w \in Workloads, RestartPod(w)
  PROVE  \A e : Waiting(e) => Waiting(e)'
<1>1. events \in Seq(Events)
  BY DEF BusOK, BusTypeOK
<1>2. events' = events \o <<Removal(w), Start(w)>> /\ Removal(w) \in Events
        /\ Start(w) \in Events
  BY DEF RestartPod, Removal, Start, Events
<1>3. \A k \in DOMAIN events : k \in DOMAIN events' /\ events'[k] = events[k]
  BY <1>1, <1>2
<1> QED
  BY <1>3 DEF Waiting

\* The monitor has been told, or is to be told, that the pod of w is gone.
TransferHears(w) ==
  \/ Waiting(Removal(w))
  \/ /\ handling # None /\ handling.event = Removal(w)
     /\ handling.observers # <<"logs">>

\* No time is kept before the first synchronisation.
LEMMA RemovalsInitial == Init => RemovalsInv
  BY DEF Init, BusInit, TransferInit, RemovalsInv, NoSync, Threads

\* Every step keeps what is known of the times of removed workloads.
LEMMA RemovalsInductive == Core /\ RemovalsInv /\ [Next]_vars => RemovalsInv'
<1> SUFFICES ASSUME Core, RemovalsInv, [Next]_vars PROVE RemovalsInv'
  OBVIOUS
<1> USE DEF TransferHears
<1>0. /\ BusOK /\ SyncOK /\ SyncTold /\ sync \in [Threads -> SyncType]
      /\ lastSync \in [Workloads -> {"none", "kept", "late"}]
  BY SyncPartsOK DEF Core, SyncOK, SyncParts
\* A step that leaves the monitor alone.
<1>1. ASSUME UNCHANGED transferVars, TransferObserves => TransferObserves',
             proc' = "starting" => proc = "starting",
             handling' # None /\ handling'.observers # <<"logs">> => TransferObserves',
             \A w \in Workloads : TransferObserves /\ w \notin pods' =>
               \/ w \notin pods /\ ~TransferHears(w)
               \/ TransferHears(w)'
      PROVE  RemovalsInv'
  <2>1. \A w \in Workloads : lastSync'[w] = lastSync[w]
    BY <1>1 DEF transferVars
  <2>2. sync' = sync
    BY <1>1 DEF transferVars
  <2>3. ASSUME NEW w \in Workloads, lastSync'[w] = "kept"
        PROVE  TransferObserves' /\ (w \notin pods' => TransferHears(w)')
    BY <1>1, <2>1, <2>3 DEF RemovalsInv
  <2> QED
    BY <1>1, <2>2, <2>3 DEF RemovalsInv
<1>2. ASSUME Bus, UNCHANGED transferVars PROVE RemovalsInv'
  <2>1. BusFoot /\ (TransferObserves => TransferObserves')
    BY <1>0, <1>2, BusSteps DEF BusFoot, TransferObserves, BusOK
  <2>2. CASE Receive \/ Save
    <3>1. UNCHANGED <<events, handling>>
      BY <2>2 DEF Receive, Save, eventVars
    <3> QED
      BY <1>1, <1>2, <2>1, <3>1 DEF BusFoot, Waiting, RemovalsInv
  <2>3. CASE TakeEvent
    <3>1. /\ handling = None /\ events # <<>> /\ events' = Tail(events)
          /\ UNCHANGED <<turn, proc, pods>> /\ Alive
          /\ (Head(events).kind = "started" /\ UNCHANGED handling) \/ Tell(Head(events))
      BY <2>3 DEF TakeEvent, configVars
    <3>2. handling' # None /\ handling'.observers # <<"logs">> => TransferObserves'
      BY <3>1 DEF Tell, Observers, TransferObserves
    <3>3. ASSUME NEW w \in Workloads, TransferObserves, TransferHears(w) PROVE TransferHears(w)'
      <4>1. Waiting(Removal(w))
        BY <3>1, <3>3
      <4>2. CASE Removal(w) = Head(events)
        <5>1. Tell(Removal(w))
          BY <3>1, <4>2 DEF Removal
        <5>2. Observers = <<"logs", "transfer">>
          BY <3>1, <3>3, <1>0 DEF Observers, TransferObserves, Alive, BusOK, BusTypeOK
        <5>3. handling' = [event |-> Removal(w), observers |-> <<"logs", "transfer">>]
          BY <5>1, <5>2 DEF Tell
        <5>4. handling' # None
          BY <5>3, BusAssumption DEF BusAssumption, Tellings, Removal, Events
        <5> QED
          BY <5>3, <5>4 DEF Removal
      <4> QED
        BY <3>1, <4>1, <4>2, <1>0, WaitingTail DEF Removal
    <3> QED
      BY <1>1, <1>2, <2>1, <3>1, <3>2, <3>3
  <2>4. ASSUME NEW v \in Workloads, RestartPod(v) PROVE RemovalsInv'
    <3>1. UNCHANGED <<handling, proc, turn, pods>>
      BY <2>4 DEF RestartPod
    <3> QED
      BY <1>0, <1>1, <1>2, <2>1, <2>4, <3>1, WaitingRestart DEF RemovalsInv, Removal
  <2>5. ASSUME NEW v \in Workloads, TakeLate(v) PROVE RemovalsInv'
    <3>1. /\ handling = None /\ UNCHANGED <<events, turn, proc, pods>>
          /\ Tell([kind |-> "started", name |-> v])
      BY <2>5 DEF TakeLate, configVars
    <3>2. handling' # None /\ handling'.observers # <<"logs">> => TransferObserves'
      BY <3>1 DEF Tell, Observers, TransferObserves
    <3>3. \A w : TransferHears(w) => TransferHears(w)'
      BY <3>1 DEF Waiting, Removal
    <3> QED
      BY <1>1, <1>2, <2>1, <3>1, <3>2, <3>3
  <2> QED
    BY <1>2, <2>2, <2>3, <2>4, <2>5 DEF Bus
<1>3. ASSUME UpdateWorkloads, UNCHANGED transferVars PROVE RemovalsInv'
  <2>1. /\ PodsFoot /\ (TransferObserves <=> TransferObserves')
        /\ UNCHANGED <<handling, proc>>
    BY <1>3, PodsSteps DEF PodsFoot, TransferObserves
  <2>2. CASE UNCHANGED <<pods, events>>
    BY <1>1, <1>3, <2>1, <2>2 DEF Waiting, RemovalsInv
  <2>3. ASSUME NEW v \in Workloads, Started(v) PROVE RemovalsInv'
    <3>1. events' = Append(events, Start(v)) /\ Start(v) \in Events /\ pods \subseteq pods'
      BY <2>3 DEF Started, Start, Events
    <3>2. \A w : TransferHears(w) => TransferHears(w)'
      BY <1>0, <2>1, <3>1, WaitingAppend DEF Removal
    <3> QED
      BY <1>1, <1>3, <2>1, <3>1, <3>2 DEF RemovalsInv
  <2>4. ASSUME NEW v \in Workloads, Removed(v) PROVE RemovalsInv'
    <3>1. events' = Append(events, Removal(v)) /\ Removal(v) \in Events /\ pods' = pods \ {v}
      BY <2>4 DEF Removed, Removal, Events
    <3>2. \A w : TransferHears(w) \/ w = v => TransferHears(w)'
      BY <1>0, <2>1, <3>1, WaitingAppend DEF Removal
    <3> QED
      BY <1>1, <1>3, <2>1, <3>1, <3>2 DEF RemovalsInv
  <2> QED
    BY <1>3, <2>2, <2>3, <2>4
       DEF UpdateWorkloads, UpdateWorkload, EndWorkloads, PruneWorkload, EndPrune, eventVars
<1>4. ASSUME LogsNext, UNCHANGED transferVars PROVE RemovalsInv'
  <2>1. LogsFoot
    BY <1>4, LogsSteps
  <2>2. (TransferObserves => TransferObserves') /\ (proc' = "starting" => proc = "starting")
    BY <2>1 DEF LogsFoot, TransferObserves
  <2>3. UNCHANGED <<pods, events>>
    BY <2>1 DEF LogsFoot
  <2>4. CASE UNCHANGED handling
    BY <1>1, <1>4, <2>2, <2>3, <2>4 DEF Waiting, RemovalsInv
  <2>5. CASE ToldBy("logs")
    <3>1. handling' # None => /\ handling'.event = handling.event
                              /\ handling.observers = <<"logs", "transfer">>
                              /\ handling'.observers = <<"transfer">>
      BY <2>5, <1>0, ToldTyped
    <3>2. handling # None /\ handling.observers # <<"logs">> => handling' # None
      BY <2>5, <1>0, ToldTyped DEF ToldBy, BusOK, BusTypeOK, Tellings
    <3>3. handling' # None => TransferObserves'
      BY <2>2, <2>5, <3>1 DEF RemovalsInv, ToldBy
    <3>4. \A w : TransferHears(w) => TransferHears(w)'
      BY <2>3, <3>1, <3>2 DEF Waiting, Removal
    <3> QED
      BY <1>1, <1>4, <2>2, <2>3, <3>3, <3>4
  <2> QED
    BY <2>1, <2>4, <2>5 DEF LogsFoot
<1>5. ASSUME UpdateMounts \/ UNCHANGED vars, UNCHANGED transferVars PROVE RemovalsInv'
  <2>1. /\ UNCHANGED <<handling, proc, pods, events>>
        /\ TransferObserves => TransferObserves'
    BY <1>5, MountsSteps DEF MountsFoot, vars, busVars, eventVars, TransferObserves
  <2> QED
    BY <1>1, <1>5, <2>1 DEF Waiting, RemovalsInv
<1>6. ASSUME TransferNext PROVE RemovalsInv'
  <2>0. TransferFoot
    BY <1>0, <1>6, TransferSteps
  <2>1. /\ UNCHANGED <<pods, events>> /\ (TransferObserves => TransferObserves')
        /\ proc' = "starting" => proc = "starting"
    BY <2>0 DEF TransferFoot, TransferObserves
\* A step of a goroutine that stays within its synchronisation.
  <2>2. ASSUME UNCHANGED handling,
               sync'["ticker"].step # "idle" => proc # "starting",
               \A w \in Workloads : lastSync'[w] = "kept" =>
                  \/ lastSync[w] = "kept"
                  \/ w \in pods /\ proc # "starting"
                  \/ ToldTo("transfer", Removal(w)) /\ handling.observers # <<"logs">>
        PROVE  RemovalsInv'
    <3>1. proc # "starting" => proc' # "starting"
      BY <2>1
    <3>2. ASSUME NEW w \in Workloads, lastSync'[w] = "kept"
          PROVE  TransferObserves' /\ (w \notin pods' => TransferHears(w)')
      <4>1. TransferObserves
        BY <2>2, <3>2 DEF RemovalsInv, ToldTo, TransferObserves
      <4>2. w \notin pods => TransferHears(w)
        BY <2>2, <3>2 DEF RemovalsInv, ToldTo
      <4> QED
        BY <2>1, <2>2, <4>1, <4>2 DEF Waiting, Removal
    <3> QED
      BY <2>1, <2>2, <3>1, <3>2 DEF RemovalsInv
  <2>3. CASE UpdateTransfer
    BY <2>2, <2>3 DEF UpdateTransfer, RemovalsInv, eventVars
  <2>4. CASE Tick \/ Deregister \/ ChooseWorkload
    <3>1. sync'["ticker"].step # "idle" => proc # "starting"
      BY <2>4, <1>0 DEF Tick, Deregister, ChooseWorkload, RemovalsInv, At, Threads
    <3> QED
      BY <2>2, <2>4, <3>1 DEF Tick, Deregister, ChooseWorkload, busVars, eventVars
  <2>5. CASE SyncRemoved
    <3>1. sync'["ticker"] = sync["ticker"] /\ UNCHANGED <<handling, lastSync>>
      BY <2>5, <1>0 DEF SyncRemoved, Threads, busVars, eventVars
    <3> QED
      BY <2>2, <3>1 DEF RemovalsInv
\* The observer returns: only the workload of the event is told of no more.
  <2>6. ASSUME Told, ToldTo("transfer", handling.event), UNCHANGED sync["ticker"],
               \A w \in Workloads : lastSync'[w] = "kept" =>
                  lastSync[w] = "kept" /\ handling.event # Removal(w)
        PROVE  RemovalsInv'
    <3>1. handling' = None
      BY <2>6, <1>0, ToldTyped DEF ToldBy, ToldTo
    <3>2. ASSUME NEW w \in Workloads, lastSync'[w] = "kept"
          PROVE  TransferObserves' /\ (w \notin pods' => TransferHears(w)')
      BY <2>1, <2>6, <3>2 DEF RemovalsInv, Waiting, Removal
    <3> QED
      BY <2>1, <2>6, <3>1, <3>2 DEF RemovalsInv
  <2>7. CASE IgnoreStarted
    <3>1. /\ Told /\ ToldTo("transfer", handling.event) /\ UNCHANGED <<sync, lastSync>>
          /\ handling.event.kind = "started"
      BY <2>7 DEF IgnoreStarted, Telling, ToldTo, transferVars
    <3>2. \A w : handling.event # Removal(w)
      BY <3>1 DEF Removal
    <3> QED
      BY <2>6, <3>1, <3>2
  <2>8. CASE Forget
    <3>1. ToldTo("transfer", Removal(sync["events"].name))
      BY <2>8, <1>0 DEF Forget, At, SyncTold
    <3>2. handling.event.name = sync["events"].name
            /\ handling.event = Removal(handling.event.name)
      BY <3>1 DEF ToldTo, Removal
    <3>3. \A w \in Workloads : handling.event = Removal(w) => w = handling.event.name
      BY DEF Removal
    <3>4. \A w \in Workloads : lastSync'[w] = "kept" =>
             lastSync[w] = "kept" /\ handling.event # Removal(w)
      BY <2>8, <3>3, <1>0 DEF Forget, DeleteTime
    <3>5. UNCHANGED sync["ticker"]
      BY <2>8, <1>0 DEF Forget, Threads
    <3>6. Told
      BY <2>8 DEF Forget
    <3> QED
      BY <2>6, <3>1, <3>2, <3>4, <3>5, <3>6
  <2>9. ASSUME NEW t \in Threads, Connect(t) \/ SyncPath(t) \/ EndPaths(t) PROVE RemovalsInv'
    <3>1. UNCHANGED handling /\ sync[t].step # "idle"
      BY <2>9 DEF Connect, SyncPath, EndPaths, eventVars, At
    <3>2. t = "events" => ToldTo("transfer", Removal(sync[t].name))
      BY <3>1, <1>0 DEF SyncTold
    <3>3. t = "events" => handling.observers # <<"logs">>
      BY <3>2 DEF ToldTo
    <3>4. t = "ticker" => proc # "starting"
      BY <3>1 DEF RemovalsInv
    <3>5. UNCHANGED lastSync \/ EndDirection(t, TRUE) \/ EndDirection(t, sync[t].failed)
      BY <2>9 DEF Connect, SyncPath, EndPaths
    <3>6. \A w \in Workloads : lastSync'[w] = "kept" =>
                  \/ lastSync[w] = "kept"
                  \/ w = sync[t].name /\ (t = "ticker" => w \in pods)
      BY <3>5, <1>0 DEF EndDirection
    <3>7. \A u \in Threads \ {t} : sync'[u] = sync[u]
      BY <2>9, <1>0, EndDirectionLeaves DEF Connect, SyncPath, EndPaths, Moves
    <3>8. sync'["ticker"].step # "idle" => proc # "starting"
      BY <3>4, <3>7 DEF RemovalsInv, Threads
    <3> QED
      BY <2>2, <3>1, <3>2, <3>3, <3>4, <3>6, <3>8 DEF Threads
  <2> QED
    BY <1>6, <2>3, <2>4, <2>5, <2>7, <2>8, <2>9 DEF TransferNext
<1> QED
  BY <1>2, <1>3, <1>4, <1>5, <1>6 DEF Next, vars

-----------------------------------------------------------------------------
(* The mounts *)

\* What is put on a stack, and what is taken from it.
LEMMA StackSteps ==
  ASSUME NEW S, NEW e \in S, NEW s \in Seq(S)
  PROVE  /\ <<e>> \o s \in Seq(S) /\ <<e>> \o s # <<>>
         /\ Head(<<e>> \o s) = e /\ Len(<<e>> \o s) = Len(s) + 1
         /\ s # <<>> => Tail(s) \in Seq(S) /\ Len(Tail(s)) = Len(s) - 1
<1>1. <<e>> \in Seq(S) /\ Len(<<e>>) = 1 /\ <<e>>[1] = e
  OBVIOUS
<1>2. <<e>> \o s \in Seq(S) /\ Len(<<e>> \o s) = Len(s) + 1 /\ (<<e>> \o s)[1] = e
  BY <1>1, ConcatProperties, LenProperties
<1>3. <<e>> \o s # <<>>
  BY <1>2, EmptySeq, LenProperties
<1>4. Head(<<e>> \o s) = e
  BY <1>2, <1>3, HeadTailProperties
<1>5. s # <<>> => Tail(s) \in Seq(S) /\ Len(Tail(s)) = Len(s) - 1
  BY HeadTailProperties
<1> QED
  BY <1>2, <1>3, <1>4, <1>5

\* No mount is made before the first configuration.
LEMMA MountsInitial == Init => MountsInv
<1> SUFFICES ASSUME Init PROVE MountsInv
  OBVIOUS
<1>1. \A d, e \in Devices : <<d>> \in Seq(Devices) /\ <<d, e>> \in Seq(Devices)
  OBVIOUS
<1>2. \A s \in Stacks : s \in Seq(Devices)
  <2>1. <<>> \in Seq(Devices)
    OBVIOUS
  <2> SUFFICES ASSUME NEW s \in Stacks PROVE s \in Seq(Devices)
    OBVIOUS
  <2>2. CASE s = <<>>
    BY <2>1, <2>2
  <2>3. CASE s \in {<<d>> : d \in Devices}
    <3>1. PICK d \in Devices : s = <<d>>
      BY <2>3
    <3> QED
      BY <1>1, <3>1
  <2>4. CASE s \in {<<d, e>> : d, e \in Devices}
    <3>1. PICK d \in Devices, e \in Devices : s = <<d, e>>
      BY <2>4
    <3> QED
      BY <1>1, <3>1
  <2> QED
    BY <2>2, <2>3, <2>4 DEF Stacks
<1>3. mounts \in [Places -> Seq(Devices)]
  BY <1>2 DEF Init, MountInit
<1> QED
  BY <1>3 DEF Init, BusInit, MountInit, MountsInv, MountTypeOK

\* The next of the mounts is a device on a directory.
LEMMA ConfiguredMounts ==
  ASSUME Core
  PROVE  /\ DOMAIN Conf.mounts = 1..Len(Conf.mounts) /\ Len(Conf.mounts) \in Nat
         /\ \A k \in DOMAIN Conf.mounts : /\ Conf.mounts[k].directory \in Directories
                                         /\ Conf.mounts[k].device \in Devices
<1>1. /\ Conf.mounts \in Seq([device : Devices, directory : Directories])
      /\ DOMAIN Conf.mounts = 1..Len(Conf.mounts) /\ Len(Conf.mounts) \in Nat
  <2>1. Conf.mounts \in Seq([device : Devices, directory : Directories])
    BY LastConfiguration, MountsAssumption DEF MountsAssumption, Core
  <2> QED
    BY <2>1, LenProperties
<1>2. \A k \in 1..Len(Conf.mounts) :
        Conf.mounts[k] \in [device : Devices, directory : Directories]
  BY <1>1, ElementOfSeq
<1> QED
  BY <1>1, <1>2

\* A mount is unmounted before another is made where it was listed.
LEMMA MountGrows ==
  ASSUME Core, MountsInv, Mount, NEW p \in Places
  PROVE  Len(mounts'[p]) <= Len(mounts[p]) \/ (p \in Clear => mounts[p] = <<>>)
<1> DEFINE m == Conf.mounts[nextMount]
           d == m.directory
           below == IF mounts[Place[d]] = <<>> THEN <<>> ELSE Tail(mounts[Place[d]])
           base == IF Found(d) THEN below ELSE mounts[Place[d]]
<1>1. d \in Directories /\ m.device \in Devices /\ nextMount # 0
  <2>1. nextMount \in DOMAIN Conf.mounts
    BY DEF Mount, MountsLeft
  <2> QED
    BY <2>1, ConfiguredMounts
<1>2. mounts \in [Places -> Seq(Devices)] /\ Place[d] \in Places /\ d \notin mounted
  BY <1>1, MountsAssumption DEF MountsInv, MountTypeOK, Mount, AlreadyMounted, MountsAssumption
<1>3. Len(mounts[p]) \in Nat /\ mounts[p] \in Seq(Devices)
  BY <1>2, LenProperties
<1>0. \/ mounts'[p] = mounts[p]
      \/ Place[d] = p /\ mounts'[p] \in {<<m.device>> \o base, base}
  <2> HIDE DEF base
  <2>1. \/ mounts' = mounts
        \/ mounts' = [mounts EXCEPT ![Place[d]] = <<m.device>> \o base]
        \/ mounts' = [mounts EXCEPT ![Place[d]] = base]
    BY DEF Mount, base, below
  <2> HIDE DEF m, d
  <2>2. CASE mounts' = mounts
    BY <2>2
  <2>3. CASE mounts' = [mounts EXCEPT ![Place[d]] = <<m.device>> \o base]
    BY <1>2, <2>3
  <2>4. CASE mounts' = [mounts EXCEPT ![Place[d]] = base]
    BY <1>2, <2>4
  <2> QED
    BY <2>1, <2>2, <2>3, <2>4
<1>4. CASE Place[d] # p
  <2>1. mounts'[p] = mounts[p]
    BY <1>0, <1>4, Zenon
  <2> QED
    BY <1>3, <2>1
<1>5. CASE Place[d] = p /\ ~Found(d)
  BY <1>1, <1>2, <1>5 DEF MountsInv, Found
<1>6. CASE Place[d] = p /\ Found(d) /\ mounts[p] # <<>>
  <2>1. base = Tail(mounts[p])
    BY <1>6
  <2>2. /\ Tail(mounts[p]) \in Seq(Devices) /\ Len(Tail(mounts[p])) = Len(mounts[p]) - 1
    BY <1>1, <1>3, <1>6, StackSteps
  <2>3. Len(<<m.device>> \o Tail(mounts[p])) = Len(mounts[p])
    BY <1>1, <1>3, <2>2, StackSteps
  <2>4. /\ mounts'[p] \in {<<m.device>> \o Tail(mounts[p]), Tail(mounts[p]), mounts[p]}
    BY <1>0, <2>1
  <2> HIDE DEF m
  <2> QED
    BY <1>3, <2>2, <2>3, <2>4
<1> QED
  BY <1>4, <1>5, <1>6

\* A step of somebody else, who neither begins nor ends the turn of the mounts.
LEMMA MountsKept ==
  ASSUME BusOK, SyncTold, MountsInv, [Next]_vars, UNCHANGED mountVars,
         turn = "mounts" => turn' = "mounts", turn' = "transfer" => turn = "transfer"
  PROVE  MountsInv'
<1>1. CASE UNCHANGED handed
  BY <1>1 DEF MountsInv, MountTypeOK, mountVars, Conf, AsConfigured, OnlyName, Shows
<1>2. CASE turn = "idle" /\ turn' = "dial"
  BY <1>2 DEF MountsInv, MountTypeOK, mountVars
<1> QED
  BY <1>1, <1>2, HandedGrows

\* Every step keeps what is known of the mounts.
LEMMA MountsInductive == Core /\ MountsInv /\ [Next]_vars => MountsInv'
<1> SUFFICES ASSUME Core, MountsInv, [Next]_vars PROVE MountsInv'
  OBVIOUS
<1>0. BusOK /\ SyncTold
  BY DEF Core
<1>1. CASE /\ UNCHANGED mountVars
           /\ (Bus \/ UpdateWorkloads \/ LogsNext \/ TransferNext \/ UNCHANGED vars)
  <2>1. (turn = "mounts" => turn' = "mounts") /\ (turn' = "transfer" => turn = "transfer")
    BY <1>0, <1>1, BusSteps, PodsSteps, LogsSteps, TransferSteps
       DEF BusFoot, PodsFoot, LogsFoot, TransferFoot, vars, busVars
  <2> QED
    BY <1>0, <1>1, <2>1, MountsKept
<1>2. ASSUME UpdateMounts PROVE MountsInv'
  <2>0. MountsFoot /\ UNCHANGED handed /\ Conf' = Conf
    BY <1>2, MountsSteps DEF MountsFoot, configVars, Conf
  <2>1. DOMAIN Conf.mounts = 1..Len(Conf.mounts) /\ Len(Conf.mounts) \in Nat
    BY ConfiguredMounts
  <2>2. \A k \in DOMAIN Conf.mounts : /\ Conf.mounts[k].directory \in Directories
                                      /\ Conf.mounts[k].device \in Devices
    BY ConfiguredMounts
  <2>3. /\ mounts \in [Places -> Seq(Devices)] /\ currentMounts \subseteq Directories
        /\ mounted \subseteq Directories /\ nextMount \in Nat /\ mountFailed \in BOOLEAN
        /\ turn = "mounts"
    BY <2>0 DEF MountsInv, MountTypeOK, MountsFoot
  <2>4. CASE GetMounts
    <3>2. CASE nextMount' = 1 /\ currentMounts' = Listing /\ UNCHANGED <<mounts, turn>>
      <4>1. \A k \in DOMAIN Conf.mounts : ~(k < nextMount')
        BY <2>1, <3>2
      <4>2. MountTypeOK'
        BY <2>3, <2>4, <3>2 DEF GetMounts, MountTypeOK, Listing
      <4>3. turn' = "mounts"
        BY <2>3, <3>2
\* A mount on a place that is listed by its only name was listed.
      <4>4. ASSUME NEW d \in Directories, Place[d] \in Clear, mounts[Place[d]] # <<>>
            PROVE  d \in Listing
        <5>1. PICK e \in Directories : /\ \A x \in Directories : Place[x] = Place[d] => x = e
                                       /\ \A v \in Devices : Parsed[<<v, Place[d]>>] = e
          BY <4>4 DEF Clear
        <5>2. 1 \in DOMAIN mounts[Place[d]] /\ mounts[Place[d]][1] \in Devices /\ Place[d] \in Places
          BY <2>3, <4>4, EmptySeq, LenProperties, ElementOfSeq DEF Clear
        <5> QED
          BY <5>1, <5>2 DEF Listing
      <4> QED
        BY <2>0, <2>3, <3>2, <4>1, <4>2, <4>3, <4>4 DEF MountsInv
    <3>3. CASE nextMount' = 0 /\ mountFailed' /\ UNCHANGED <<mounts, currentMounts>>
      BY <2>0, <2>3, <2>4, <3>3 DEF GetMounts, MountsInv, MountTypeOK
    <3> QED
      BY <2>4, <3>2, <3>3 DEF GetMounts
  <2>5. CASE SkipMount
    <3>1. /\ UNCHANGED <<mounts, mounted, currentMounts, turn>>
          /\ nextMount' = nextMount + 1 /\ mountFailed' = TRUE
          /\ nextMount \in DOMAIN Conf.mounts
      BY <2>3, <2>5 DEF SkipMount, Continue, Collect, MountsLeft
    <3> QED
      BY <2>0, <2>1, <2>3, <3>1 DEF MountsInv, MountTypeOK
  <2>6. CASE Mount
    <3> DEFINE m == Conf.mounts[nextMount]
               d == m.directory
               p == Place[d]
               below == IF mounts[p] = <<>> THEN <<>> ELSE Tail(mounts[p])
               base == IF Found(d) THEN below ELSE mounts[p]
               stuck == Found(d) /\ mounts[p] = <<>>
    <3>1. /\ nextMount \in 1..Len(Conf.mounts) /\ d \in Directories /\ m.device \in Devices
          /\ d \notin mounted
          /\ UNCHANGED <<currentMounts, turn>> /\ nextMount' = nextMount + 1
      BY <2>1, <2>2, <2>6 DEF Mount, MountsLeft, AlreadyMounted, Continue
    <3>2. p \in Places /\ mounts[p] \in Seq(Devices) /\ base \in Seq(Devices)
      <4>1. p \in Places /\ mounts[p] \in Seq(Devices)
        BY <2>3, <3>1, MountsAssumption DEF MountsAssumption
      <4>2. mounts[p] # <<>> => Tail(mounts[p]) \in Seq(Devices)
        BY <3>1, <4>1, StackSteps
      <4> QED
        BY <4>1, <4>2
    <3>3. CASE /\ mounts' = [mounts EXCEPT ![p] = <<m.device>> \o base]
               /\ mounted' = mounted \cup {d}
               /\ mountFailed' = mountFailed
      <4> HIDE DEF base
      <4>1. /\ <<m.device>> \o base \in Seq(Devices)
            /\ mounts'[p] # <<>> /\ Head(mounts'[p]) = m.device
        <5>1. /\ <<m.device>> \o base \in Seq(Devices) /\ <<m.device>> \o base # <<>>
              /\ Head(<<m.device>> \o base) = m.device
          BY <3>1, <3>2, StackSteps
        <5>2. mounts'[p] = <<m.device>> \o base
          BY <2>3, <3>2, <3>3
        <5> QED
          BY <5>1, <5>2
      <4>2. /\ mounts' \in [Places -> Seq(Devices)]
            /\ \A q \in Places \ {p} : mounts'[q] = mounts[q]
        BY <2>3, <3>2, <3>3, <4>1
      <4>3. turn' = "mounts" /\ mountFailed' = mountFailed /\ Conf' = Conf
        BY <2>0, <2>3, <3>1, <3>3
      <4>4. \A e \in Directories : Place[e] \in Clear /\ e \notin mounted' \cup currentMounts' =>
              mounts'[Place[e]] = <<>>
        <5> SUFFICES ASSUME NEW e \in Directories, Place[e] \in Clear,
                            e \notin mounted' \cup currentMounts'
                     PROVE  mounts'[Place[e]] = <<>>
          OBVIOUS
        <5>1. Place[e] # p
          BY <3>1, <3>3 DEF Clear
        <5> QED
          BY <3>1, <3>3, <4>2, <5>1 DEF MountsInv, Clear
      <4>5. ASSUME ~mountFailed, NEW k \in DOMAIN Conf.mounts, k < nextMount'
            PROVE  AsConfigured(k)'
        <5>1. CASE k = nextMount
          BY <4>3, <5>1, <3>3, <4>1 DEF AsConfigured, Shows
        <5>2. CASE k < nextMount
          <6>1. AsConfigured(k) /\ Conf.mounts[k].directory \in mounted
            BY <2>3, <3>1, <4>5, <5>2 DEF MountsInv, AsConfigured
          <6>2. OnlyName(Conf.mounts[k].directory) => Place[Conf.mounts[k].directory] # p
            BY <2>1, <3>1, <6>1 DEF OnlyName
          <6>3. Place[Conf.mounts[k].directory] \in Places
            BY <2>2, MountsAssumption DEF MountsAssumption
          <6> QED
            BY <3>3, <4>2, <4>3, <6>1, <6>2, <6>3 DEF AsConfigured, Shows, OnlyName
        <5> QED
          BY <2>1, <3>1, <4>5, <5>1, <5>2
      <4>6. MountTypeOK'
        BY <2>3, <3>1, <3>3, <4>2 DEF MountTypeOK
      <4> QED
        BY <4>3, <4>4, <4>5, <4>6 DEF MountsInv
    <3>4. CASE mounts' \in {mounts, [mounts EXCEPT ![p] = base]} /\ mountFailed' = TRUE
                 /\ UNCHANGED mounted
      <4> HIDE DEF base
      <4>1. mounts' \in [Places -> Seq(Devices)] /\ \A q \in Places \ {p} : mounts'[q] = mounts[q]
        BY <2>3, <3>2, <3>4
      <4>2. ASSUME NEW e \in Directories, Place[e] \in Clear, e \notin mounted \cup currentMounts
            PROVE  mounts'[Place[e]] = <<>>
        <5>1. mounts[Place[e]] = <<>>
          BY <3>1, <4>2 DEF MountsInv
        <5>2. CASE Place[e] = p
          <6>1. e = d
            BY <3>1, <4>2, <5>2 DEF Clear
          <6>2. base = <<>>
            BY <4>2, <5>1, <5>2, <6>1 DEF base, Found
          <6> QED
            BY <2>3, <3>2, <3>4, <5>1, <5>2, <6>2
        <5> QED
          BY <4>1, <4>2, <5>1, <5>2 DEF Clear
      <4>3. MountTypeOK'
        BY <2>3, <3>1, <3>4, <4>1 DEF MountTypeOK
      <4>4. turn' = "mounts" /\ mountFailed'
        BY <2>3, <3>1, <3>4
      <4> QED
        BY <3>1, <3>4, <4>2, <4>3, <4>4 DEF MountsInv
    <3> HIDE DEF base, stuck
    <3> QED
      BY <2>3, <2>6, <3>3, <3>4 DEF Mount, Continue, Collect, base, stuck, below
  <2>7. CASE EndMounts
    <3>1. /\ UNCHANGED <<mounts, mounted, currentMounts, mountFailed>>
          /\ nextMount' = 0 /\ turn' = "transfer" /\ nextMount > 0
          /\ nextMount \notin DOMAIN Conf.mounts
      BY <2>7 DEF EndMounts, Pass, MountsLeft
    <3>2. \A k \in DOMAIN Conf.mounts : k < nextMount
      BY <2>1, <2>3, <3>1
    <3> QED
      BY <2>0, <2>3, <3>1, <3>2 DEF MountsInv, MountTypeOK, AsConfigured, OnlyName, Shows
  <2> QED
    BY <1>2, <2>4, <2>5, <2>6, <2>7 DEF UpdateMounts
<1> QED
  BY <1>1, <1>2 DEF Next, vars

-----------------------------------------------------------------------------
(* The types of the logs *)

LogsTypes == BuffersInv /\ TransportsOK /\ WritersOK

\* The logs begin without buffers and writers.
LEMMA LogsTypesInitial == Init => LogsTypes /\ LinesInv
<1> SUFFICES ASSUME Init PROVE LogsTypes /\ LinesInv
  OBVIOUS
<1>1. DOMAIN buffers = {} /\ buffers = <<>> /\ writers = <<>>
  BY DEF Init, LogsInit
<1>2. BuffersInv
  BY <1>1 DEF BuffersInv, Init, LogsInit
<1>3. TransportsOK
  BY DEF TransportsOK, Init, LogsInit
<1>4. WritersOK
  <2>1. writers \in Seq([workload : Workloads, transport : DOMAIN buffers, state : States])
    BY <1>1
  <2> QED
    BY <2>1 DEF WritersOK, Init, LogsInit, Nowhere
<1>5. LinesInv
  BY <1>1 DEF LinesInv, Init, LogsInit
<1> QED
  BY <1>2, <1>3, <1>4, <1>5 DEF LogsTypes

\* Buffers keep their type when a line is added.
LEMMA BufferGrows ==
  ASSUME lines \in Nat, lines' \in {lines, lines + 1}
  PROVE  BufferType \subseteq BufferType'
<1>1. 1..lines \subseteq 1..lines' /\ 0..lines \subseteq 0..lines'
  OBVIOUS
<1>2. \A d \in Seq(1..lines) : d \in Seq(1..lines')
  BY <1>1, SeqMonotonic
<1> QED
  BY <1>1, <1>2 DEF BufferType

\* What the four steps of a buffer make of it.
Becomes(b, d, s, x) ==
  buffers' = [buffers EXCEPT ![b] = [data |-> d, sending |-> s, broken |-> x]]

\* What reading and writing a line make of a buffer.
LEMMA BufferSteps ==
  ASSUME BuffersInv, NEW b \in DOMAIN buffers
  PROVE  /\ ReadLine(b) =>
              Becomes(b, Tail(buffers[b].data), Head(buffers[b].data), buffers[b].broken)
         /\ \A n : buffers' = [buffers EXCEPT ![b].data = Append(@, n)] =>
              Becomes(b, Append(buffers[b].data, n), buffers[b].sending, buffers[b].broken)
         /\ buffers' = [buffers EXCEPT ![b].sending = 0] =>
              Becomes(b, buffers[b].data, 0, buffers[b].broken)
         /\ buffers' = [buffers EXCEPT ![b].data = Append(@, buffers[b].sending),
                                       ![b].sending = 0] =>
              Becomes(b, Append(buffers[b].data, buffers[b].sending), 0, buffers[b].broken)
         /\ BreakConnection(b) => Becomes(b, buffers[b].data, buffers[b].sending, TRUE)
<1>1. buffers[b] \in BufferType
  BY DEF BuffersInv
<1>2. buffers[b] = [data |-> buffers[b].data, sending |-> buffers[b].sending,
                    broken |-> buffers[b].broken]
  BY <1>1 DEF BufferType
<1>3. ReadLine(b) => Becomes(b, Tail(buffers[b].data), Head(buffers[b].data), buffers[b].broken)
  BY <1>2 DEF ReadLine, Becomes
<1>4. ASSUME NEW n, buffers' = [buffers EXCEPT ![b].data = Append(@, n)]
      PROVE  Becomes(b, Append(buffers[b].data, n), buffers[b].sending, buffers[b].broken)
  <2> DEFINE d == Append(buffers[b].data, n)
  <2>1. buffers' = [buffers EXCEPT ![b] = [@ EXCEPT !.data = d]]
    BY <1>4
  <2>2. [buffers[b] EXCEPT !.data = d]
          = [data |-> d, sending |-> buffers[b].sending, broken |-> buffers[b].broken]
    BY <1>1, <1>2 DEF BufferType
  <2> QED
    BY <2>1, <2>2 DEF Becomes
<1>5. buffers' = [buffers EXCEPT ![b].sending = 0] =>
        Becomes(b, buffers[b].data, 0, buffers[b].broken)
  BY <1>2 DEF Becomes
<1>6. buffers' = [buffers EXCEPT ![b].data = Append(@, buffers[b].sending), ![b].sending = 0] =>
        Becomes(b, Append(buffers[b].data, buffers[b].sending), 0, buffers[b].broken)
  BY <1>2 DEF Becomes
<1>7. BreakConnection(b) => Becomes(b, buffers[b].data, buffers[b].sending, TRUE)
  BY <1>2 DEF BreakConnection, Becomes
<1> QED
  BY <1>3, <1>4, <1>5, <1>6, <1>7

\* A line put into a buffer is held by it besides those it had,
LEMMA AppendHeld ==
  ASSUME NEW S, NEW d \in Seq(S), NEW n \in S
  PROVE  /\ Held(Append(d, n)) = Held(d) \cup {n}
         /\ Distinct(d) /\ n \notin Held(d) => Distinct(Append(d, n))
         /\ Append(d, n) \in Seq(S) /\ Len(Append(d, n)) = Len(d) + 1
<1>1. /\ DOMAIN Append(d, n) = 1..(Len(d) + 1) /\ DOMAIN d = 1..Len(d) /\ Len(d) \in Nat
      /\ \A k \in 1..Len(d) : Append(d, n)[k] = d[k]
      /\ Append(d, n)[Len(d) + 1] = n
      /\ Append(d, n) \in Seq(S) /\ Len(Append(d, n)) = Len(d) + 1
  OBVIOUS
<1>2. \A k \in 1..(Len(d) + 1) : k \in 1..Len(d) \/ k = Len(d) + 1
  BY <1>1
<1>3. \A k \in 1..Len(d) : k \in 1..(Len(d) + 1) /\ k # Len(d) + 1
  BY <1>1
<1>4. Len(d) + 1 \in 1..(Len(d) + 1)
  BY <1>1
<1>5. Held(Append(d, n)) = Held(d) \cup {n}
  BY <1>1, <1>2, <1>3, <1>4 DEF Held
<1>6. Distinct(d) /\ n \notin Held(d) => Distinct(Append(d, n))
  BY <1>1, <1>2, <1>3, <1>4 DEF Held, Distinct
<1> QED
  BY <1>1, <1>5, <1>6

\* and one taken out of it no more.
LEMMA TailHeld ==
  ASSUME NEW S, NEW d \in Seq(S), d # <<>>
  PROVE  /\ Held(d) = Held(Tail(d)) \cup {Head(d)}
         /\ Distinct(d) => Distinct(Tail(d)) /\ Head(d) \notin Held(Tail(d))
         /\ Tail(d) \in Seq(S) /\ Head(d) \in S /\ Len(Tail(d)) = Len(d) - 1
<1>1. /\ DOMAIN Tail(d) = 1..(Len(d) - 1) /\ DOMAIN d = 1..Len(d) /\ Len(d) \in Nat \ {0}
      /\ \A k \in 1..(Len(d) - 1) : Tail(d)[k] = d[k + 1]
      /\ Head(d) = d[1]
      /\ Tail(d) \in Seq(S) /\ Head(d) \in S /\ Len(Tail(d)) = Len(d) - 1
  OBVIOUS
<1>2. \A k \in 1..Len(d) : k = 1 \/ (k - 1 \in 1..(Len(d) - 1) /\ d[k] = Tail(d)[k - 1])
  BY <1>1
<1>3. \A k \in 1..(Len(d) - 1) : k + 1 \in 1..Len(d) /\ k + 1 # 1
  BY <1>1
<1>4. 1 \in 1..Len(d)
  BY <1>1
<1>5. Held(d) = Held(Tail(d)) \cup {Head(d)}
  <2>1. ASSUME NEW k \in 1..Len(d) PROVE d[k] \in Held(Tail(d)) \cup {Head(d)}
    BY <1>1, <1>2 DEF Held
  <2>2. ASSUME NEW k \in 1..(Len(d) - 1) PROVE Tail(d)[k] \in Held(d)
    BY <1>1, <1>3 DEF Held
  <2>3. Head(d) \in Held(d)
    BY <1>1, <1>4 DEF Held
  <2> QED
    BY <1>1, <2>1, <2>2, <2>3 DEF Held
<1>6. ASSUME Distinct(d) PROVE Distinct(Tail(d)) /\ Head(d) \notin Held(Tail(d))
  <2>1. ASSUME NEW j \in 1..(Len(d) - 1), NEW k \in 1..(Len(d) - 1), d[j + 1] = d[k + 1]
        PROVE  j = k
    <3>1. j + 1 = k + 1
      BY <1>1, <1>3, <1>6, <2>1 DEF Distinct
    <3> QED
      BY <3>1
  <2>2. \A k \in 1..(Len(d) - 1) : d[k + 1] # d[1]
    BY <1>1, <1>3, <1>4, <1>6 DEF Distinct
  <2> QED
    BY <1>1, <2>1, <2>2 DEF Held, Distinct
<1> QED
  BY <1>1, <1>5, <1>6

\* Update dials transports nobody had before.
LEMMA Dialled ==
  ASSUME BusOK, BuffersInv, Dial
  PROVE  \E reached \in SUBSET Wanted :
           /\ missed' = missed \cup (Wanted \ reached)
           /\ dialled' = [n \in Names |-> IF n \in reached THEN <<Len(handed), n>> ELSE None]
           /\ DOMAIN buffers' = DOMAIN buffers \cup {<<Len(handed), n>> : n \in reached}
           /\ \A b \in DOMAIN buffers : buffers'[b] = buffers[b] /\ b[1] # Len(handed)
           /\ \A n \in reached :
                buffers'[<<Len(handed), n>>] = [data |-> <<>>, sending |-> 0, broken |-> FALSE]
<1>1. PICK reached \in SUBSET Wanted :
        /\ missed' = missed \cup (Wanted \ reached)
        /\ dialled' = [n \in Names |-> IF n \in reached THEN <<Len(handed), n>> ELSE None]
        /\ buffers' = [b \in DOMAIN buffers \cup {<<Len(handed), n>> : n \in reached} |->
                         IF b \in {<<Len(handed), n>> : n \in reached}
                           THEN [data |-> <<>>, sending |-> 0, broken |-> FALSE]
                           ELSE buffers[b]]
  BY DEF Dial
<1>2. \A b \in DOMAIN buffers : b[1] # Len(handed)
  BY DEF BuffersInv, Dial
<1>3. \A b \in DOMAIN buffers : b \notin {<<Len(handed), n>> : n \in reached}
  BY <1>2
<1> HIDE DEF Dial
<1> QED
  BY <1>1, <1>2, <1>3

\* A buffer that changes to another one of its type keeps the types of all.
LEMMA BuffersBecome ==
  ASSUME BuffersInv, UNCHANGED <<handed, turn>>, lines' \in {lines, lines + 1},
         NEW b \in DOMAIN buffers, NEW d \in Seq(1..lines'), NEW s \in 0..lines',
         NEW x \in BOOLEAN,
         Becomes(b, d, s, x), Len(d) <= BufferSize + 1
  PROVE  BuffersInv'
<1>1. BufferType \subseteq BufferType' /\ lines' \in Nat
  BY BufferGrows DEF BuffersInv
<1>2. [data |-> d, sending |-> s, broken |-> x] \in BufferType'
  BY DEF BufferType
<1>3. DOMAIN buffers' = DOMAIN buffers /\ buffers' \in [DOMAIN buffers -> BufferType']
  BY <1>1, <1>2 DEF Becomes, BuffersInv
<1>4. /\ buffers'[b].data = d
      /\ \A c \in DOMAIN buffers \ {b} : buffers'[c] = buffers[c]
  BY DEF Becomes
<1> QED
  BY <1>1, <1>3, <1>4 DEF BuffersInv

\* What a writer in the list is.
LEMMA WritersTyped ==
  ASSUME WritersOK
  PROVE  /\ DOMAIN writers = 1..Len(writers) /\ Len(writers) \in Nat
         /\ \A i \in DOMAIN writers :
              /\ writers[i] \in
                   [workload : Workloads, transport : DOMAIN buffers, state : States]
              /\ writers[i].workload \in Workloads /\ writers[i].transport \in DOMAIN buffers
              /\ writers[i].state \in States
<1>1. writers \in Seq([workload : Workloads, transport : DOMAIN buffers, state : States])
  BY DEF WritersOK
<1>2. DOMAIN writers = 1..Len(writers) /\ Len(writers) \in Nat
  BY <1>1, LenProperties
<1>3. \A i \in 1..Len(writers) :
        writers[i] \in [workload : Workloads, transport : DOMAIN buffers, state : States]
  BY <1>1, ElementOfSeq
<1> QED
  BY <1>2, <1>3

\* What a step makes of the buffers, and of the sets of lines that left them.
Unmoved == UNCHANGED <<delivered, refused>>
LineStep ==
  \E b \in DOMAIN buffers :
    LET B == buffers[b] IN
      \/ /\ lines' = lines + 1 /\ UNCHANGED <<delivered, buffers>>
         /\ refused' = refused \cup {lines + 1}
      \/ /\ lines' = lines + 1 /\ Unmoved /\ Len(B.data) <= BufferSize
         /\ Becomes(b, Append(B.data, lines + 1), B.sending, B.broken)
      \/ /\ UNCHANGED lines /\ Unmoved /\ B.data # <<>> /\ B.sending = 0
         /\ Becomes(b, Tail(B.data), Head(B.data), B.broken)
      \/ /\ UNCHANGED <<lines, refused>> /\ B.sending # 0
         /\ delivered' = delivered \cup {B.sending} /\ Becomes(b, B.data, 0, B.broken)
      \/ /\ UNCHANGED <<lines, delivered>> /\ B.sending # 0
         /\ refused' = refused \cup {B.sending} /\ Becomes(b, B.data, 0, B.broken)
      \/ /\ UNCHANGED lines /\ Unmoved /\ B.sending # 0 /\ Len(B.data) <= BufferSize
         /\ Becomes(b, Append(B.data, B.sending), 0, B.broken)
      \/ /\ UNCHANGED lines /\ Unmoved /\ Becomes(b, B.data, B.sending, TRUE)

Line == \/ \E i \in DOMAIN writers : WriteLine(i)
        \/ \E b \in DOMAIN buffers : SendLine(b) \/ BreakConnection(b)

\* What the goroutines that read and write lines may change.
LEMMA LineSteps ==
  ASSUME LogsTypes, Line
  PROVE  LineStep /\ UNCHANGED <<handed, turn, transportVars, found, wwriter, handling>>
<1>0. BuffersInv /\ WritersOK
  BY DEF LogsTypes
<1>1. \A b \in DOMAIN buffers : Len(buffers[b].data) \in Nat /\ BufferSize \in Nat
  <2>1. \A b \in DOMAIN buffers : buffers[b].data \in Seq(1..lines)
    BY <1>0 DEF BuffersInv, BufferType
  <2> QED
    BY <2>1, LogsAssumption DEF LogsAssumption
<1>2. ASSUME NEW i \in DOMAIN writers, WriteLine(i) PROVE LineStep
  <2> DEFINE b == writers[i].transport
  <2>1. b \in DOMAIN buffers
    BY <1>0, WritersTyped
  <2>2. CASE Full(buffers[b].data)
    BY <1>2, <2>1, <2>2 DEF WriteLine, LineStep
  <2>3. CASE ~Full(buffers[b].data)
    <3>1. /\ lines' = lines + 1 /\ UNCHANGED <<delivered, refused>>
          /\ buffers' = [buffers EXCEPT ![b].data = Append(@, lines + 1)]
      BY <1>2, <2>3 DEF WriteLine
    <3>2. Len(buffers[b].data) <= BufferSize
      BY <1>1, <2>1, <2>3 DEF Full
    <3>3. Becomes(b, Append(buffers[b].data, lines + 1), buffers[b].sending, buffers[b].broken)
      BY <1>0, <2>1, <3>1, BufferSteps
    <3> QED
      BY <2>1, <3>1, <3>2, <3>3 DEF LineStep, Unmoved
  <2> QED
    BY <2>2, <2>3
<1>3. ASSUME NEW b \in DOMAIN buffers, ReadLine(b) PROVE LineStep
  <2>1. Becomes(b, Tail(buffers[b].data), Head(buffers[b].data), buffers[b].broken)
    BY <1>0, <1>3, BufferSteps
  <2> QED
    BY <1>3, <2>1 DEF ReadLine, NotEmpty, LineStep, Unmoved
<1>4. ASSUME NEW b \in DOMAIN buffers, WriteLog(b) PROVE LineStep
  <2>1. UNCHANGED lines /\ buffers[b].sending # 0
    BY <1>4 DEF WriteLog
  <2>2. CASE delivered' = delivered \cup {buffers[b].sending} /\ UNCHANGED refused
             /\ buffers' = [buffers EXCEPT ![b].sending = 0]
    <3>1. Becomes(b, buffers[b].data, 0, buffers[b].broken)
      BY <1>0, <2>2, BufferSteps
    <3> QED
      BY <2>1, <2>2, <3>1 DEF LineStep
  <2>3. CASE PutBack(b) /\ UNCHANGED delivered /\ Full(buffers[b].data)
    <3>1. Becomes(b, buffers[b].data, 0, buffers[b].broken)
      BY <1>0, <2>3, BufferSteps DEF PutBack
    <3> QED
      BY <2>1, <2>3, <3>1 DEF LineStep, PutBack
  <2>4. CASE PutBack(b) /\ UNCHANGED delivered /\ ~Full(buffers[b].data)
    <3>1. Becomes(b, Append(buffers[b].data, buffers[b].sending), 0, buffers[b].broken)
      BY <1>0, <2>4, BufferSteps DEF PutBack
    <3>2. Len(buffers[b].data) <= BufferSize
      BY <1>1, <2>4 DEF Full
    <3> QED
      BY <2>1, <2>4, <3>1, <3>2 DEF LineStep, PutBack, Unmoved
  <2> QED
    BY <1>4, <2>2, <2>3, <2>4 DEF WriteLog
<1>5. ASSUME NEW b \in DOMAIN buffers, BreakConnection(b) PROVE LineStep
  <2>1. Becomes(b, buffers[b].data, buffers[b].sending, TRUE)
    BY <1>0, <1>5, BufferSteps
  <2> QED
    BY <1>5, <2>1 DEF BreakConnection, LineStep, Unmoved
<1>6. LineStep
  BY <1>2, <1>3, <1>4, <1>5 DEF Line, SendLine
<1>7. UNCHANGED <<handed, turn, transportVars, found, wwriter, handling>>
  BY DEF Line, WriteLine, SendLine, ReadLine, WriteLog, BreakConnection, busVars, configVars,
         eventVars, writerVars, transportVars
<1> QED
  BY <1>6, <1>7

\* They keep the types of the buffers,
LEMMA BuffersAfterLine ==
  ASSUME BuffersInv, LineStep, UNCHANGED <<handed, turn>>
  PROVE  BuffersInv'
<1>1. PICK b \in DOMAIN buffers :
        LET B == buffers[b] IN
          \/ lines' = lines + 1 /\ UNCHANGED buffers
          \/ /\ lines' = lines + 1 /\ Len(B.data) <= BufferSize
             /\ Becomes(b, Append(B.data, lines + 1), B.sending, B.broken)
          \/ UNCHANGED lines /\ B.data # <<>>
               /\ Becomes(b, Tail(B.data), Head(B.data), B.broken)
          \/ UNCHANGED lines /\ Becomes(b, B.data, 0, B.broken)
          \/ /\ UNCHANGED lines /\ B.sending # 0 /\ Len(B.data) <= BufferSize
             /\ Becomes(b, Append(B.data, B.sending), 0, B.broken)
          \/ UNCHANGED lines /\ Becomes(b, B.data, B.sending, TRUE)
  BY DEF LineStep
<1> DEFINE B == buffers[b]
<1>2. /\ B.data \in Seq(1..lines) /\ B.sending \in 0..lines /\ B.broken \in BOOLEAN
      /\ Len(B.data) \in Nat /\ Len(B.data) <= BufferSize + 1
      /\ lines \in Nat /\ BufferSize \in Nat
  <2>1. /\ B.data \in Seq(1..lines) /\ B.sending \in 0..lines /\ B.broken \in BOOLEAN
        /\ Len(B.data) <= BufferSize + 1 /\ lines \in Nat
    BY DEF BuffersInv, BufferType
  <2> QED
    BY <2>1, LenProperties, LogsAssumption DEF LogsAssumption
<1>3. CASE lines' = lines + 1 /\ UNCHANGED buffers
  <2>1. buffers' \in [DOMAIN buffers -> BufferType'] /\ lines' \in Nat
    BY <1>3, BufferGrows DEF BuffersInv
  <2> QED
    BY <1>3, <2>1 DEF BuffersInv
<1>4. CASE lines' = lines + 1 /\ Len(B.data) <= BufferSize
           /\ Becomes(b, Append(B.data, lines + 1), B.sending, B.broken)
  <2>1. B.data \in Seq(1..lines') /\ B.sending \in 0..lines' /\ lines + 1 \in 1..lines'
    <3>1. 1..lines \subseteq 1..lines'
      BY <1>2, <1>4
    <3> QED
      BY <1>2, <1>4, <3>1, SeqMonotonic
  <2>2. /\ Append(B.data, lines + 1) \in Seq(1..lines')
        /\ Len(Append(B.data, lines + 1)) <= BufferSize + 1
    BY <1>2, <1>4, <2>1, AppendHeld
  <2> QED
    BY <1>2, <1>4, <2>1, <2>2, BuffersBecome
<1>5. CASE UNCHANGED lines /\ B.data # <<>> /\ Becomes(b, Tail(B.data), Head(B.data), B.broken)
  <2>1. /\ Tail(B.data) \in Seq(1..lines) /\ Head(B.data) \in 0..lines
        /\ Len(Tail(B.data)) <= BufferSize + 1
    <3>1. /\ Tail(B.data) \in Seq(1..lines) /\ Head(B.data) \in 1..lines
          /\ Len(Tail(B.data)) = Len(B.data) - 1
      BY <1>2, <1>5, TailHeld
    <3> QED
      BY <1>2, <3>1
  <2> QED
    BY <1>2, <1>5, <2>1, BuffersBecome
<1>6. CASE UNCHANGED lines /\ Becomes(b, B.data, 0, B.broken)
  BY <1>2, <1>6, BuffersBecome
<1>7. CASE UNCHANGED lines /\ B.sending # 0 /\ Len(B.data) <= BufferSize
           /\ Becomes(b, Append(B.data, B.sending), 0, B.broken)
  <2>1. B.sending \in 1..lines
    BY <1>2, <1>7
  <2>2. Append(B.data, B.sending) \in Seq(1..lines)
        /\ Len(Append(B.data, B.sending)) <= BufferSize + 1
    BY <1>2, <1>7, <2>1, AppendHeld
  <2>3. 0 \in 0..lines' /\ lines' = lines
    BY <1>2, <1>7
  <2> QED
    BY <1>2, <1>7, <2>2, <2>3, BuffersBecome
<1>8. CASE UNCHANGED lines /\ Becomes(b, B.data, B.sending, TRUE)
  BY <1>2, <1>8, BuffersBecome
<1> QED
  BY <1>1, <1>3, <1>4, <1>5, <1>6, <1>7, <1>8

-----------------------------------------------------------------------------
(* The lines *)

\* Where the lines are after one buffer changed.
LEMMA BecomesHas ==
  ASSUME NEW b \in DOMAIN buffers, NEW d, NEW s, NEW x, Becomes(b, d, s, x)
  PROVE  /\ DOMAIN buffers' = DOMAIN buffers
         /\ buffers'[b].data = d /\ buffers'[b].sending = s
         /\ \A n : Has(b, n)' <=> n \in Held(d) \/ n = s
         /\ \A c \in DOMAIN buffers \ {b} :
              buffers'[c] = buffers[c] /\ \A n : Has(c, n)' <=> Has(c, n)
<1>1. DOMAIN buffers' = DOMAIN buffers
        /\ buffers'[b] = [data |-> d, sending |-> s, broken |-> x]
      /\ \A c \in DOMAIN buffers \ {b} : buffers'[c] = buffers[c]
  BY DEF Becomes
<1> QED
  BY <1>1 DEF Has

\* A step that changes the order of the lines a transport has, and no line's place.
LEMMA LinesStay ==
  ASSUME BuffersInv, LinesInv, UNCHANGED <<lines, delivered, refused>>,
         NEW b \in DOMAIN buffers, NEW d, NEW s, NEW x, Becomes(b, d, s, x),
         Distinct(d), s \notin Held(d),
         \A n \in 1..lines : n \in Held(d) \/ n = s <=> Has(b, n)
  PROVE  LinesInv'
<1>1. /\ DOMAIN buffers' = DOMAIN buffers
      /\ \A c \in DOMAIN buffers, n \in 1..lines : Has(c, n)' <=> Has(c, n)
  BY BecomesHas
<1>2. \A c \in DOMAIN buffers' : Distinct(buffers'[c].data)
        /\ buffers'[c].sending \notin Held(buffers'[c].data)
  BY BecomesHas DEF LinesInv
<1>3. delivered \cup refused \subseteq 1..lines
  BY DEF LinesInv
<1>4. \A c \in DOMAIN buffers', n \in delivered \cup refused : ~Has(c, n)'
  BY <1>1, <1>3 DEF LinesInv
<1>5. \A c, e \in DOMAIN buffers', n \in 1..lines : Has(c, n)' /\ Has(e, n)' => c = e
  BY <1>1 DEF LinesInv
<1>6. \A n \in (1..lines) \ (delivered \cup refused) : \E c \in DOMAIN buffers' : Has(c, n)'
  BY <1>1 DEF LinesInv
<1>7. Distinct(d)' <=> Distinct(d)
  BY DEF Distinct
<1> QED
  BY <1>2, <1>3, <1>4, <1>5, <1>6 DEF LinesInv, Distinct, Held

\* A step by which the line a transport sends leaves it.
LEMMA LineLeaves ==
  ASSUME BuffersInv, LinesInv, UNCHANGED lines,
         NEW b \in DOMAIN buffers, NEW x, buffers[b].sending # 0,
         Becomes(b, buffers[b].data, 0, x),
         \/ delivered' = delivered \cup {buffers[b].sending} /\ UNCHANGED refused
         \/ refused' = refused \cup {buffers[b].sending} /\ UNCHANGED delivered
  PROVE  LinesInv'
<1> DEFINE m == buffers[b].sending
<1>1. /\ lines \in Nat /\ m \in 1..lines /\ Held(buffers[b].data) \subseteq 1..lines
  <2>1. lines \in Nat /\ m \in 0..lines /\ buffers[b].data \in Seq(1..lines)
    BY DEF BuffersInv, BufferType
  <2>2. \A k \in DOMAIN buffers[b].data : buffers[b].data[k] \in 1..lines
    BY <2>1
  <2> QED
    BY <2>1, <2>2 DEF Held
<1>2. Has(b, m)
  BY DEF Has
<1>3. m \notin delivered \cup refused
  BY <1>2 DEF LinesInv
<1>4. /\ DOMAIN buffers' = DOMAIN buffers
      /\ \A c \in DOMAIN buffers, n \in 1..lines : Has(c, n)' <=> Has(c, n) /\ n # m
  <2>1. DOMAIN buffers' = DOMAIN buffers
    BY BecomesHas
  <2>2. \A n \in 1..lines : Has(b, n)' <=> Has(b, n) /\ n # m
    BY BecomesHas DEF Has, LinesInv
  <2>3. ASSUME NEW c \in DOMAIN buffers \ {b}, NEW n \in 1..lines
        PROVE  Has(c, n)' <=> Has(c, n) /\ n # m
    <3>1. Has(c, n)' <=> Has(c, n)
      BY BecomesHas
    <3>2. ~Has(c, m)
      BY <1>1, <1>2 DEF LinesInv
    <3> QED
      BY <3>1, <3>2
  <2> QED
    BY <2>1, <2>2, <2>3
<1>5. \A c \in DOMAIN buffers' : Distinct(buffers'[c].data)
        /\ buffers'[c].sending \notin Held(buffers'[c].data)
  <2>1. 0 \notin Held(buffers[b].data)
    BY <1>1
  <2> QED
    BY <2>1, BecomesHas DEF LinesInv
<1>6. /\ delivered' \cup refused' = delivered \cup refused \cup {m}
      /\ delivered' \cup refused' \subseteq 1..lines /\ delivered' \cap refused' = {}
  BY <1>1, <1>3 DEF LinesInv
<1>7. \A c \in DOMAIN buffers', n \in delivered' \cup refused' : ~Has(c, n)'
  BY <1>4, <1>6 DEF LinesInv
<1>8. \A c, e \in DOMAIN buffers', n \in 1..lines : Has(c, n)' /\ Has(e, n)' => c = e
  BY <1>4 DEF LinesInv
<1>9. \A n \in (1..lines) \ (delivered' \cup refused') : \E c \in DOMAIN buffers' : Has(c, n)'
  BY <1>4, <1>6 DEF LinesInv
<1> QED
  BY <1>5, <1>6, <1>7, <1>8, <1>9 DEF LinesInv, Distinct, Held

\* No transport has a line nobody wrote yet.
LEMMA NewLine ==
  ASSUME BuffersInv
  PROVE  /\ lines \in Nat
         /\ \A b \in DOMAIN buffers : /\ Held(buffers[b].data) \subseteq 1..lines
                                      /\ ~Has(b, lines + 1)
         /\ 1..(lines + 1) = (1..lines) \cup {lines + 1}
<1>1. \A b \in DOMAIN buffers : Held(buffers[b].data) \subseteq 1..lines
        /\ buffers[b].sending \in 0..lines
  <2>1. \A b \in DOMAIN buffers :
          /\ buffers[b].data \in Seq(1..lines) /\ buffers[b].sending \in 0..lines
    BY DEF BuffersInv, BufferType
  <2>2. \A b \in DOMAIN buffers : \A k \in DOMAIN buffers[b].data :
          buffers[b].data[k] \in 1..lines
    <3> TAKE b \in DOMAIN buffers
    <3>1. buffers[b].data \in Seq(1..lines)
      BY <2>1
    <3> QED
      BY <3>1, ElementOfSeq, LenProperties
  <2> QED
    BY <2>1, <2>2 DEF Held
<1>2. lines \in Nat
  BY DEF BuffersInv
<1> QED
  BY <1>1, <1>2 DEF Has

\* A line is written into a buffer, or refused by it.
LEMMA LineArrives ==
  ASSUME BuffersInv, LinesInv, lines' = lines + 1, UNCHANGED delivered,
         NEW b \in DOMAIN buffers,
         \/ refused' = refused \cup {lines + 1} /\ UNCHANGED buffers
         \/ /\ UNCHANGED refused
            /\ Becomes(b, Append(buffers[b].data, lines + 1), buffers[b].sending,
                       buffers[b].broken)
  PROVE  LinesInv'
<1>m. PICK m : m = lines + 1
  OBVIOUS
<1>0. /\ lines \in Nat /\ 1..lines' = (1..lines) \cup {m} /\ m \notin 1..lines
      /\ \A c \in DOMAIN buffers : ~Has(c, m)
      /\ delivered \cup refused \subseteq 1..lines
  BY <1>m, NewLine DEF LinesInv
<1>1. CASE refused' = refused \cup {m} /\ UNCHANGED buffers
  <2>1. \A c \in DOMAIN buffers : \A n : Has(c, n)' <=> Has(c, n)
    BY <1>1 DEF Has, Held
  <2>2. delivered' \cup refused' = delivered \cup refused \cup {m}
    BY <1>1
  <2>3. \A c \in DOMAIN buffers', n \in delivered' \cup refused' : ~Has(c, n)'
    BY <1>0, <1>1, <2>1, <2>2 DEF LinesInv
  <2>4. \A c, e \in DOMAIN buffers', n \in 1..lines' : Has(c, n)' /\ Has(e, n)' => c = e
    BY <1>0, <1>1, <2>1 DEF LinesInv
  <2>5. \A n \in (1..lines') \ (delivered' \cup refused') :
          \E c \in DOMAIN buffers' : Has(c, n)'
    BY <1>0, <1>1, <2>1, <2>2 DEF LinesInv
  <2>6. delivered' \cup refused' \subseteq 1..lines' /\ delivered' \cap refused' = {}
    BY <1>0, <1>1 DEF LinesInv
  <2> QED
    BY <1>1, <2>3, <2>4, <2>5, <2>6 DEF LinesInv, Distinct, Held
<1>2. CASE UNCHANGED refused
           /\ Becomes(b, Append(buffers[b].data, m), buffers[b].sending, buffers[b].broken)
  <2>1. /\ buffers[b].data \in Seq(1..lines') /\ m \in 1..lines'
    <3>1. buffers[b].data \in Seq(1..lines)
      BY DEF BuffersInv, BufferType
    <3>2. 1..lines \subseteq 1..lines'
      BY <1>0
    <3> QED
      BY <1>0, <3>1, <3>2, SeqMonotonic
  <2>2. m \notin Held(buffers[b].data) /\ m # buffers[b].sending
    BY <1>0 DEF Has
  <2>3. /\ Held(Append(buffers[b].data, m)) = Held(buffers[b].data) \cup {m}
        /\ Distinct(Append(buffers[b].data, m))
    BY <2>1, <2>2, AppendHeld DEF LinesInv
  <2>4. /\ DOMAIN buffers' = DOMAIN buffers
        /\ \A c \in DOMAIN buffers, n \in 1..lines : Has(c, n)' <=> Has(c, n)
        /\ \A c \in DOMAIN buffers : Has(c, m)' <=> c = b
    <3>1. \A n : Has(b, n)' <=> Has(b, n) \/ n = m
      BY <1>2, <2>3, BecomesHas DEF Has
    <3>2. \A c \in DOMAIN buffers \ {b} : \A n : Has(c, n)' <=> Has(c, n)
      BY <1>2, BecomesHas
    <3>3. DOMAIN buffers' = DOMAIN buffers
      BY <1>2, BecomesHas
    <3>4. \A n \in 1..lines : n # m
      BY <1>0
    <3>5. \A c \in DOMAIN buffers, n \in 1..lines : Has(c, n)' <=> Has(c, n)
      BY <3>1, <3>2, <3>4
    <3>6. \A c \in DOMAIN buffers : Has(c, m)' <=> c = b
      <4>1. Has(b, m)'
        BY <3>1
      <4>2. \A c \in DOMAIN buffers \ {b} : ~Has(c, m)'
        BY <1>0, <3>2
      <4> QED
        BY <4>1, <4>2
    <3> QED
      BY <3>3, <3>5, <3>6
  <2>5. \A c \in DOMAIN buffers' : Distinct(buffers'[c].data)
          /\ buffers'[c].sending \notin Held(buffers'[c].data)
    BY <1>2, <2>2, <2>3, BecomesHas DEF LinesInv
  <2>6. \A c \in DOMAIN buffers', n \in delivered \cup refused : ~Has(c, n)'
    BY <1>0, <2>4 DEF LinesInv
  <2>7. \A c, e \in DOMAIN buffers', n \in 1..lines' : Has(c, n)' /\ Has(e, n)' => c = e
    <3>1. \A c, e \in DOMAIN buffers, n \in 1..lines : Has(c, n)' /\ Has(e, n)' => c = e
      BY <2>4 DEF LinesInv
    <3>2. \A c, e \in DOMAIN buffers : Has(c, m)' /\ Has(e, m)' => c = e
      BY <2>4
    <3> QED
      BY <1>0, <2>4, <3>1, <3>2
  <2>8. \A n \in (1..lines') \ (delivered \cup refused) : \E c \in DOMAIN buffers' : Has(c, n)'
    <3>1. \A n \in (1..lines) \ (delivered \cup refused) : \E c \in DOMAIN buffers : Has(c, n)'
      BY <2>4 DEF LinesInv
    <3>2. Has(b, m)'
      BY <2>4
    <3> QED
      BY <1>0, <2>4, <3>1, <3>2
  <2>9. delivered \cup refused \subseteq 1..lines' /\ delivered \cap refused = {}
    BY <1>0 DEF LinesInv
  <2> QED
    BY <1>2, <2>5, <2>6, <2>7, <2>8, <2>9 DEF LinesInv, Distinct, Held
<1> QED
  BY <1>m, <1>1, <1>2

\* and every line in one place.
LEMMA LinesAfterLine ==
  ASSUME BuffersInv, LinesInv, LineStep
  PROVE  LinesInv'
<1>1. PICK b \in DOMAIN buffers :
    LET B == buffers[b] IN
      \/ /\ lines' = lines + 1 /\ UNCHANGED <<delivered, buffers>>
         /\ refused' = refused \cup {lines + 1}
      \/ /\ lines' = lines + 1 /\ Unmoved
         /\ Becomes(b, Append(B.data, lines + 1), B.sending, B.broken)
      \/ /\ UNCHANGED lines /\ Unmoved /\ B.data # <<>> /\ B.sending = 0
         /\ Becomes(b, Tail(B.data), Head(B.data), B.broken)
      \/ /\ UNCHANGED <<lines, refused>> /\ B.sending # 0
         /\ delivered' = delivered \cup {B.sending} /\ Becomes(b, B.data, 0, B.broken)
      \/ /\ UNCHANGED <<lines, delivered>> /\ B.sending # 0
         /\ refused' = refused \cup {B.sending} /\ Becomes(b, B.data, 0, B.broken)
      \/ /\ UNCHANGED lines /\ Unmoved /\ B.sending # 0
         /\ Becomes(b, Append(B.data, B.sending), 0, B.broken)
      \/ /\ UNCHANGED lines /\ Unmoved /\ Becomes(b, B.data, B.sending, TRUE)
  BY DEF LineStep
<1> DEFINE B == buffers[b]
<1>2. /\ B.data \in Seq(1..lines) /\ B.sending \in 0..lines /\ lines \in Nat
      /\ Held(B.data) \subseteq 1..lines
  BY NewLine DEF BuffersInv, BufferType
<1>3. Distinct(B.data) /\ B.sending \notin Held(B.data)
  BY DEF LinesInv
<1>4. CASE lines' = lines + 1 /\ UNCHANGED <<delivered, buffers>>
             /\ refused' = refused \cup {lines + 1}
  BY <1>4, LineArrives
<1>5. CASE lines' = lines + 1 /\ Unmoved
           /\ Becomes(b, Append(B.data, lines + 1), B.sending, B.broken)
  BY <1>5, LineArrives DEF Unmoved
<1>6. CASE UNCHANGED lines /\ Unmoved /\ B.data # <<>> /\ B.sending = 0
           /\ Becomes(b, Tail(B.data), Head(B.data), B.broken)
  <2>1. /\ Held(B.data) = Held(Tail(B.data)) \cup {Head(B.data)}
        /\ Distinct(Tail(B.data)) /\ Head(B.data) \notin Held(Tail(B.data))
    BY <1>2, <1>3, <1>6, TailHeld
  <2>2. \A n \in 1..lines : n \in Held(Tail(B.data)) \/ n = Head(B.data) <=> Has(b, n)
    BY <1>2, <1>6, <2>1 DEF Has
  <2> QED
    BY <1>6, <2>1, <2>2, LinesStay DEF Unmoved
<1>7. CASE /\ UNCHANGED lines /\ B.sending # 0 /\ Becomes(b, B.data, 0, B.broken)
           /\ \/ UNCHANGED refused /\ delivered' = delivered \cup {B.sending}
              \/ UNCHANGED delivered /\ refused' = refused \cup {B.sending}
  BY <1>7, LineLeaves
<1>8. CASE UNCHANGED lines /\ Unmoved /\ B.sending # 0
           /\ Becomes(b, Append(B.data, B.sending), 0, B.broken)
  <2>1. B.sending \in 1..lines
    BY <1>2, <1>8
  <2>2. /\ Held(Append(B.data, B.sending)) = Held(B.data) \cup {B.sending}
        /\ Distinct(Append(B.data, B.sending))
    BY <1>2, <1>3, <2>1, AppendHeld
  <2>3. 0 \notin Held(Append(B.data, B.sending))
    BY <1>2, <2>1, <2>2
  <2>4. \A n \in 1..lines : n \in Held(Append(B.data, B.sending)) \/ n = 0 <=> Has(b, n)
    BY <2>2 DEF Has
  <2> QED
    BY <1>8, <2>2, <2>3, <2>4, LinesStay DEF Unmoved
<1>9. CASE UNCHANGED lines /\ Unmoved /\ Becomes(b, B.data, B.sending, TRUE)
  BY <1>3, <1>9, LinesStay DEF Unmoved, Has
<1> QED
  BY <1>1, <1>4, <1>5, <1>6, <1>7, <1>8, <1>9

\* The transports an update dials have no line yet.
LEMMA LinesAfterDial ==
  ASSUME BusOK, BuffersInv, LinesInv, Dial
  PROVE  LinesInv'
<1>1. UNCHANGED <<lines, delivered, refused>>
  BY DEF Dial
<1>2. PICK reached \in SUBSET Wanted :
           /\ DOMAIN buffers' = DOMAIN buffers \cup {<<Len(handed), n>> : n \in reached}
           /\ \A b \in DOMAIN buffers : buffers'[b] = buffers[b] /\ b[1] # Len(handed)
           /\ \A n \in reached :
                buffers'[<<Len(handed), n>>] = [data |-> <<>>, sending |-> 0, broken |-> FALSE]
  BY Dialled
<1>3. \A b \in DOMAIN buffers : b \in DOMAIN buffers' /\ (\A n : Has(b, n)' <=> Has(b, n))
  BY <1>2 DEF Has
<1>4. \A b \in DOMAIN buffers' \ DOMAIN buffers :
        buffers'[b].data = <<>> /\ buffers'[b].sending = 0 /\ \A n \in 1..lines : ~Has(b, n)'
  BY <1>2 DEF Has, Held
<1>5. \A b \in DOMAIN buffers' : Distinct(buffers'[b].data)
        /\ buffers'[b].sending \notin Held(buffers'[b].data)
  BY <1>2, <1>4 DEF LinesInv, Distinct, Held
<1>6. \A b \in DOMAIN buffers', n \in delivered \cup refused : ~Has(b, n)'
  BY <1>3, <1>4 DEF LinesInv
<1>7. \A b, c \in DOMAIN buffers', n \in 1..lines : Has(b, n)' /\ Has(c, n)' => b = c
  BY <1>3, <1>4 DEF LinesInv
<1>8. \A n \in (1..lines) \ (delivered \cup refused) : \E b \in DOMAIN buffers' : Has(b, n)'
  BY <1>3 DEF LinesInv
<1> QED
  BY <1>1, <1>5, <1>6, <1>7, <1>8 DEF LinesInv, Distinct, Held

\* What the other steps of the logs leave alone.
LEMMA OtherLogsSteps ==
  ASSUME LogsNext, ~Line
  PROVE  Dial \/ UNCHANGED bufferVars
  BY DEF LogsNext, UpdateLogs, DeleteLeftovers, SetTransports, SetWorkloadsConfig, InitStream,
         EndStreams, WorkloadStarted, DeleteOld, ReadTarget, ReadTransport, SetWriter,
         StartWriter,
         WorkloadRemoved, ConcurrentMaps, Line, logsVars

\* So does every step.
LEMMA LinesInductive ==
  ASSUME Core, LogsTypes, LinesInv, [Next]_vars
  PROVE  LinesInv'
<1>0. BusOK /\ BuffersInv
  BY DEF Core, LogsTypes
<1>1. CASE UNCHANGED bufferVars
  <2>1. \A b, n : Has(b, n)' <=> Has(b, n)
    BY <1>1 DEF Has, bufferVars
  <2> QED
    BY <1>1, <2>1 DEF LinesInv, bufferVars
<1>2. CASE Dial
  BY <1>0, <1>2, LinesAfterDial
<1>3. CASE Line
  BY <1>0, <1>3, LineSteps, LinesAfterLine
<1> QED
  BY <1>1, <1>2, <1>3, OtherLogsSteps DEF Next, vars, logsVars

\* And then every line is accounted for.
LEMMA LinesHold ==
  ASSUME BuffersInv, LinesInv
  PROVE  LinesAccounted
<1>1. \A b \in DOMAIN buffers : Len(buffers[b].data) <= BufferSize + 1
  BY DEF BuffersInv
<1>2. ASSUME NEW n \in 1..lines
      PROVE LET waiting == {b \in DOMAIN buffers : n \in InBuffer(b)}
                sent == {b \in DOMAIN buffers : buffers[b].sending = n}
            IN IF n \in delivered \cup refused
                 THEN waiting = {} /\ sent = {} /\ ~(n \in delivered /\ n \in refused)
                 ELSE \E b \in DOMAIN buffers :
                        /\ waiting \cup sent = {b} /\ (waiting = {} \/ sent = {})
  <2>1. \A b \in DOMAIN buffers : Has(b, n) <=> n \in InBuffer(b) \/ buffers[b].sending = n
    BY DEF Has, Held, InBuffer
  <2>2. CASE n \in delivered \cup refused
    BY <2>1, <2>2 DEF LinesInv
  <2>3. CASE n \notin delivered \cup refused
    <3>1. PICK b \in DOMAIN buffers : Has(b, n)
      BY <2>3 DEF LinesInv
    <3>2. \A c \in DOMAIN buffers : Has(c, n) => c = b
      BY <3>1 DEF LinesInv
    <3>3. ~(n \in InBuffer(b) /\ buffers[b].sending = n)
      BY DEF LinesInv, InBuffer, Held
    <3> QED
      BY <2>1, <2>3, <3>1, <3>2, <3>3
  <2> QED
    BY <2>2, <2>3
<1> QED
  BY <1>1, <1>2 DEF LinesAccounted

-----------------------------------------------------------------------------
(* The transports and the writers *)

\* Every step keeps the types of the buffers, and every buffer.
LEMMA BuffersInductive ==
  ASSUME Core, LogsTypes, [Next]_vars
  PROVE  BuffersInv' /\ DOMAIN buffers \subseteq DOMAIN buffers'
<1>0. BusOK /\ SyncTold /\ BuffersInv
  BY DEF Core, LogsTypes
<1>1. CASE UNCHANGED bufferVars
  <2>1. UNCHANGED handed => (turn' = "dial" => turn = "dial")
    BY <1>0, BusSteps, PodsSteps, LogsSteps, MountsSteps, TransferSteps
       DEF BusFoot, PodsFoot, LogsFoot, MountsFoot, TransferFoot, Next, vars, busVars
  <2>2. UNCHANGED <<buffers, lines>> /\ BufferType' = BufferType
    BY <1>1 DEF bufferVars, BufferType
  <2>3. \A b \in DOMAIN buffers :
          b[1] \in DOMAIN handed' /\ (b[1] = Len(handed') => turn' # "dial")
    BY <1>0, <2>1, HandedGrows DEF BuffersInv
  <2> QED
    BY <1>0, <2>2, <2>3 DEF BuffersInv
<1>2. CASE Dial
  <2>1. PICK reached \in SUBSET Wanted :
           /\ DOMAIN buffers' = DOMAIN buffers \cup {<<Len(handed), n>> : n \in reached}
           /\ \A b \in DOMAIN buffers : buffers'[b] = buffers[b] /\ b[1] # Len(handed)
           /\ \A n \in reached :
                buffers'[<<Len(handed), n>>] = [data |-> <<>>, sending |-> 0, broken |-> FALSE]
    BY <1>0, <1>2, Dialled
  <2>2. UNCHANGED <<lines, handed>> /\ turn' = "leftovers" /\ BufferType' = BufferType
    BY <1>2 DEF Dial, Pass, configVars, BufferType
  <2>3. reached \subseteq Names
    BY <2>1 DEF Wanted
  <2>4. DOMAIN buffers' \subseteq Transports
          /\ \A b \in DOMAIN buffers' : b[1] \in DOMAIN handed
    BY <1>0, <2>1, <2>3, LastConfiguration DEF BuffersInv
  <2>5. [data |-> <<>>, sending |-> 0, broken |-> FALSE] \in BufferType
    BY <1>0 DEF BufferType, BuffersInv
  <2>6. \A b \in DOMAIN buffers' : buffers'[b] \in BufferType
          /\ Len(buffers'[b].data) <= BufferSize + 1
    <3>1. \A b \in DOMAIN buffers : buffers[b] \in BufferType
            /\ Len(buffers[b].data) <= BufferSize + 1
      BY <1>0 DEF BuffersInv
    <3>2. Len(<<>>) <= BufferSize + 1
      BY LogsAssumption DEF LogsAssumption
    <3> QED
      BY <2>1, <2>5, <3>1, <3>2
  <2>7. buffers' = [b \in DOMAIN buffers' |-> buffers'[b]]
    BY <1>2 DEF Dial
  <2> QED
    BY <1>0, <2>1, <2>2, <2>4, <2>6, <2>7 DEF BuffersInv
<1>3. CASE Line
  <2>1. LineStep /\ UNCHANGED <<handed, turn>>
    BY <1>3, LineSteps
  <2>2. BuffersInv'
    BY <1>0, <2>1, BuffersAfterLine
  <2>3. DOMAIN buffers' = DOMAIN buffers
    BY <2>1 DEF LineStep, Becomes
  <2> QED
    BY <2>2, <2>3
<1> QED
  BY <1>1, <1>2, <1>3, OtherLogsSteps DEF Next, vars, logsVars, bufferVars

\* Every step keeps the types of the transports.
LEMMA TransportsInductive ==
  ASSUME Core, LogsTypes, [Next]_vars
  PROVE  TransportsOK'
<1>0. BusOK /\ TransportsOK /\ BuffersInv /\ DOMAIN buffers \subseteq DOMAIN buffers'
  BY BuffersInductive DEF Core, LogsTypes
<1>1. CASE UNCHANGED transportVars
  BY <1>0, <1>1 DEF TransportsOK, transportVars
<1>2. CASE Dial
  <2>1. PICK reached \in SUBSET Wanted :
           /\ missed' = missed \cup (Wanted \ reached)
           /\ dialled' = [n \in Names |-> IF n \in reached THEN <<Len(handed), n>> ELSE None]
           /\ DOMAIN buffers' = DOMAIN buffers \cup {<<Len(handed), n>> : n \in reached}
    BY <1>0, <1>2, Dialled
  <2>2. UNCHANGED <<transports, workloadsConfig>>
    BY <1>2 DEF Dial
  <2>3. \A n \in Names : <<Len(handed), n>> \in Transports
    BY <1>0, LastConfiguration
  <2>4. missed' \subseteq Names /\ dialled' \in [Names -> Transports \cup {None}]
    BY <1>0, <2>1, <2>3 DEF TransportsOK, Wanted
  <2>5. \A n \in Names : dialled'[n] # None =>
          dialled'[n] \in DOMAIN buffers' /\ dialled'[n][2] = n
    BY <2>1
  <2> QED
    BY <1>0, <2>2, <2>4, <2>5 DEF TransportsOK
<1>3. CASE DeleteLeftovers
  BY <1>0, <1>3 DEF DeleteLeftovers, TransportsOK, bufferVars
<1>4. CASE SetTransports
  BY <1>0, <1>4 DEF SetTransports, TransportsOK, bufferVars
<1>5. CASE SetWorkloadsConfig
  <2>1. Conf.target \in [Workloads -> Names \cup {None}]
    BY <1>0, LastConfiguration, LogsAssumption DEF LogsAssumption
  <2>2. workloadsConfig' \in [Workloads -> Names \cup {None}]
    BY <1>5, <2>1 DEF SetWorkloadsConfig
  <2>3. UNCHANGED <<transports, dialled>> /\ missed' \subseteq Names
    BY <1>0, <1>5 DEF SetWorkloadsConfig, TransportsOK
  <2> QED
    BY <1>0, <2>2, <2>3 DEF TransportsOK
<1>6. LogsNext => \/ Dial \/ DeleteLeftovers \/ SetTransports \/ SetWorkloadsConfig
                  \/ UNCHANGED transportVars
  <2>1. Line => UNCHANGED transportVars
    BY LineSteps
  <2>2. (\E w \in Workloads : InitStream(w)) \/ EndStreams \/ WorkloadStarted \/ WorkloadRemoved
           \/ ConcurrentMaps => UNCHANGED transportVars
    BY DEF InitStream, EndStreams, WorkloadStarted, DeleteOld, ReadTarget, ReadTransport,
           SetWriter,
           StartWriter, WorkloadRemoved, ConcurrentMaps, logsVars
  <2> QED
    BY <2>1, <2>2 DEF LogsNext, UpdateLogs, Line
<1> QED
  BY <1>1, <1>2, <1>3, <1>4, <1>5, <1>6 DEF Next, vars, logsVars

WriterType == [workload : Workloads, transport : DOMAIN buffers, state : States]

\* The writers ever made keep their workload and their transport.
SameWriters ==
  /\ Len(writers') = Len(writers)
  /\ \A i \in DOMAIN writers : /\ writers'[i].workload = writers[i].workload
                               /\ writers'[i].transport = writers[i].transport

\* What Stop makes of a writer.
StoppedState(s) ==
  CASE s = "live" -> "cancelled" [] s = "set" -> "unstopped" [] OTHER -> s

\* Stopping some writers, adding one and changing the state of one keep their types.
LEMMA StopWriters ==
  ASSUME WritersOK, NEW stopped, writers' = Stop(stopped)
  PROVE  /\ writers' \in Seq(WriterType) /\ SameWriters
         /\ DOMAIN writers' = DOMAIN writers
         /\ \A i \in DOMAIN writers :
              /\ i \notin stopped => writers'[i] = writers[i]
              /\ i \in stopped => writers'[i].state = StoppedState(writers[i].state)
<1>1. DOMAIN writers = 1..Len(writers) /\ Len(writers) \in Nat
      /\ \A i \in DOMAIN writers : writers[i] \in WriterType
  BY WritersTyped DEF WriterType
<1>2. DOMAIN writers' = DOMAIN writers /\ writers' = [i \in DOMAIN writers |-> writers'[i]]
  BY DEF Stop
<1>3. ASSUME NEW i \in DOMAIN writers
      PROVE  /\ writers'[i] \in WriterType
             /\ writers'[i].workload = writers[i].workload
             /\ writers'[i].transport = writers[i].transport
             /\ i \notin stopped => writers'[i] = writers[i]
             /\ i \in stopped => writers'[i].state = StoppedState(writers[i].state)
  BY <1>1, <1>3 DEF Stop, StoppedState, WriterType, States
<1>4. writers' \in [1..Len(writers) -> WriterType]
  BY <1>1, <1>2, <1>3
<1>5. writers' \in Seq(WriterType) /\ Len(writers') = Len(writers)
  BY <1>1, <1>4
<1> QED
  BY <1>2, <1>3, <1>5 DEF SameWriters

\* A writer that is added comes last, the others stay where they are.
LEMMA AppendWriter ==
  ASSUME WritersOK, NEW r \in WriterType, writers' = Append(writers, r)
  PROVE  /\ writers' \in Seq(WriterType)
         /\ Len(writers') = Len(writers) + 1 /\ DOMAIN writers' = 1..Len(writers')
         /\ \A i \in DOMAIN writers : i \in DOMAIN writers' /\ writers'[i] = writers[i]
         /\ writers'[Len(writers')] = r
<1>1. writers \in Seq(WriterType)
  BY DEF WritersOK, WriterType
<1> QED
  BY <1>1, AppendProperties, LenProperties

\* A writer whose state changes is still that of its workload.
LEMMA StateWriter ==
  ASSUME WritersOK, NEW i \in DOMAIN writers, NEW s \in States,
         writers' = [writers EXCEPT ![i].state = s]
  PROVE  /\ writers' \in Seq(WriterType) /\ SameWriters /\ DOMAIN writers' = DOMAIN writers
         /\ writers'[i].state = s
         /\ \A j \in DOMAIN writers \ {i} : writers'[j] = writers[j]
<1>1. DOMAIN writers = 1..Len(writers) /\ Len(writers) \in Nat
      /\ \A j \in DOMAIN writers : writers[j] \in WriterType
  BY WritersTyped DEF WriterType
<1>2. /\ DOMAIN writers' = DOMAIN writers /\ writers' = [j \in DOMAIN writers |-> writers'[j]]
      /\ writers'[i] = [writers[i] EXCEPT !.state = s]
      /\ \A j \in DOMAIN writers \ {i} : writers'[j] = writers[j]
  OBVIOUS
<1>3. /\ writers'[i] \in WriterType /\ writers'[i].state = s
      /\ writers'[i].workload = writers[i].workload
      /\ writers'[i].transport = writers[i].transport
  BY <1>1, <1>2 DEF WriterType
<1>4. writers' \in [1..Len(writers) -> WriterType]
  BY <1>1, <1>2, <1>3
<1>5. writers' \in Seq(WriterType) /\ Len(writers') = Len(writers)
  BY <1>1, <1>4
<1> QED
  BY <1>2, <1>3, <1>5 DEF SameWriters

FoundType == [step : {"delete", "target", "transport", "set", "start"},
              transport : Names \cup Transports \cup {None}]

\* WritersOK after a step, when the writers are still well typed.
LEMMA WritersOKAfter ==
  ASSUME DOMAIN buffers \subseteq DOMAIN buffers', writers' \in Seq(WriterType),
         wwriter' \in [Workloads -> Nat \cup {None}],
         \A w \in Workloads : wwriter'[w] # None =>
           wwriter'[w] \in DOMAIN writers' /\ writers'[wwriter'[w]].workload = w,
         found' \in FoundType,
         found'.step # "delete" => handling' # None /\ ToldTo("logs", Start(Name))',
         found'.step = "transport" => found'.transport \in Names,
         found'.step = "set" => found'.transport \in DOMAIN buffers,
         found'.step = "start" => writers' # <<>>
  PROVE  WritersOK'
<1>1. WriterType \subseteq WriterType'
  BY DEF WriterType
<1>2. writers' \in Seq(WriterType')
  BY <1>1, SeqMonotonic
<1> QED
  BY <1>2 DEF WritersOK, WriterType, FoundType

\* The same, when no writer was made.
LEMMA WritersOKKept ==
  ASSUME WritersOK, DOMAIN buffers \subseteq DOMAIN buffers', writers' \in Seq(WriterType),
         SameWriters, DOMAIN writers' = DOMAIN writers,
         wwriter' \in [Workloads -> Nat \cup {None}],
         \A w \in Workloads : wwriter'[w] \in {wwriter[w], None},
         found' \in FoundType,
         found'.step # "delete" => handling' # None /\ ToldTo("logs", Start(Name))',
         found'.step = "transport" => found'.transport \in Names,
         found'.step = "set" => found'.transport \in DOMAIN buffers,
         found'.step = "start" => writers # <<>>
  PROVE  WritersOK'
<1>1. \A w \in Workloads : wwriter'[w] # None =>
           wwriter'[w] \in DOMAIN writers' /\ writers'[wwriter'[w]].workload = w
  BY DEF WritersOK, SameWriters
<1>2. writers # <<>> => writers' # <<>>
  <2>1. writers \in Seq(WriterType)
    BY DEF WritersOK, WriterType
  <2> QED
    BY <2>1, EmptySeq DEF SameWriters
<1> QED
  BY <1>1, <1>2, WritersOKAfter

\* A step on the way of somebody else, or of the lines.
LEMMA WritersOKStay ==
  ASSUME WritersOK, DOMAIN buffers \subseteq DOMAIN buffers',
         UNCHANGED <<writers, wwriter, found>>,
         found.step # "delete" => UNCHANGED handling
  PROVE  WritersOK'
<1>1. writers' \in Seq(WriterType) /\ SameWriters /\ DOMAIN writers' = DOMAIN writers
  BY DEF WritersOK, WriterType, SameWriters
<1>2. found'.step # "delete" => handling' # None /\ ToldTo("logs", Start(Name))'
  BY DEF WritersOK, ToldTo, Start, Name
<1>3. /\ wwriter' \in [Workloads -> Nat \cup {None}] /\ found' \in FoundType
      /\ found'.step = "transport" => found'.transport \in Names
      /\ found'.step = "set" => found'.transport \in DOMAIN buffers
      /\ found'.step = "start" => writers # <<>>
  BY DEF WritersOK, FoundType
<1> QED
  BY <1>1, <1>2, <1>3, WritersOKKept

\* Nobody but the logs touches an event that WorkloadStarted is about.
LEMMA EventKept ==
  ASSUME Core, WritersOK, [Next]_vars, ~LogsNext, found.step # "delete"
  PROVE  UNCHANGED handling
<1>1. handling # None /\ Head(handling.observers) = "logs"
  BY DEF WritersOK, ToldTo
<1>2. Bus => UNCHANGED handling
  BY <1>1 DEF Bus, Receive, Save, TakeEvent, RestartPod, TakeLate, eventVars
<1> QED
  BY <1>1, <1>2, PodsSteps, MountsSteps, TransferSteps
     DEF Core, Next, PodsFoot, MountsFoot, TransferFoot, ToldBy, vars, busVars, eventVars

\* The event of WorkloadStarted.
LEMMA StartedEvent ==
  ASSUME BusOK, Telling("logs", "started")
  PROVE  /\ Name \in Workloads /\ ToldTo("logs", Start(Name))
         /\ UNCHANGED handling => ToldTo("logs", Start(Name))' /\ Name' = Name
<1>1. handling.event \in Events /\ handling.event.kind = "started" /\ handling # None
      /\ Head(handling.observers) = "logs"
  BY DEF Telling, BusOK, BusTypeOK, Tellings
<1> QED
  BY <1>1 DEF Events, Start, ToldTo, Name

\* Every step keeps the types of the writers.
LEMMA WritersInductive ==
  ASSUME Core, LogsTypes, [Next]_vars
  PROVE  WritersOK'
<1>0. BusOK /\ WritersOK /\ TransportsOK /\ DOMAIN buffers \subseteq DOMAIN buffers'
  BY BuffersInductive DEF Core, LogsTypes
<1>1. /\ writers \in Seq(WriterType) /\ wwriter \in [Workloads -> Nat \cup {None}]
      /\ found \in FoundType
      /\ DOMAIN writers = 1..Len(writers) /\ Len(writers) \in Nat
      /\ found.step # "delete" => handling # None /\ ToldTo("logs", Start(Name))
      /\ found.step = "transport" => found.transport \in Names
      /\ found.step = "set" => found.transport \in DOMAIN buffers
      /\ found.step = "start" => writers # <<>>
  BY <1>0, WritersTyped DEF WritersOK, WriterType, FoundType
<1>2. SameWriters <=> Len(writers') = Len(writers) /\ \A i \in DOMAIN writers :
           /\ writers'[i].workload = writers[i].workload
           /\ writers'[i].transport = writers[i].transport
  BY DEF SameWriters
<1>3. CASE ~LogsNext
  <2>1. UNCHANGED <<writers, wwriter, found>>
    BY <1>3 DEF Next, vars, logsVars, writerVars
  <2> QED
    BY <1>0, <1>3, <2>1, EventKept, WritersOKStay
<1>4. CASE Dial \/ SetTransports \/ SetWorkloadsConfig \/ EndStreams \/ ConcurrentMaps
  <2>1. UNCHANGED <<writers, wwriter, found, handling>>
    BY <1>4 DEF Dial, SetTransports, SetWorkloadsConfig, EndStreams, ConcurrentMaps, writerVars,
                eventVars, logsVars
  <2> QED
    BY <1>0, <2>1, WritersOKStay
<1>5. CASE Line
  <2>1. UNCHANGED <<found, wwriter, handling>>
    BY <1>0, <1>5, LineSteps DEF LogsTypes
  <2>2. writers' \in Seq(WriterType) /\ SameWriters /\ DOMAIN writers' = DOMAIN writers
    <3>1. UNCHANGED writers
            \/ \E i \in DOMAIN writers : writers' = [writers EXCEPT ![i].state = "gone"]
      BY <1>5 DEF Line, WriteLine, SendLine, ReadLine, WriteLog, BreakConnection, writerVars
    <3>2. UNCHANGED writers => SameWriters
      BY DEF SameWriters
    <3>3. "gone" \in States
      BY DEF States
    <3> QED
      BY <1>0, <1>1, <3>1, <3>2, <3>3, StateWriter
  <2>3. found'.step # "delete" => handling' # None /\ ToldTo("logs", Start(Name))'
    BY <1>1, <2>1 DEF ToldTo, Start, Name
  <2> QED
    BY <1>0, <1>1, <2>1, <2>2, <2>3, WritersOKKept
<1>6. CASE DeleteLeftovers
  <2>1. \E toDelete \in SUBSET Workloads :
          /\ writers' = Stop({wwriter[w] : w \in toDelete})
          /\ wwriter' = [w \in Workloads |-> IF w \in toDelete THEN None ELSE wwriter[w]]
    BY <1>6 DEF DeleteLeftovers
  <2>2. UNCHANGED <<found, handling>>
    BY <1>6 DEF DeleteLeftovers, eventVars
  <2>3. found'.step # "delete" => handling' # None /\ ToldTo("logs", Start(Name))'
    BY <1>1, <2>2 DEF ToldTo, Start, Name
  <2>4. /\ wwriter' \in [Workloads -> Nat \cup {None}]
        /\ \A w \in Workloads : wwriter'[w] \in {wwriter[w], None}
    BY <1>1, <2>1
  <2>5. writers' \in Seq(WriterType) /\ SameWriters /\ DOMAIN writers' = DOMAIN writers
    BY <1>0, <2>1, StopWriters
  <2> QED
    BY <1>0, <1>1, <2>2, <2>3, <2>4, <2>5, WritersOKKept
<1>7. ASSUME NEW w \in Workloads, InitStream(w) PROVE WritersOK'
  <2>1. UNCHANGED <<found, handling>>
    BY <1>7 DEF InitStream, eventVars
  <2>2. found'.step # "delete" => handling' # None /\ ToldTo("logs", Start(Name))'
    BY <1>1, <2>1 DEF ToldTo, Start, Name
  <2>3. CASE UNCHANGED writerVars
    BY <1>0, <2>1, <2>3, WritersOKStay DEF writerVars
  <2>4. ASSUME NEW t \in DOMAIN buffers, NEW s \in {"live", "failed"},
               writers' = Append(writers, NewWriter(w, t, s)),
               wwriter' = [wwriter EXCEPT ![w] = Len(writers')]
        PROVE  WritersOK'
    <3>1. NewWriter(w, t, s) \in WriterType /\ NewWriter(w, t, s).workload = w
      BY DEF NewWriter, WriterType, States
    <3>2. /\ writers' \in Seq(WriterType)
          /\ Len(writers') = Len(writers) + 1 /\ DOMAIN writers' = 1..Len(writers')
          /\ \A i \in DOMAIN writers : i \in DOMAIN writers' /\ writers'[i] = writers[i]
          /\ writers'[Len(writers')] = NewWriter(w, t, s)
      BY <1>0, <2>4, <3>1, AppendWriter
    <3>3. Len(writers') \in Nat /\ Len(writers') \in DOMAIN writers' /\ writers' # <<>>
      BY <1>1, <3>2
    <3>4. wwriter' \in [Workloads -> Nat \cup {None}] /\ wwriter'[w] = Len(writers')
          /\ \A v \in Workloads \ {w} : wwriter'[v] = wwriter[v]
      BY <1>1, <2>4, <3>3
    <3>5. \A v \in Workloads : wwriter'[v] # None =>
            wwriter'[v] \in DOMAIN writers' /\ writers'[wwriter'[v]].workload = v
      BY <1>0, <3>1, <3>2, <3>3, <3>4 DEF WritersOK
    <3> QED
      BY <1>0, <1>1, <2>1, <2>2, <3>2, <3>3, <3>4, <3>5, WritersOKAfter
  <2>5. ASSUME NEW t, t # None,
               t = (IF workloadsConfig[w] = None THEN None
                    ELSE transports[workloadsConfig[w]])
        PROVE  t \in DOMAIN buffers
    BY <1>0, <2>5 DEF TransportsOK
  <2> QED
    BY <1>7, <2>3, <2>4, <2>5 DEF InitStream
<1>8. CASE WorkloadRemoved
  <2>1. found.step = "delete"
    BY <1>1, <1>8 DEF WorkloadRemoved, Telling, ToldTo, Start
  <2>2. UNCHANGED found /\ writers' = Stop({wwriter[Name]})
          /\ wwriter' = [wwriter EXCEPT ![Name] = None]
    BY <1>8 DEF WorkloadRemoved, DeleteWorkload
  <2>3. /\ wwriter' \in [Workloads -> Nat \cup {None}]
        /\ \A w \in Workloads : wwriter'[w] \in {wwriter[w], None}
    BY <1>1, <2>2
  <2>4. writers' \in Seq(WriterType) /\ SameWriters /\ DOMAIN writers' = DOMAIN writers
    BY <1>0, <2>2, StopWriters
  <2> QED
    BY <1>0, <1>1, <2>1, <2>2, <2>3, <2>4, WritersOKKept
<1>9. CASE DeleteOld
  <2>1. /\ UNCHANGED handling /\ writers' = Stop({wwriter[Name]})
        /\ wwriter' = [wwriter EXCEPT ![Name] = None]
        /\ found' = [found EXCEPT !.step = "target"]
        /\ Telling("logs", "started")
    BY <1>9 DEF DeleteOld, DeleteWorkload, Goes
  <2>2. found' \in FoundType /\ found'.step = "target"
    BY <1>1, <2>1 DEF FoundType
  <2>3. /\ wwriter' \in [Workloads -> Nat \cup {None}]
        /\ \A w \in Workloads : wwriter'[w] \in {wwriter[w], None}
    BY <1>1, <2>1
  <2>4. writers' \in Seq(WriterType) /\ SameWriters /\ DOMAIN writers' = DOMAIN writers
    BY <1>0, <2>1, StopWriters
  <2>5. handling' # None /\ ToldTo("logs", Start(Name))'
    BY <1>0, <2>1, StartedEvent DEF Telling
  <2> QED
    BY <1>0, <1>1, <2>2, <2>3, <2>4, <2>5, WritersOKKept
<1>10. CASE ReadTarget \/ ReadTransport
  <2>1. UNCHANGED <<writers, wwriter>> /\ Telling("logs", "started")
    BY <1>10 DEF ReadTarget, ReadTransport, writerVars
  <2>2. SameWriters
    BY <2>1 DEF SameWriters
  <2>3. CASE Returns
    <3>1. found' \in FoundType /\ found'.step = "delete"
      BY <2>3 DEF Returns, Nowhere, FoundType
    <3> QED
      BY <1>0, <1>1, <2>1, <2>2, <3>1, WritersOKKept
  <2>4. CASE UNCHANGED handling /\ found' \in FoundType /\ found'.step \in {"transport", "set"}
             /\ (found'.step = "transport" => found'.transport \in Names)
             /\ (found'.step = "set" => found'.transport \in DOMAIN buffers)
    <3>1. handling' # None /\ ToldTo("logs", Start(Name))'
      BY <1>0, <2>1, <2>4, StartedEvent DEF Telling
    <3> QED
      BY <1>0, <1>1, <2>1, <2>2, <2>4, <3>1, WritersOKKept
  <2>5. Name \in Workloads
    BY <1>0, <2>1, StartedEvent
  <2> QED
    BY <1>0, <1>1, <1>10, <2>3, <2>4, <2>5
       DEF ReadTarget, ReadTransport, TransportsOK, FoundType
<1>11. CASE SetWriter
  <2>1. /\ UNCHANGED handling /\ Telling("logs", "started") /\ found.step = "set"
        /\ writers' = Append(writers, NewWriter(Name, found.transport, "set"))
        /\ wwriter' = [wwriter EXCEPT ![Name] = Len(writers')]
        /\ found' = [found EXCEPT !.step = "start"]
    BY <1>11 DEF SetWriter, Goes
  <2>2. handling' # None /\ ToldTo("logs", Start(Name))' /\ Name \in Workloads
    BY <1>0, <2>1, StartedEvent DEF Telling
  <2>3. NewWriter(Name, found.transport, "set") \in WriterType
        /\ NewWriter(Name, found.transport, "set").workload = Name
    BY <1>1, <2>1, <2>2 DEF NewWriter, WriterType, States
  <2>4. /\ writers' \in Seq(WriterType)
        /\ Len(writers') = Len(writers) + 1 /\ DOMAIN writers' = 1..Len(writers')
        /\ \A i \in DOMAIN writers : i \in DOMAIN writers' /\ writers'[i] = writers[i]
        /\ writers'[Len(writers')] = NewWriter(Name, found.transport, "set")
    BY <1>0, <2>1, <2>3, AppendWriter
  <2>5. Len(writers') \in Nat /\ Len(writers') \in DOMAIN writers' /\ writers' # <<>>
    BY <1>1, <2>4
  <2>6. wwriter' \in [Workloads -> Nat \cup {None}] /\ wwriter'[Name] = Len(writers')
        /\ \A v \in Workloads \ {Name} : wwriter'[v] = wwriter[v]
    BY <1>1, <2>1, <2>2, <2>5
  <2>7. \A v \in Workloads : wwriter'[v] # None =>
          wwriter'[v] \in DOMAIN writers' /\ writers'[wwriter'[v]].workload = v
    BY <1>0, <2>3, <2>4, <2>5, <2>6 DEF WritersOK
  <2>8. found' \in FoundType /\ found'.step = "start"
    BY <1>1, <2>1 DEF FoundType
  <2> QED
    BY <1>0, <1>1, <2>2, <2>4, <2>5, <2>6, <2>7, <2>8, WritersOKAfter
<1>12. CASE StartWriter
  <2>1. UNCHANGED wwriter /\ Returns /\ found.step = "start"
    BY <1>12 DEF StartWriter
  <2>2. found' \in FoundType /\ found'.step = "delete"
    BY <2>1 DEF Returns, Nowhere, FoundType
  <2>3. \E s \in {"live", "leaked", "failed"} :
          writers' = [writers EXCEPT ![Len(writers)].state = s]
    BY <1>12 DEF StartWriter
  <2>4. Len(writers) \in DOMAIN writers /\ {"live", "leaked", "failed"} \subseteq States
    BY <1>1, <2>1, EmptySeq DEF States
  <2>5. writers' \in Seq(WriterType) /\ SameWriters /\ DOMAIN writers' = DOMAIN writers
    BY <1>0, <2>3, <2>4, StateWriter
  <2> QED
    BY <1>0, <1>1, <2>1, <2>2, <2>5, WritersOKKept
<1> QED
  BY <1>3, <1>4, <1>5, <1>6, <1>7, <1>8, <1>9, <1>10, <1>11, <1>12
     DEF LogsNext, UpdateLogs, WorkloadStarted, Line

\* So every step keeps the types of the logs.
LEMMA LogsTypesInductive ==
  ASSUME Core, LogsTypes, [Next]_vars
  PROVE  LogsTypes'
  BY BuffersInductive, TransportsInductive, WritersInductive DEF LogsTypes

-----------------------------------------------------------------------------
(* The streams *)

\* An event that is taken is told to the logs, when anything waits.
LEMMA TakenToLogs ==
  ASSUME BusOK, TakeEvent, NEW e \in Events, Tell(e)
  PROVE  ToldTo("logs", e)'
<1>1. Observers \in {<<"logs">>, <<"logs", "transfer">>}
  BY DEF Observers, TakeEvent, BusOK, BusTypeOK, Early, Alive
<1>2. handling' = [event |-> e, observers |-> Observers] /\ handling' # None
  BY <1>1, BusAssumption DEF Tell, BusAssumption, Tellings
<1> QED
  BY <1>1, <1>2 DEF ToldTo

\* Whoever's step it is, but for the logs' own, they hear of a pod that is gone.
LEMMA HearingKept ==
  ASSUME Core, [Next]_vars, ~LogsNext, NEW w \in Workloads,
         w \notin pods => LogsHear(w), w \notin pods'
  PROVE  LogsHear(w)'
<1>0. BusOK /\ SyncTold
  BY DEF Core
<1>1. CASE UNCHANGED <<pods, events, handling>>
  BY <1>1 DEF LogsHear, Waiting, ToldTo, Removal
<1>2. CASE Bus
  <2>1. UNCHANGED pods
    BY <1>2, BusSteps DEF BusFoot
  <2>2. CASE TakeEvent
    <3>1. /\ handling = None /\ events # <<>> /\ events' = Tail(events)
          /\ (Head(events).kind = "started") \/ Tell(Head(events))
      BY <2>2 DEF TakeEvent
    <3>2. Waiting(Removal(w))
      BY <2>1, <3>1 DEF LogsHear, ToldTo
    <3>3. CASE Head(events) = Removal(w)
      <4>1. Removal(w) \in Events /\ Tell(Removal(w))
        BY <3>1, <3>3 DEF Removal, Events
      <4>2. ToldTo("logs", Removal(w))'
        BY <1>0, <2>2, <4>1, TakenToLogs DEF Removal, ToldTo
      <4> QED
        BY <4>2 DEF LogsHear
    <3> QED
      BY <1>0, <3>1, <3>2, <3>3, WaitingTail DEF LogsHear, Removal
  <2>3. CASE Receive \/ Save
    BY <1>1, <2>1, <2>3 DEF Receive, Save, eventVars
  <2>4. ASSUME NEW v \in Workloads, RestartPod(v) PROVE LogsHear(w)'
    <3>1. UNCHANGED handling
      BY <2>4 DEF RestartPod
    <3> QED
      BY <1>0, <2>1, <2>4, <3>1, WaitingRestart DEF LogsHear, ToldTo, Removal
  <2>5. ASSUME NEW v \in Workloads, TakeLate(v) PROVE LogsHear(w)'
    <3>1. handling = None /\ UNCHANGED events
      BY <2>5 DEF TakeLate
    <3> QED
      BY <2>1, <3>1 DEF LogsHear, ToldTo, Waiting, Removal
  <2> QED
    BY <1>2, <2>2, <2>3, <2>4, <2>5 DEF Bus
<1>3. CASE UpdateWorkloads
  <2>1. UNCHANGED handling
    BY <1>3, PodsSteps DEF PodsFoot
  <2>2. ASSUME NEW v \in Workloads, Started(v) PROVE LogsHear(w)'
    <3>1. events' = Append(events, Start(v)) /\ Start(v) \in Events /\ w \notin pods
      BY <2>2 DEF Started, Start, Events
    <3> QED
      BY <1>0, <2>1, <3>1, WaitingAppend DEF LogsHear, ToldTo, Removal
  <2>3. ASSUME NEW v \in Workloads, Removed(v) PROVE LogsHear(w)'
    <3>1. events' = Append(events, Removal(v)) /\ Removal(v) \in Events /\ pods' = pods \ {v}
      BY <2>3 DEF Removed, Removal, Events
    <3> QED
      BY <1>0, <2>1, <3>1, WaitingAppend DEF LogsHear, ToldTo, Removal
  <2> QED
    BY <1>1, <1>3, <2>1, <2>2, <2>3
       DEF UpdateWorkloads, UpdateWorkload, EndWorkloads, PruneWorkload, EndPrune, eventVars
<1>4. CASE UpdateMounts \/ UNCHANGED vars
  BY <1>1, <1>4, MountsSteps DEF MountsFoot, vars, busVars, eventVars
<1>5. CASE TransferNext
  <2>1. TransferFoot
    BY <1>0, <1>5, TransferSteps
  <2>2. UNCHANGED handling \/ Head(handling.observers) = "transfer"
    BY <2>1 DEF TransferFoot, ToldBy
  <2> QED
    BY <2>1, <2>2 DEF TransferFoot, LogsHear, ToldTo, Waiting, Removal
<1> QED
  BY <1>2, <1>3, <1>4, <1>5 DEF Next

\* The steps that are not the logs' begin no turn of theirs.
LEMMA EarlyKept ==
  ASSUME Core, [Next]_vars, ~LogsNext
  PROVE  /\ First' /\ turn' \in Early => First /\ UNCHANGED <<turn, todo>>
         /\ turn' = "streams" => turn = "streams" /\ First'
<1>0. BusOK /\ SyncTold /\ BusOK'
  BY BusInductive DEF Core
<1>1. First' => UNCHANGED handed /\ First
  <2>1. Len(handed) \in Nat /\ Len(handed) # 0
    BY <1>0, LastConfiguration
  <2> QED
    BY <1>0, <2>1, HandedGrows DEF First
<1>2. UNCHANGED handed /\ turn' \in Early => UNCHANGED <<turn, todo>>
  BY <1>0, BusSteps, PodsSteps, MountsSteps, TransferSteps
     DEF BusFoot, PodsFoot, MountsFoot, TransferFoot, Next, vars, busVars, Early
<1>3. turn' = "streams" => turn' \in Early /\ First'
  BY <1>0 DEF BusOK, Early
<1> QED
  BY <1>1, <1>2, <1>3

\* The steps of the other components keep what is known of the streams.
LEMMA StreamsByOthers ==
  ASSUME Core, LogsTypes, StreamsInv, [Next]_vars, ~LogsNext
  PROVE  StreamsInv'
<1>0. WritersOK /\ BusOK
  BY DEF LogsTypes, Core
<1>1. UNCHANGED <<writers, wwriter, found>>
  BY DEF Next, vars, logsVars, writerVars
<1>2. found.step # "delete" => Name' = Name
  BY <1>0, EventKept DEF Name
<1>3. LiveInv'
  <2> SUFFICES ASSUME NEW i \in DOMAIN writers, writers[i].state = "live"
               PROVE  /\ wwriter[writers[i].workload] = i
                      /\ writers[i].workload \notin pods' => LogsHear(writers[i].workload)'
    BY <1>1 DEF LiveInv, LogsHear, Waiting, ToldTo, Removal
  <2>1. /\ wwriter[writers[i].workload] = i
        /\ writers[i].workload \notin pods => LogsHear(writers[i].workload)
    BY DEF StreamsInv, LiveInv
  <2>2. writers[i].workload \in Workloads /\ writers'[i].workload = writers[i].workload
    BY <1>0, <1>1, WritersTyped
  <2>3. PICK w \in Workloads : w = writers[i].workload
    BY <2>2
  <2>4. w \notin pods' => LogsHear(w)'
    BY <2>1, <2>3, HearingKept
  <2> QED
    BY <1>1, <2>1, <2>3, <2>4 DEF LogsHear, Waiting, ToldTo, Removal
<1>4. CurrentInv'
  BY <1>1, <1>2 DEF StreamsInv, CurrentInv
<1>5. FoundInv'
  BY <1>1, <1>2 DEF StreamsInv, FoundInv
<1>6. NoneYet'
  BY <1>1, EarlyKept DEF StreamsInv, NoneYet, Early
<1> QED
  BY <1>3, <1>4, <1>5, <1>6 DEF StreamsInv

\* The logs' own steps change neither the pods nor what waits, and hear of a pod
\* that is gone until they are through with the event.
LEMMA OwnHearing ==
  ASSUME Core, LogsNext, NEW w, w \notin pods' => w \notin pods /\ LogsHear(w),
         UNCHANGED handling \/ handling.event # Removal(w)
  PROVE  w \notin pods' => LogsHear(w)'
<1>1. UNCHANGED <<pods, events>>
  BY LogsSteps DEF LogsFoot
<1> QED
  BY <1>1 DEF LogsHear, Waiting, ToldTo, Removal

\* The map before Init looked at the pods.
LEMMA NoneYetKept ==
  ASSUME Core, LogsTypes, NoneYet, LogsNext,
         \A w \in Workloads : wwriter'[w] \in {wwriter[w], None}
  PROVE  NoneYet'
<1>0. BusOK /\ LogsFoot
  BY LogsSteps DEF Core
<1>1. First' = First /\ (turn' \in Early => turn \in Early)
  BY <1>0 DEF LogsFoot, First, Early, configVars
<1>2. ASSUME First, turn' \in Early \ {"streams"} PROVE turn \in Early \ {"streams"}
  BY <1>0, <1>2 DEF LogsFoot, Early
<1>3. CASE turn' = "streams" /\ turn = "streams" /\ todo' \subseteq todo
  <2>1. todo \subseteq Workloads
    BY <1>0 DEF BusOK, BusTypeOK
  <2> QED
    BY <1>3, <2>1 DEF NoneYet
<1>4. CASE turn' = "streams" /\ turn # "streams"
  <2>1. First /\ turn \in Early \ {"streams"} /\ todo' \subseteq Workloads
    BY <1>0, <1>4 DEF LogsFoot, BusOK, BusTypeOK, Early
  <2> QED
    BY <1>4, <2>1 DEF NoneYet
<1>5. turn' = "streams" => turn # "streams" \/ todo' \subseteq todo
  BY <1>0 DEF LogsFoot, BusOK, BusTypeOK
<1>6. CASE turn' # "streams"
  BY <1>1, <1>2, <1>6 DEF NoneYet
<1> QED
  BY <1>3, <1>4, <1>5, <1>6

\* Writers that are stopped, and leave the map.
LEMMA StoppedStreams ==
  ASSUME Core, LogsTypes, StreamsInv, LogsNext, NEW gone \in SUBSET Workloads,
         writers' = Stop({wwriter[w] : w \in gone}),
         \A w \in Workloads : wwriter'[w] = IF w \in gone THEN None ELSE wwriter[w],
         \A w \in Workloads \ gone : UNCHANGED handling \/ handling.event # Removal(w),
         found.step = "start" => Name' = Name /\ found'.step = "start",
         found'.step = "start" => found.step = "start",
         found'.step \in {"target", "transport", "set"} =>
           Name' = Name /\ (found.step \in {"target", "transport", "set"} \/ Name \in gone)
           /\ Name \in Workloads,
         found.step = "start" => Name \in Workloads
  PROVE  StreamsInv'
<1>0. BusOK /\ WritersOK
  BY DEF LogsTypes, Core
<1> DEFINE stopped == {wwriter[w] : w \in gone}
<1>1. /\ DOMAIN writers' = DOMAIN writers /\ SameWriters
      /\ \A i \in DOMAIN writers :
           /\ i \notin stopped => writers'[i] = writers[i]
           /\ i \in stopped => writers'[i].state = StoppedState(writers[i].state)
  BY <1>0, StopWriters
<1>2. \A i \in DOMAIN writers : writers[i].workload \in Workloads
  BY <1>0, WritersTyped
<1>3. \A w \in Workloads : wwriter[w] \in stopped /\ wwriter[w] # None => w \in gone
  BY <1>0 DEF WritersOK
<1>4. LiveInv'
  <2> SUFFICES ASSUME NEW i \in DOMAIN writers, writers'[i].state = "live"
               PROVE  /\ wwriter'[writers'[i].workload] = i
                      /\ writers'[i].workload \notin pods' => LogsHear(writers[i].workload)'
    BY <1>1 DEF LiveInv, LogsHear, Waiting, ToldTo, Removal
  <2>1. i \notin stopped /\ writers'[i] = writers[i]
    BY <1>1 DEF StoppedState
  <2>2. PICK v \in Workloads : v = writers[i].workload
    BY <1>2
  <2>3. wwriter[v] = i /\ (v \notin pods => LogsHear(v)) /\ v \notin gone
    BY <2>1, <2>2 DEF StreamsInv, LiveInv
  <2>4. v \notin pods' => v \notin pods /\ LogsHear(v)
    BY <2>3, LogsSteps DEF LogsFoot
  <2>5. v \notin pods' => LogsHear(v)'
    BY <2>2, <2>3, <2>4, OwnHearing
  <2> QED
    BY <2>1, <2>2, <2>3, <2>5 DEF LogsHear, Waiting, ToldTo, Removal
<1>5. Len(writers') = Len(writers)
  BY <1>1 DEF SameWriters
<1>6. CurrentInv'
  <2> SUFFICES ASSUME NEW w \in Workloads, wwriter'[w] # None
               PROVE  \/ writers'[wwriter'[w]].state \in {"live", "failed"}
                      \/ /\ writers'[wwriter'[w]].state = "set" /\ found'.step = "start"
                         /\ wwriter'[w] = Len(writers') /\ Name' = w
    BY DEF CurrentInv
  <2>1. w \notin gone /\ wwriter'[w] = wwriter[w] /\ wwriter[w] # None
    OBVIOUS
  <2>2. wwriter[w] \notin stopped /\ wwriter[w] \in DOMAIN writers
    BY <1>0, <1>3, <2>1 DEF WritersOK
  <2>3. writers'[wwriter'[w]] = writers[wwriter[w]]
    BY <1>1, <2>1, <2>2
  <2> QED
    BY <1>5, <2>1, <2>3 DEF StreamsInv, CurrentInv
<1>7. FoundInv'
  <2>1. found'.step \in {"target", "transport", "set"} => wwriter'[Name'] = None
    BY DEF StreamsInv, FoundInv
  <2>2. ASSUME found'.step = "start"
        PROVE  /\ writers'[Len(writers')].workload = Name'
               /\ writers'[Len(writers')].state \in {"set", "unstopped"}
               /\ writers'[Len(writers')].state = "set" => wwriter'[Name'] = Len(writers')
    <3> DEFINE n == Len(writers)
    <3>1. /\ writers[n].workload = Name /\ writers[n].state \in {"set", "unstopped"}
          /\ writers[n].state = "set" => wwriter[Name] = n
          /\ Name' = Name /\ Name \in Workloads
      BY <2>2 DEF StreamsInv, FoundInv
    <3>2. n \in DOMAIN writers
      BY <1>0, <2>2, WritersTyped, EmptySeq DEF WritersOK
    <3>3. writers'[n].workload = Name
      BY <1>1, <3>1, <3>2 DEF SameWriters
    <3>4. writers'[n].state \in {"set", "unstopped"}
      BY <1>1, <3>1, <3>2 DEF StoppedState
    <3>5. writers'[n].state = "set" => n \notin stopped /\ writers[n].state = "set"
      BY <1>1, <3>1, <3>2 DEF StoppedState
    <3>6. writers'[n].state = "set" => wwriter'[Name] = n
      BY <3>1, <3>5
    <3> HIDE DEF n
    <3> QED
      BY <1>5, <3>1, <3>3, <3>4, <3>6 DEF n
  <2> QED
    BY <2>1, <2>2 DEF FoundInv
<1>8. NoneYet'
  BY NoneYetKept DEF StreamsInv
<1> QED
  BY <1>4, <1>6, <1>7, <1>8 DEF StreamsInv

-----------------------------------------------------------------------------
(* The steps of the logs themselves *)

\* An event that is being told to the logs is the start of its workload.
LEMMA FoundName ==
  ASSUME BusOK, WritersOK, found.step # "delete"
  PROVE  /\ Name \in Workloads /\ handling # None
         /\ handling.event = Start(Name) /\ \A w : handling.event # Removal(w)
<1>1. handling # None /\ handling \in Tellings /\ handling.event = Start(Name)
  BY DEF WritersOK, ToldTo, BusOK, BusTypeOK
<1> QED
  BY <1>1 DEF Tellings, Events, Start, Removal, Name

\* A step that leaves the writers alone, and WorkloadStarted before the writer.
LEMMA StreamsStay ==
  ASSUME Core, LogsTypes, StreamsInv, LogsNext, UNCHANGED <<writers, wwriter>>,
         \/ UNCHANGED <<found, handling>>
         \/ found.step \in {"target", "transport"} /\ found'.step = "delete"
         \/ /\ found.step \in {"target", "transport"} /\ found'.step \in {"transport", "set"}
            /\ UNCHANGED handling
  PROVE  StreamsInv'
<1>1. BusOK /\ WritersOK
  BY DEF Core, LogsTypes
<1>2. writers = [i \in DOMAIN writers |-> writers[i]]
  BY <1>1, WritersTyped DEF WritersOK
<1>3. Stop({}) = [i \in DOMAIN writers |-> writers[i]]
  BY DEF Stop
<1>4. {wwriter[w] : w \in {}} = {}
  OBVIOUS
<1>5. writers' = Stop({wwriter[w] : w \in {}})
  BY <1>2, <1>3, <1>4
<1>6. UNCHANGED handling => Name' = Name
  BY DEF Name
<1>7. \A w \in Workloads \ {} : UNCHANGED handling \/ handling.event # Removal(w)
  BY <1>1, FoundName
<1>8. found.step = "start" => Name \in Workloads /\ Name' = Name /\ found'.step = "start"
  BY <1>1, <1>6, FoundName
<1>9. found'.step = "start" => found.step = "start"
  OBVIOUS
<1>10. found'.step \in {"target", "transport", "set"} =>
         /\ Name' = Name /\ Name \in Workloads
         /\ found.step \in {"target", "transport", "set"} \/ Name \in {}
  BY <1>1, <1>6, FoundName
<1>11. \A w \in Workloads : wwriter'[w] = IF w \in {} THEN None ELSE wwriter[w]
  OBVIOUS
<1>12. {} \in SUBSET Workloads
  OBVIOUS
<1> QED
  BY <1>5, <1>7, <1>8, <1>9, <1>10, <1>11, <1>12, StoppedStreams

\* A writer that was stopped writes for the last time.
LEMMA StreamsAfterGone ==
  ASSUME Core, LogsTypes, StreamsInv, LogsNext, UNCHANGED <<wwriter, found, handling>>,
         NEW j \in DOMAIN writers, writers[j].state = "cancelled",
         writers' = [writers EXCEPT ![j].state = "gone"]
  PROVE  StreamsInv'
<1>0. BusOK /\ WritersOK /\ "gone" \in States
  BY DEF Core, LogsTypes, States
<1>1. /\ SameWriters /\ DOMAIN writers' = DOMAIN writers /\ writers'[j].state = "gone"
      /\ \A i \in DOMAIN writers \ {j} : writers'[i] = writers[i]
  BY <1>0, StateWriter
<1>2. \A i \in DOMAIN writers :
        writers[i].state # "cancelled" \/ writers'[i].state # "gone" => writers'[i] = writers[i]
  BY <1>1
<1>3. LiveInv'
  <2> SUFFICES ASSUME NEW i \in DOMAIN writers, writers'[i].state = "live"
               PROVE  /\ wwriter[writers[i].workload] = i
                      /\ writers[i].workload \notin pods' => LogsHear(writers[i].workload)'
    BY <1>1, <1>2 DEF LiveInv, LogsHear, Waiting, ToldTo, Removal
  <2>1. PICK v \in Workloads : v = writers[i].workload
    BY <1>0, WritersTyped
  <2>2. wwriter[v] = i /\ (v \notin pods => LogsHear(v))
    BY <1>2, <2>1 DEF StreamsInv, LiveInv
  <2>3. UNCHANGED pods
    BY LogsSteps DEF LogsFoot
  <2>4. v \notin pods' => LogsHear(v)'
    BY <2>2, <2>3, OwnHearing
  <2> QED
    BY <2>1, <2>2, <2>4 DEF LogsHear, Waiting, ToldTo, Removal
<1>4. Name' = Name /\ Len(writers') = Len(writers)
  BY <1>1 DEF Name, SameWriters
<1>5. CurrentInv'
  <2> SUFFICES ASSUME NEW w \in Workloads, wwriter[w] # None
               PROVE  \/ writers'[wwriter[w]].state \in {"live", "failed"}
                      \/ /\ writers'[wwriter[w]].state = "set" /\ found.step = "start"
                         /\ wwriter[w] = Len(writers) /\ Name = w
    BY <1>4 DEF CurrentInv
  <2>1. wwriter[w] \in DOMAIN writers
    BY <1>0 DEF WritersOK
  <2>2. writers[wwriter[w]].state # "cancelled"
    BY DEF StreamsInv, CurrentInv
  <2>3. writers'[wwriter[w]] = writers[wwriter[w]]
    BY <1>2, <2>1, <2>2
  <2> QED
    BY <2>3 DEF StreamsInv, CurrentInv
<1>6. FoundInv'
  <2>1. found.step = "start" => Len(writers) \in DOMAIN writers
    BY <1>0, WritersTyped, EmptySeq DEF WritersOK
  <2>2. found.step = "start" => writers'[Len(writers)] = writers[Len(writers)]
    BY <1>2, <2>1 DEF StreamsInv, FoundInv
  <2> QED
    BY <1>4, <2>2 DEF StreamsInv, FoundInv
<1>7. NoneYet'
  BY NoneYetKept DEF StreamsInv
<1> QED
  BY <1>3, <1>5, <1>6, <1>7 DEF StreamsInv

\* A step that leaves every live stream with its entry keeps LiveInv.
LEMMA LiveNext ==
  ASSUME \A i \in DOMAIN writers' : writers'[i].state = "live" =>
           \E v \in Workloads : /\ v = writers'[i].workload /\ wwriter'[v] = i
                                /\ v \notin pods' => LogsHear(v)'
  PROVE  LiveInv'
<1> SUFFICES ASSUME NEW i \in DOMAIN writers', writers'[i].state = "live"
             PROVE  /\ wwriter'[writers'[i].workload] = i
                    /\ writers'[i].workload \notin pods' =>
                         (LogsHear(writers[i].workload))'
  BY DEF LiveInv
<1>1. PICK v \in Workloads : /\ v = writers'[i].workload /\ wwriter'[v] = i
                             /\ v \notin pods' => LogsHear(v)'
  OBVIOUS
<1> QED
  BY <1>1 DEF LogsHear, Waiting, ToldTo, Removal

\* A writer is made: by Init for a pod that exists, or by WorkloadStarted.
LEMMA StreamsAfterNew ==
  ASSUME Core, LogsTypes, StreamsInv, LogsNext, UNCHANGED handling,
         NEW w \in Workloads, NEW t \in DOMAIN buffers, NEW s \in {"live", "failed", "set"},
         writers' = Append(writers, NewWriter(w, t, s)),
         wwriter' = [wwriter EXCEPT ![w] = Len(writers')],
         wwriter[w] = None,
         \/ /\ s # "set" /\ w \in pods /\ found.step = "delete" /\ UNCHANGED found
            /\ turn = "streams" /\ turn' = "streams" /\ todo' = todo \ {w}
         \/ /\ s = "set" /\ found.step = "set" /\ found'.step = "start" /\ Name = w
            /\ turn' = turn /\ ~(First /\ turn \in Early)
  PROVE  StreamsInv'
<1>0. BusOK /\ WritersOK /\ s \in States
  BY DEF Core, LogsTypes, States
<1>1. NewWriter(w, t, s) \in WriterType /\ NewWriter(w, t, s).workload = w
      /\ NewWriter(w, t, s).state = s
  BY <1>0 DEF NewWriter, WriterType
<1>2. /\ Len(writers') = Len(writers) + 1 /\ DOMAIN writers' = 1..Len(writers')
      /\ \A i \in DOMAIN writers : i \in DOMAIN writers' /\ writers'[i] = writers[i]
      /\ writers'[Len(writers')] = NewWriter(w, t, s)
  BY <1>0, <1>1, AppendWriter
<1>3. DOMAIN writers = 1..Len(writers) /\ Len(writers) \in Nat
      /\ \A i \in DOMAIN writers : writers[i].workload \in Workloads
  BY <1>0, WritersTyped
<1>4. DOMAIN writers' = DOMAIN writers \cup {Len(writers')}
        /\ Len(writers') \notin DOMAIN writers
      /\ Len(writers') \in Nat
  BY <1>2, <1>3
<1>5. wwriter'[w] = Len(writers') /\ \A v \in Workloads \ {w} : wwriter'[v] = wwriter[v]
  BY <1>0 DEF WritersOK
<1>6. Name' = Name /\ UNCHANGED pods
  BY LogsSteps DEF Name, LogsFoot
<1>7. LiveInv'
  <2> SUFFICES ASSUME NEW i \in DOMAIN writers', writers'[i].state = "live"
               PROVE  \E v \in Workloads : /\ v = writers'[i].workload /\ wwriter'[v] = i
                                           /\ v \notin pods' => LogsHear(v)'
    BY LiveNext
  <2>1. CASE i = Len(writers')
    <3>1. writers'[i].workload = w /\ w \in pods'
      BY <1>0, <1>1, <1>2, <1>6, <2>1 DEF States
    <3> QED
      BY <1>5, <2>1, <3>1
  <2>2. CASE i \in DOMAIN writers
    <3>1. writers'[i] = writers[i]
      BY <1>2, <2>2
    <3>2. PICK v \in Workloads : v = writers[i].workload
      BY <1>3, <2>2
    <3>3. wwriter[v] = i /\ (v \notin pods => LogsHear(v))
      BY <2>2, <3>1, <3>2 DEF StreamsInv, LiveInv
    <3>4. v # w
      BY <1>3, <2>2, <3>3, LogsAssumption DEF LogsAssumption
    <3>5. v \notin pods' => LogsHear(v)'
      BY <1>6, <3>3, OwnHearing
    <3> QED
      BY <1>5, <3>1, <3>2, <3>3, <3>4, <3>5
  <2> QED
    BY <1>4, <2>1, <2>2
<1>8. CurrentInv'
  <2> SUFFICES ASSUME NEW v \in Workloads, wwriter'[v] # None
               PROVE  \/ writers'[wwriter'[v]].state \in {"live", "failed"}
                      \/ /\ writers'[wwriter'[v]].state = "set" /\ found'.step = "start"
                         /\ wwriter'[v] = Len(writers') /\ Name' = v
    BY DEF CurrentInv
  <2>1. CASE v = w
    BY <1>1, <1>2, <1>5, <1>6, <2>1
  <2>2. CASE v # w
    <3>1. wwriter'[v] = wwriter[v] /\ wwriter[v] # None /\ wwriter[v] \in DOMAIN writers
      BY <1>0, <1>5, <2>2 DEF WritersOK
    <3>2. writers[wwriter[v]].state \in {"live", "failed"}
      BY <3>1 DEF StreamsInv, CurrentInv
    <3> QED
      BY <1>2, <3>1, <3>2
  <2> QED
    BY <2>1, <2>2
<1>9. FoundInv'
  BY <1>1, <1>2, <1>5, <1>6 DEF FoundInv
<1>10. NoneYet'
  <2>1. First' = First
    BY LogsSteps DEF LogsFoot, First, configVars
  <2>2. CASE turn' = "streams" /\ todo' = todo \ {w}
    <3>1. todo \subseteq Workloads /\ turn = "streams"
      BY <1>0, <2>2 DEF BusOK, BusTypeOK, Early
    <3> QED
      BY <1>5, <2>2, <3>1 DEF StreamsInv, NoneYet
  <2>3. CASE turn' = turn /\ ~(First /\ turn \in Early)
    <3>1. turn # "streams"
      BY <1>0, <2>3 DEF BusOK, Early
    <3> QED
      BY <2>1, <2>3, <3>1 DEF NoneYet
  <2> QED
    BY <2>2, <2>3
<1> QED
  BY <1>7, <1>8, <1>9, <1>10 DEF StreamsInv

\* Start returns.
LEMMA StreamsAfterStart ==
  ASSUME Core, LogsTypes, StreamsInv, StartWriter
  PROVE  StreamsInv'
<1> DEFINE n == Len(writers)
<1>0. BusOK /\ WritersOK /\ LogsNext
  BY DEF Core, LogsTypes, LogsNext, WorkloadStarted
<1>1. found.step = "start" /\ UNCHANGED wwriter /\ found'.step = "delete"
  BY DEF StartWriter, Returns, Nowhere
<1>2. n \in DOMAIN writers /\ Name \in Workloads /\ \A v : handling.event # Removal(v)
  BY <1>0, <1>1, WritersTyped, EmptySeq, FoundName DEF WritersOK
<1>3. writers[n].workload = Name /\ writers[n].state \in {"set", "unstopped"}
      /\ (writers[n].state = "set" => wwriter[Name] = n)
  BY <1>1 DEF StreamsInv, FoundInv
<1>4. PICK s \in {"live", "leaked", "failed"} :
        /\ writers' = [writers EXCEPT ![n].state = s]
        /\ s = "live" => writers[n].state = "set" /\ Name \in pods
        /\ s = "leaked" => writers[n].state # "set"
  BY DEF StartWriter
<1>5. /\ SameWriters /\ DOMAIN writers' = DOMAIN writers /\ writers'[n].state = s
      /\ \A i \in DOMAIN writers \ {n} : writers'[i] = writers[i]
  <2>1. s \in States
    BY <1>4 DEF States
  <2> QED
    BY <1>0, <1>2, <1>4, <2>1, StateWriter
<1>6. UNCHANGED pods
  BY <1>0, LogsSteps DEF LogsFoot
<1> HIDE DEF n
<1>7. LiveInv'
  <2> SUFFICES ASSUME NEW i \in DOMAIN writers, writers'[i].state = "live"
               PROVE  \E v \in Workloads : /\ v = writers[i].workload /\ wwriter[v] = i
                                           /\ v \notin pods' => LogsHear(v)'
    BY <1>1, <1>5, LiveNext DEF SameWriters
  <2>1. CASE i = n
    BY <1>2, <1>3, <1>4, <1>5, <1>6, <2>1
  <2>2. CASE i # n
    <3>1. PICK v \in Workloads : v = writers[i].workload
      BY <1>0, WritersTyped
    <3>2. wwriter[v] = i /\ (v \notin pods => LogsHear(v))
      BY <1>5, <2>2, <3>1 DEF StreamsInv, LiveInv
    <3>3. v \notin pods' => LogsHear(v)'
      BY <1>0, <1>2, <1>6, <3>2, OwnHearing
    <3> QED
      BY <3>1, <3>2, <3>3
  <2> QED
    BY <2>1, <2>2
<1>8. CurrentInv'
  <2> SUFFICES ASSUME NEW v \in Workloads, wwriter[v] # None
               PROVE  writers'[wwriter[v]].state \in {"live", "failed"}
    BY <1>1 DEF CurrentInv
  <2>1. wwriter[v] \in DOMAIN writers
    BY <1>0 DEF WritersOK
  <2>2. \/ writers[wwriter[v]].state \in {"live", "failed"}
        \/ writers[wwriter[v]].state = "set" /\ wwriter[v] = n
    BY DEF StreamsInv, CurrentInv, n
  <2>3. CASE wwriter[v] # n
    BY <1>5, <2>1, <2>2, <2>3
  <2>4. CASE wwriter[v] = n
    BY <1>3, <1>4, <1>5, <2>2, <2>4
  <2> QED
    BY <2>3, <2>4
<1>9. FoundInv'
  BY <1>1 DEF FoundInv
<1>10. NoneYet'
  BY <1>0, <1>1, NoneYetKept DEF StreamsInv
<1> QED
  BY <1>7, <1>8, <1>9, <1>10 DEF StreamsInv

\* Every step keeps what is known of the streams.
LEMMA StreamsInductive == Core /\ LogsTypes /\ StreamsInv /\ [Next]_vars => StreamsInv'
<1> SUFFICES ASSUME Core, LogsTypes, StreamsInv, [Next]_vars PROVE StreamsInv'
  OBVIOUS
<1>0. BusOK /\ WritersOK /\ TransportsOK /\ LogsTypes
  BY DEF Core, LogsTypes
<1>1. CASE ~LogsNext
  BY <1>1, StreamsByOthers
<1>2. CASE Dial \/ SetTransports \/ SetWorkloadsConfig \/ EndStreams \/ ConcurrentMaps
  <2>1. UNCHANGED <<writers, wwriter, found, handling>>
    BY <1>2 DEF Dial, SetTransports, SetWorkloadsConfig, EndStreams, ConcurrentMaps, writerVars,
                eventVars, logsVars
  <2>2. LogsNext
    BY <1>2 DEF LogsNext, UpdateLogs
  <2> QED
    BY <2>1, <2>2, StreamsStay
<1>3. CASE Line
  <2>1. UNCHANGED <<found, wwriter, handling>> /\ LogsNext
    BY <1>0, <1>3, LineSteps DEF LogsNext, Line
  <2>2. \/ UNCHANGED writers
        \/ \E i \in DOMAIN writers : /\ writers[i].state = "cancelled"
                                     /\ writers' = [writers EXCEPT ![i].state = "gone"]
    BY <1>3 DEF Line, WriteLine, SendLine, ReadLine, WriteLog, BreakConnection, writerVars
  <2> QED
    BY <2>1, <2>2, StreamsStay, StreamsAfterGone
<1>4. CASE DeleteLeftovers
  <2>1. PICK toDelete \in SUBSET Workloads :
          /\ writers' = Stop({wwriter[w] : w \in toDelete})
          /\ wwriter' = [w \in Workloads |-> IF w \in toDelete THEN None ELSE wwriter[w]]
    BY <1>4 DEF DeleteLeftovers
  <2>2. UNCHANGED <<found, handling>> /\ LogsNext
    BY <1>4 DEF DeleteLeftovers, eventVars, LogsNext, UpdateLogs
  <2>3. found.step # "delete" => Name \in Workloads /\ Name' = Name
    BY <1>0, <2>2, FoundName DEF Name
  <2>4. \A w \in Workloads : wwriter'[w] = IF w \in toDelete THEN None ELSE wwriter[w]
    BY <2>1
  <2> QED
    BY <2>1, <2>2, <2>3, <2>4, StoppedStreams
<1>5. ASSUME NEW w \in Workloads, InitStream(w) PROVE StreamsInv'
  <2>1. /\ UNCHANGED <<found, handling, turn>> /\ turn = "streams" /\ w \in todo
        /\ todo' = todo \ {w} /\ LogsNext
    BY <1>5 DEF InitStream, eventVars, LogsNext, UpdateLogs
  <2>2. wwriter[w] = None /\ w \in pods /\ found.step = "delete"
    <3>1. First /\ handling = None /\ todo \subseteq pods
      BY <1>0, <2>1 DEF BusOK, Early
    <3> QED
      BY <1>0, <2>1, <3>1 DEF StreamsInv, NoneYet, WritersOK
  <2>3. CASE UNCHANGED writerVars
    BY <2>1, <2>3, StreamsStay DEF writerVars
  <2>4. ASSUME NEW t \in DOMAIN buffers, NEW s \in {"live", "failed"},
               writers' = Append(writers, NewWriter(w, t, s)),
               wwriter' = [wwriter EXCEPT ![w] = Len(writers')]
        PROVE  StreamsInv'
    <3>1. s \in {"live", "failed", "set"} /\ s # "set"
      OBVIOUS
    <3> QED
      BY <2>1, <2>2, <2>4, <3>1, StreamsAfterNew
  <2>5. ASSUME NEW t, t # None,
               t = (IF workloadsConfig[w] = None THEN None
                    ELSE transports[workloadsConfig[w]])
        PROVE  t \in DOMAIN buffers
    BY <1>0, <2>5 DEF TransportsOK
  <2> QED
    BY <1>5, <2>3, <2>4, <2>5 DEF InitStream
<1>6. CASE WorkloadRemoved \/ DeleteOld
  <2>1. /\ Name \in Workloads /\ (WorkloadRemoved => handling.event = Removal(Name))
        /\ handling # None /\ handling \in Tellings /\ Head(handling.observers) = "logs"
    <3>1. handling \in Tellings /\ Head(handling.observers) = "logs"
          /\ (WorkloadRemoved => handling.event.kind = "removed")
      BY <1>0, <1>6 DEF WorkloadRemoved, DeleteOld, Telling, BusOK, BusTypeOK
    <3> QED
      BY <1>6, <3>1 DEF Tellings, Events, Removal, Name, WorkloadRemoved, DeleteOld, Telling
  <2>2. /\ writers' = Stop({wwriter[Name]}) /\ wwriter' = [wwriter EXCEPT ![Name] = None]
        /\ LogsNext
    BY <1>6 DEF WorkloadRemoved, DeleteOld, DeleteWorkload, LogsNext, WorkloadStarted
  <2>3. found.step \notin {"start", "set", "transport", "target"}
    <3>1. CASE DeleteOld
      BY <3>1 DEF DeleteOld
    <3>2. CASE WorkloadRemoved
      BY <1>0, <3>2, <2>1 DEF WritersOK, ToldTo, Removal, Start
    <3> QED
      BY <1>6, <3>1, <3>2
  <2>4. PICK v \in Workloads : v = Name
    BY <2>1
  <2>5. {v} \in SUBSET Workloads /\ writers' = Stop({wwriter[w] : w \in {v}})
    <3>1. {wwriter[w] : w \in {v}} = {wwriter[v]}
      OBVIOUS
    <3> QED
      BY <2>2, <2>4, <3>1
  <2>6. \A w \in Workloads : wwriter'[w] = IF w \in {v} THEN None ELSE wwriter[w]
    BY <1>0, <2>2, <2>4 DEF WritersOK
  <2>7. \A w \in Workloads \ {v} : UNCHANGED handling \/ handling.event # Removal(w)
    BY <1>6, <2>1, <2>4 DEF Removal, DeleteOld, Goes
  <2>8. /\ found'.step # "start"
        /\ found'.step \in {"target", "transport", "set"} => Name' = Name /\ Name \in {v}
    <3>1. CASE DeleteOld
      <4>1. found' = [found EXCEPT !.step = "target"] /\ UNCHANGED handling
        BY <3>1 DEF DeleteOld, Goes
      <4> QED
        BY <1>0, <2>4, <4>1 DEF WritersOK, Name
    <3>2. CASE WorkloadRemoved
      BY <2>3, <3>2 DEF WorkloadRemoved
    <3> QED
      BY <1>6, <3>1, <3>2
  <2> QED
    BY <2>1, <2>2, <2>3, <2>5, <2>6, <2>7, <2>8, StoppedStreams
<1>7. CASE ReadTarget \/ ReadTransport
  <2>1. UNCHANGED <<writers, wwriter>> /\ found.step \in {"target", "transport"} /\ LogsNext
    BY <1>7 DEF ReadTarget, ReadTransport, writerVars, LogsNext, WorkloadStarted
  <2>2. \/ found'.step = "delete"
        \/ found'.step \in {"transport", "set"} /\ UNCHANGED handling
    BY <1>7 DEF ReadTarget, ReadTransport, Returns, Nowhere
  <2> QED
    BY <2>1, <2>2, StreamsStay
<1>8. CASE SetWriter
  <2>1. /\ UNCHANGED <<handling, turn>> /\ found.step = "set" /\ LogsNext
        /\ writers' = Append(writers, NewWriter(Name, found.transport, "set"))
        /\ wwriter' = [wwriter EXCEPT ![Name] = Len(writers')]
        /\ found' = [found EXCEPT !.step = "start"]
    BY <1>8 DEF SetWriter, Goes, LogsNext, WorkloadStarted
  <2>2. Name \in Workloads /\ found.transport \in DOMAIN buffers /\ wwriter[Name] = None
        /\ handling # None
    BY <1>0, <2>1, FoundName DEF WritersOK, StreamsInv, FoundInv
  <2>3. found'.step = "start" /\ ~(First /\ turn \in Early)
    BY <1>0, <2>1, <2>2 DEF WritersOK, BusOK
  <2>4. PICK w \in Workloads, t \in DOMAIN buffers : w = Name /\ t = found.transport
    BY <2>2
  <2> QED
    BY <2>1, <2>2, <2>3, <2>4, StreamsAfterNew
<1>9. CASE StartWriter
  BY <1>9, StreamsAfterStart
<1> QED
  BY <1>1, <1>2, <1>3, <1>4, <1>5, <1>6, <1>7, <1>8, <1>9
     DEF LogsNext, UpdateLogs, WorkloadStarted, Line

\* There is no stream before the first configuration.
LEMMA StreamsInitial == Init => StreamsInv
  BY EmptySeq
     DEF Init, BusInit, LogsInit, StreamsInv, LiveInv, CurrentInv, FoundInv, NoneYet, Nowhere

\* Then the streams are those of pods.
LEMMA StreamsHold ==
  ASSUME StreamsInv, LogsTypes
  PROVE  StreamsKnown
<1> SUFFICES ASSUME NEW i \in DOMAIN writers, writers[i].state = "live"
             PROVE  /\ wwriter[writers[i].workload] = i
                    /\ AtRest => writers[i].workload \in pods
  BY DEF StreamsKnown
<1> QED
  BY EmptySeq DEF StreamsInv, LiveInv, LogsHear, Waiting, ToldTo, AtRest

-----------------------------------------------------------------------------
(* The workloads whose transport was never changed *)

\* There are no pods and no events before the first configuration.
LEMMA PodEventsInitial == Init => PodEvents
  BY EmptySeq DEF Init, BusInit, PodEvents, ToldTo

\* What the next event told is about a pod: events that wait, one after another.
LEMMA PodEventsKept ==
  ASSUME BusOK, PodEvents, events' = events,
         pods' \subseteq pods,
         \A w \in Workloads : ToldTo("logs", Removal(w))' => ToldTo("logs", Removal(w))
  PROVE  PodEvents'
<1>1. pods \subseteq Workloads
  BY DEF BusOK, BusTypeOK
<1> SUFFICES ASSUME NEW w \in pods'
             PROVE  /\ \A j \in DOMAIN events : events[j] = Removal(w) =>
                         \E k \in DOMAIN events : j < k /\ events[k] = Start(w)
                    /\ ToldTo("logs", Removal(w))' => Waiting(Start(w))
  BY DEF PodEvents, Waiting, Removal, Start
<1> QED
  BY <1>1 DEF PodEvents

\* Every step keeps the order of the events of a pod.
LEMMA PodEventsInductive ==
  ASSUME Core, PodEvents, [Next]_vars
  PROVE  PodEvents'
<1>0. BusOK /\ SyncTold /\ events \in Seq(Events) /\ pods \subseteq Workloads
      /\ BusOK' /\ pods' \subseteq Workloads
  BY CoreInductive DEF Core, BusOK, BusTypeOK
<1>1. ASSUME NEW x, x \in Events, events' = Append(events, x),
             \A w \in Workloads : w \in pods' => (w \in pods /\ x # Removal(w)) \/ x = Start(w),
             UNCHANGED handling
      PROVE  PodEvents'
  <2> SUFFICES ASSUME NEW w \in pods'
               PROVE  /\ \A j \in DOMAIN events' : events'[j] = Removal(w) =>
                           \E k \in DOMAIN events' : j < k /\ events'[k] = Start(w)
                      /\ ToldTo("logs", Removal(w)) => Waiting(Start(w))'
    BY <1>1 DEF PodEvents, ToldTo, Removal
  <2>1. w \in Workloads /\ Removal(w) # Start(w)
    BY <1>0 DEF Removal, Start
  <2>2. /\ DOMAIN events' = DOMAIN events \cup {Len(events) + 1}
        /\ DOMAIN events = 1..Len(events)
        /\ Len(events) \in Nat
        /\ events'[Len(events) + 1] = x /\ \A j \in DOMAIN events : events'[j] = events[j]
    BY <1>0, <1>1
  <2>3. CASE x = Start(w)
    <3>1. Waiting(Start(w))'
      BY <2>2, <2>3 DEF Waiting, Start
    <3>2. \A j \in DOMAIN events' : events'[j] = Removal(w) => j < Len(events) + 1
      BY <2>1, <2>2, <2>3
    <3> QED
      BY <2>2, <2>3, <3>1, <3>2
  <2>4. CASE w \in pods /\ x # Removal(w)
    <3>1. ToldTo("logs", Removal(w)) => Waiting(Start(w))'
      BY <1>0, <1>1, <2>4, WaitingAppend DEF PodEvents
    <3>2. ASSUME NEW j \in DOMAIN events', events'[j] = Removal(w)
          PROVE  \E k \in DOMAIN events' : j < k /\ events'[k] = Start(w)
      <4>1. j \in DOMAIN events /\ events[j] = Removal(w)
        BY <2>2, <2>4, <3>2
      <4> QED
        BY <2>2, <2>4, <4>1 DEF PodEvents
    <3> QED
      BY <3>1, <3>2
  <2> QED
    BY <1>1, <2>1, <2>3, <2>4
<1>2. CASE Bus
  <2>1. UNCHANGED pods
    BY <1>2, BusSteps DEF BusFoot
  <2>2. CASE TakeEvent
    <3> SUFFICES ASSUME NEW w \in pods
                 PROVE  /\ \A j \in DOMAIN events' : events'[j] = Removal(w) =>
                             \E k \in DOMAIN events' : j < k /\ events'[k] = Start(w)
                        /\ ToldTo("logs", Removal(w))' => Waiting(Start(w))'
      BY <2>1 DEF PodEvents, ToldTo, Waiting, Removal, Start
    <3>1. events # <<>> /\ events' = Tail(events) /\ handling = None
          /\ (UNCHANGED handling \/ handling'.event = Head(events) \/ handling' = None)
      BY <2>2 DEF TakeEvent, Tell
    <3>2. /\ Len(events) \in Nat \ {0} /\ DOMAIN events = 1..Len(events)
          /\ DOMAIN events' = 1..(Len(events) - 1) /\ Head(events) = events[1]
          /\ \A k \in 1..(Len(events) - 1) : events'[k] = events[k + 1]
      BY <1>0, <3>1
    <3>3. ASSUME NEW j \in DOMAIN events', events'[j] = Removal(w)
          PROVE  \E k \in DOMAIN events' : j < k /\ events'[k] = Start(w)
      <4>1. j + 1 \in DOMAIN events /\ events[j + 1] = Removal(w)
        BY <3>2, <3>3
      <4>2. PICK k \in DOMAIN events : j + 1 < k /\ events[k] = Start(w)
        BY <4>1 DEF PodEvents
      <4>3. k - 1 \in DOMAIN events' /\ j < k - 1 /\ events'[k - 1] = Start(w)
        BY <3>2, <3>3, <4>2
      <4> QED
        BY <4>3
    <3>4. ASSUME ToldTo("logs", Removal(w))' PROVE Waiting(Start(w))'
      <4>1. events[1] = Removal(w) /\ 1 \in DOMAIN events
        BY <3>1, <3>2, <3>4 DEF ToldTo, Removal
      <4>2. PICK k \in DOMAIN events : 1 < k /\ events[k] = Start(w)
        BY <4>1 DEF PodEvents
      <4>3. k - 1 \in DOMAIN events' /\ events'[k - 1] = Start(w)
        BY <3>2, <4>2
      <4> QED
        BY <4>3 DEF Waiting, Start
    <3> QED
      BY <3>3, <3>4
  <2>3. CASE Receive \/ Save
    BY <1>0, <2>1, <2>3, PodEventsKept DEF Receive, Save, eventVars, ToldTo, Removal
  <2>4. ASSUME NEW v \in Workloads, RestartPod(v) PROVE PodEvents'
    <3> SUFFICES ASSUME NEW w \in pods
                 PROVE  /\ \A j \in DOMAIN events' : events'[j] = Removal(w) =>
                             \E k \in DOMAIN events' : j < k /\ events'[k] = Start(w)
                        /\ ToldTo("logs", Removal(w))' => Waiting(Start(w))'
      BY <2>1 DEF PodEvents, ToldTo, Waiting, Removal, Start
    <3>1. /\ events' = events \o <<Removal(v), Start(v)>> /\ UNCHANGED handling
          /\ Removal(v) \in Events /\ Start(v) \in Events
      BY <2>4 DEF RestartPod, Removal, Start, Events
    <3>2. /\ DOMAIN events = 1..Len(events) /\ Len(events) \in Nat
          /\ DOMAIN events' = 1..(Len(events) + 2)
          /\ \A j \in DOMAIN events : events'[j] = events[j]
          /\ events'[Len(events) + 1] = Removal(v) /\ events'[Len(events) + 2] = Start(v)
      BY <1>0, <3>1
    <3>3. ToldTo("logs", Removal(w))' => Waiting(Start(w))'
      BY <1>0, <2>4, <3>1, WaitingRestart DEF PodEvents, ToldTo, Removal, Start
    <3>4. ASSUME NEW j \in DOMAIN events', events'[j] = Removal(w)
          PROVE  \E k \in DOMAIN events' : j < k /\ events'[k] = Start(w)
      <4>1. CASE j \in DOMAIN events
        BY <3>2, <3>4, <4>1 DEF PodEvents
      <4>2. CASE j = Len(events) + 1
        BY <3>2, <3>4, <4>2 DEF Removal, Start
      <4>3. CASE j = Len(events) + 2
        BY <3>2, <3>4, <4>3 DEF Removal, Start
      <4> QED
        BY <3>2, <4>1, <4>2, <4>3
    <3> QED
      BY <3>3, <3>4
  <2>5. ASSUME NEW v \in Workloads, TakeLate(v) PROVE PodEvents'
    <3>1. UNCHANGED <<events, pods>> /\ \A w \in Workloads : ~ToldTo("logs", Removal(w))'
      BY <2>5 DEF TakeLate, Tell, ToldTo, Removal, Observers
    <3> QED
      BY <1>0, <3>1, PodEventsKept
  <2> QED
    BY <1>2, <2>2, <2>3, <2>4, <2>5 DEF Bus
<1>3. CASE UpdateWorkloads
  <2>1. UNCHANGED handling
    BY <1>3, PodsSteps DEF PodsFoot
  <2>2. ASSUME NEW v \in Workloads, Started(v) PROVE PodEvents'
    BY <1>1, <2>1, <2>2 DEF Started, Start, Removal, Events
  <2>3. ASSUME NEW v \in Workloads, Removed(v) PROVE PodEvents'
    BY <1>1, <2>1, <2>3 DEF Removed, Start, Removal, Events
  <2>4. CASE UNCHANGED <<pods, events>>
    BY <1>0, <2>1, <2>4, PodEventsKept DEF ToldTo, Removal
  <2> QED
    BY <1>3, <2>2, <2>3, <2>4
       DEF UpdateWorkloads, UpdateWorkload, EndWorkloads, PruneWorkload, EndPrune, eventVars
<1>4. CASE LogsNext \/ TransferNext
  <2>1. /\ UNCHANGED <<pods, events>>
        /\ UNCHANGED handling \/ ToldBy("logs") \/ ToldBy("transfer")
    BY <1>0, <1>4, LogsSteps, TransferSteps DEF LogsFoot, TransferFoot
  <2>2. ToldBy("logs") \/ ToldBy("transfer") => \A w : ~ToldTo("logs", Removal(w))'
    BY <1>0, ToldTyped DEF ToldTo
  <2> QED
    BY <1>0, <2>1, <2>2, PodEventsKept DEF ToldTo, Removal
<1>5. CASE UpdateMounts \/ UNCHANGED vars
  <2>1. UNCHANGED <<pods, events, handling>>
    BY <1>5, MountsSteps DEF MountsFoot, vars, busVars, eventVars
  <2> QED
    BY <1>0, <2>1, PodEventsKept DEF ToldTo, Removal
<1> QED
  BY <1>2, <1>3, <1>4, <1>5 DEF Next

\* A workload whose transport was the same so far had the same one before.
LEMMA SteadyStays ==
  ASSUME Core, LogsTypes, [Next]_vars, NEW w \in Workloads, Steady(w)'
  PROVE  /\ Steady(w) /\ Target(w)' = Target(w)
         /\ Target(w) \in Wanted /\ Target(w) \in Names /\ Target(w) # None
         /\ w \in Conf.workloads /\ Conf.target[w] = Target(w)
<1>0. BusOK /\ SyncTold /\ TransportsOK /\ LogsTypes
  BY DEF Core, LogsTypes
<1>1. DOMAIN handed = 1..Len(handed) /\ Len(handed) \in Nat \ {0}
  BY <1>0, LastConfiguration
<1>2. \A k \in DOMAIN handed : k \in DOMAIN handed' /\ handed'[k] = handed[k]
  BY <1>0, HandedGrows
<1>3. LogsOf(Conf', w) = LogsOf(Conf, w) /\ LogsOf(Conf, w)[2] # None
      /\ \A k \in DOMAIN handed : LogsOf(handed[k], w) = LogsOf(Conf, w)
  <2>1. \A k \in DOMAIN handed' : LogsOf(handed'[k], w) = LogsOf(Conf', w)
    BY DEF Steady, LogsOf
  <2>2. LogsOf(Conf', w)[2] # None
    BY DEF Steady, LogsOf
  <2> QED
    BY <1>1, <1>2, <2>1, <2>2 DEF Conf
<1>4. /\ w \in Conf.workloads /\ Conf.target[w] # None /\ Conf.address[Conf.target[w]] # None
      /\ LogsOf(Conf, w) = <<Conf.target[w], Conf.address[Conf.target[w]]>>
      /\ LogsOf(Conf', w) = <<Conf'.target[w], Conf'.address[Conf'.target[w]]>>
  BY <1>3 DEF LogsOf
<1>5. Conf'.target[w] = Conf.target[w]
  BY <1>3, <1>4
<1>6. missed \subseteq missed'
  <2>1. LogsNext => missed \subseteq missed'
    <3>1. Line => UNCHANGED missed
      BY <1>0, LineSteps DEF transportVars
    <3>2. Dial => missed \subseteq missed'
      BY DEF Dial
    <3>3. SetWorkloadsConfig => missed \subseteq missed'
      BY <1>0 DEF SetWorkloadsConfig, TransportsOK
    <3>4. DeleteLeftovers \/ SetTransports \/ EndStreams \/ WorkloadStarted \/ WorkloadRemoved
             \/ ConcurrentMaps \/ (\E v \in Workloads : InitStream(v)) => UNCHANGED missed
      BY DEF DeleteLeftovers, SetTransports, EndStreams, WorkloadStarted, DeleteOld, ReadTarget,
             ReadTransport, SetWriter, StartWriter, WorkloadRemoved, ConcurrentMaps, InitStream,
             logsVars, transportVars
    <3> QED
      BY <3>1, <3>2, <3>3, <3>4 DEF LogsNext, UpdateLogs, Line
  <2> QED
    BY <2>1 DEF Next, vars, logsVars, transportVars
<1>7. Conf.target[w] \notin missed
  BY <1>5, <1>6 DEF Steady
<1>8. Conf.target[w] \in Names
  BY <1>0, <1>4, LastConfiguration, LogsAssumption DEF LogsAssumption
<1> QED
  BY <1>3, <1>4, <1>5, <1>7, <1>8 DEF Steady, Target, Wanted

\* Nobody but the logs goes on with their turn, or begins it but with a
\* configuration that is not the first.
LEMMA OthersTurn ==
  ASSUME Core, [Next]_vars, ~LogsNext
  PROVE  /\ Undialled => Undialled'
         /\ Untargeted => Untargeted'
         /\ turn = "streams" => turn' = "streams" /\ UNCHANGED todo
         /\ turn' \in {"leftovers", "transports"} => turn' = turn
<1>0. BusOK /\ SyncTold
  BY DEF Core
<1>1. turn \in Early => UNCHANGED <<turn, handed, todo>>
  BY <1>0, BusSteps, PodsSteps, MountsSteps, TransferSteps
     DEF BusFoot, PodsFoot, MountsFoot, TransferFoot, Next, vars, busVars, configVars, Early
<1>2. turn' \in {"leftovers", "transports"} => turn' = turn
  BY <1>0, BusSteps, PodsSteps, MountsSteps, TransferSteps
     DEF BusFoot, PodsFoot, MountsFoot, TransferFoot, Next, vars, busVars
<1> QED
  BY <1>1, <1>2 DEF Undialled, Untargeted, First, Early

\* No transport is known before the first configuration.
LEMMA SteadyTransportInitial == Init => SteadyTransport
  BY DEF Init, BusInit, SteadyTransport, First, Early, Undialled, Untargeted

\* Every step keeps the transport of a steady workload.
LEMMA SteadyTransportInductive ==
  ASSUME Core, LogsTypes, SteadyTransport, [Next]_vars
  PROVE  SteadyTransport'
<1>0. BusOK /\ SyncTold /\ TransportsOK /\ BuffersInv /\ LogsTypes
  BY DEF Core, LogsTypes
<1> SUFFICES ASSUME NEW w \in Workloads, Steady(w)', NEW n, n = Target(w)
             PROVE  /\ ~Untargeted' => workloadsConfig'[w] = n
                    /\ ~Undialled' => transports'[n] # None
                    /\ turn' \in {"leftovers", "transports"} => dialled'[n] # None
  <2>1. \A v \in Workloads : Steady(v)' => Target(v)' = Target(v)
    BY SteadyStays
  <2> QED
    BY <2>1 DEF SteadyTransport
<1>1. Steady(w) /\ n \in Wanted /\ n \in Names /\ n # None /\ w \in Conf.workloads
      /\ Conf.target[w] = n
  BY SteadyStays
<1>2. /\ ~Untargeted => workloadsConfig[w] = n
      /\ ~Undialled => transports[n] # None
      /\ turn \in {"leftovers", "transports"} => dialled[n] # None
  BY <1>1 DEF SteadyTransport
<1>3. CASE ~LogsNext
  <2>1. UNCHANGED <<workloadsConfig, transports, dialled>>
    BY <1>3 DEF Next, vars, logsVars, transportVars
  <2> QED
    BY <1>2, <1>3, <2>1, OthersTurn
<1>4. CASE LogsNext
  <2>1. LogsFoot /\ First' = First
    BY <1>4, LogsSteps DEF LogsFoot, First, configVars
  <2>2. CASE Dial
    <3>1. PICK reached \in SUBSET Wanted :
             /\ missed' = missed \cup (Wanted \ reached)
             /\ dialled' = [m \in Names |-> IF m \in reached THEN <<Len(handed), m>> ELSE None]
      BY <1>0, <2>2, Dialled
    <3>2. n \in reached
      <4>1. Conf'.target[w] = n /\ Conf'.target[w] \notin missed'
        BY SteadyStays DEF Steady, Target
      <4> QED
        BY <1>1, <3>1, <4>1
    <3>3. dialled'[n] # None
      BY <1>0, <1>1, <3>1, <3>2, LastConfiguration, LogsAssumption DEF LogsAssumption
    <3>4. UNCHANGED <<workloadsConfig, transports>> /\ turn = "dial" /\ turn' = "leftovers"
      BY <2>2 DEF Dial, Pass
    <3> QED
      BY <1>2, <2>1, <3>3, <3>4 DEF Untargeted, Undialled, Early
  <2>3. CASE DeleteLeftovers
    <3>1. /\ turn = "leftovers" /\ turn' = "transports"
          /\ UNCHANGED <<workloadsConfig, dialled>>
          /\ transports' = [m \in Names |-> IF m \in Leftovers THEN None ELSE transports[m]]
      BY <2>3 DEF DeleteLeftovers, Pass
    <3>2. n \notin Leftovers
      BY <1>2, <3>1 DEF Leftovers
    <3>3. transports'[n] = transports[n]
      BY <1>1, <3>1, <3>2
    <3> QED
      BY <1>2, <2>1, <3>1, <3>3 DEF Untargeted, Undialled, Early
  <2>4. CASE SetTransports
    <3>1. /\ turn = "transports" /\ turn' = "targets" /\ UNCHANGED workloadsConfig
          /\ transports' = dialled
      BY <2>4 DEF SetTransports, Pass
    <3> QED
      BY <1>2, <2>1, <3>1 DEF Untargeted, Undialled, Early
  <2>5. CASE SetWorkloadsConfig
    <3>1. /\ turn = "targets" /\ turn' \in {"streams", "pods"}
          /\ UNCHANGED <<transports, dialled>>
          /\ workloadsConfig'[w] = n
      BY <1>1, <2>5 DEF SetWorkloadsConfig, Pass
    <3> QED
      BY <1>2, <2>1, <3>1 DEF Untargeted, Undialled, Early
  <2>6. CASE Line \/ WorkloadStarted \/ WorkloadRemoved \/ ConcurrentMaps
             \/ (\E v \in Workloads : InitStream(v))
    <3>1. UNCHANGED <<turn, workloadsConfig, transports, dialled>>
      <4>1. Line => UNCHANGED <<turn, transportVars>>
        BY <1>0, LineSteps
      <4>2. WorkloadStarted \/ WorkloadRemoved \/ ConcurrentMaps
               \/ (\E v \in Workloads : InitStream(v)) => UNCHANGED <<turn, transportVars>>
        BY DEF WorkloadStarted, DeleteOld, ReadTarget, ReadTransport, SetWriter, StartWriter,
               WorkloadRemoved, ConcurrentMaps, InitStream, logsVars
      <4> QED
        BY <2>6, <4>1, <4>2 DEF transportVars
    <3> QED
      BY <1>2, <2>1, <3>1 DEF Untargeted, Undialled
  <2>7. CASE EndStreams
    <3>1. turn = "streams" /\ turn' = "pods"
            /\ UNCHANGED <<workloadsConfig, transports, dialled>>
      BY <2>7 DEF EndStreams, Pass, logsVars, transportVars
    <3> QED
      BY <1>2, <2>1, <3>1 DEF Untargeted, Undialled, Early
  <2> QED
    BY <1>4, <2>2, <2>3, <2>4, <2>5, <2>6, <2>7 DEF LogsNext, UpdateLogs, Line
<1> QED
  BY <1>3, <1>4

\* Whoever's step it is, but for the logs' own, they hear of a pod that started.
LEMMA StartsKept ==
  ASSUME Core, [Next]_vars, ~LogsNext, NEW w \in Workloads, w \in pods',
         w \in pods => Waiting(Start(w)) \/ ToldTo("logs", Start(w))
  PROVE  Waiting(Start(w))' \/ ToldTo("logs", Start(w))'
<1>0. BusOK /\ SyncTold
  BY DEF Core
<1>1. CASE UNCHANGED <<pods, events, handling>>
  BY <1>1 DEF Waiting, ToldTo, Start
<1>2. CASE Bus
  <2>1. UNCHANGED pods
    BY <1>2, BusSteps DEF BusFoot
  <2>2. CASE TakeEvent
    <3>1. /\ handling = None /\ events # <<>> /\ events' = Tail(events)
          /\ (Head(events).kind = "started" /\ Head(events).name \notin pods)
               \/ Tell(Head(events))
      BY <2>2 DEF TakeEvent
    <3>2. Waiting(Start(w))
      BY <2>1, <3>1 DEF ToldTo
    <3>3. CASE Head(events) = Start(w)
      <4>1. Start(w) \in Events /\ Tell(Start(w))
        BY <2>1, <3>1, <3>3 DEF Start, Events
      <4> QED
        BY <1>0, <2>2, <4>1, TakenToLogs DEF Start, ToldTo
    <3> QED
      BY <1>0, <3>1, <3>2, <3>3, WaitingTail DEF Start
  <2>3. CASE Receive \/ Save
    BY <1>1, <2>1, <2>3 DEF Receive, Save, eventVars
  <2>4. ASSUME NEW v \in Workloads, RestartPod(v)
        PROVE  Waiting(Start(w))' \/ ToldTo("logs", Start(w))'
    <3>1. UNCHANGED handling
      BY <2>4 DEF RestartPod
    <3> QED
      BY <1>0, <2>1, <2>4, <3>1, WaitingRestart DEF ToldTo, Start
  <2>5. ASSUME NEW v \in Workloads, TakeLate(v)
        PROVE  Waiting(Start(w))' \/ ToldTo("logs", Start(w))'
    <3>1. handling = None /\ UNCHANGED events
      BY <2>5 DEF TakeLate
    <3> QED
      BY <2>1, <3>1 DEF ToldTo, Waiting, Start
  <2> QED
    BY <1>2, <2>2, <2>3, <2>4, <2>5 DEF Bus
<1>3. CASE UpdateWorkloads
  <2>1. UNCHANGED handling
    BY <1>3, PodsSteps DEF PodsFoot
  <2>2. ASSUME NEW v \in Workloads, Started(v)
        PROVE  Waiting(Start(w))' \/ ToldTo("logs", Start(w))'
    <3>1. events' = Append(events, Start(v)) /\ Start(v) \in Events /\ pods' = pods \cup {v}
      BY <2>2 DEF Started, Start, Events
    <3> QED
      BY <1>0, <2>1, <3>1, WaitingAppend DEF ToldTo, Start
  <2>3. ASSUME NEW v \in Workloads, Removed(v)
        PROVE  Waiting(Start(w))' \/ ToldTo("logs", Start(w))'
    <3>1. events' = Append(events, Removal(v)) /\ Removal(v) \in Events /\ w \in pods
      BY <2>3 DEF Removed, Removal, Events
    <3> QED
      BY <1>0, <2>1, <3>1, WaitingAppend DEF ToldTo, Start
  <2> QED
    BY <1>1, <1>3, <2>1, <2>2, <2>3
       DEF UpdateWorkloads, UpdateWorkload, EndWorkloads, PruneWorkload, EndPrune, eventVars
<1>4. CASE UpdateMounts \/ UNCHANGED vars
  BY <1>1, <1>4, MountsSteps DEF MountsFoot, vars, busVars, eventVars
<1>5. CASE TransferNext
  <2>1. TransferFoot
    BY <1>0, <1>5, TransferSteps
  <2>2. UNCHANGED handling \/ Head(handling.observers) = "transfer"
    BY <2>1 DEF TransferFoot, ToldBy
  <2> QED
    BY <2>1, <2>2 DEF TransferFoot, ToldTo, Waiting, Start
<1> QED
  BY <1>2, <1>3, <1>4, <1>5 DEF Next

\* No workload has logs before the first configuration.
LEMMA SteadyWriterInitial == Init => SteadyWriter
<1> SUFFICES ASSUME Init, NEW w \in Workloads
             PROVE  \A n : StartTold(w, n) /\ WriterTo(w, n) /\ Awaited(w)
  BY DEF SteadyWriter
<1>1. Untargeted /\ handling = None /\ wwriter[w] = None
  BY DEF Init, BusInit, LogsInit, Untargeted, First, Early
<1> QED
  BY <1>1 DEF StartTold, WriterTo, Awaited

\* The steps of the other components keep the writer of a steady workload.
LEMMA SteadyByOthers ==
  ASSUME Core, LogsTypes, [Next]_vars, ~LogsNext, NEW w \in Workloads, NEW n,
         StartTold(w, n), WriterTo(w, n), Awaited(w)
  PROVE  StartTold(w, n)' /\ WriterTo(w, n)' /\ Awaited(w)'
<1>0. WritersOK
  BY DEF LogsTypes
<1>1. UNCHANGED <<writers, wwriter, found>>
  BY DEF Next, vars, logsVars, writerVars
<1>2. found.step # "delete" => UNCHANGED handling
  BY <1>0, EventKept
<1>3. StartTold(w, n)'
  BY <1>1, <1>2 DEF StartTold, Name
<1>4. WriterTo(w, n)'
  BY <1>1 DEF WriterTo
<1>5. Awaited(w)'
  <2> SUFFICES ASSUME w \in pods' PROVE Awaited(w)'
    BY DEF Awaited
  <2>1. CASE w \in pods => Waiting(Start(w)) \/ ToldTo("logs", Start(w))
    BY <2>1, StartsKept DEF Awaited
  <2>2. CASE wwriter[w] # None
    BY <1>1, <2>2 DEF Awaited
  <2>3. CASE Untargeted
    <3>1. Untargeted'
      BY <2>3, OthersTurn
    <3> QED
      BY <3>1 DEF Awaited
  <2>4. CASE turn = "streams" /\ w \in todo
    BY <2>4, OthersTurn DEF Awaited
  <2> QED
    BY <2>1, <2>2, <2>3, <2>4 DEF Awaited
<1> QED
  BY <1>3, <1>4, <1>5

\* A step of the logs leaves pods and events alone.
LEMMA TurnOfLogs ==
  ASSUME Core, LogsNext
  PROVE  /\ UNCHANGED <<pods, events>> /\ First' = First
         /\ \A e : Waiting(e)' <=> Waiting(e)
         /\ UNCHANGED handling =>
              Name' = Name /\ \A o, e : ToldTo(o, e)' <=> ToldTo(o, e)
  BY LogsSteps DEF LogsFoot, First, configVars, Waiting, ToldTo, Name

\* A step that keeps every writer its transport, and the map.
LEMMA SteadyStill ==
  ASSUME Core, LogsTypes, LogsNext, NEW w \in Workloads, NEW n,
         StartTold(w, n), WriterTo(w, n), Awaited(w),
         UNCHANGED <<wwriter, found, handling>>, SameWriters,
         w \in pods /\ Untargeted => Untargeted' \/ (turn' = "streams" /\ w \in todo'),
         turn = "streams" /\ w \in todo => turn' = "streams" /\ w \in todo'
  PROVE  StartTold(w, n)' /\ WriterTo(w, n)' /\ Awaited(w)'
<1>0. WritersOK
  BY DEF LogsTypes
<1>1. /\ UNCHANGED pods /\ Name' = Name /\ (Waiting(Start(w))' <=> Waiting(Start(w)))
      /\ (ToldTo("logs", Start(w))' <=> ToldTo("logs", Start(w)))
  BY TurnOfLogs DEF Start
<1>2. StartTold(w, n)'
  BY <1>1 DEF StartTold
<1>3. WriterTo(w, n)'
  BY <1>0 DEF WriterTo, WritersOK, SameWriters
<1>4. Awaited(w)'
  BY <1>1 DEF Awaited
<1> QED
  BY <1>2, <1>3, <1>4

\* A step of WorkloadStarted or WorkloadRemoved, of another workload's pod.
LEMMA SteadyBeside ==
  ASSUME Core, LogsTypes, LogsNext, NEW w \in Workloads, NEW n,
         StartTold(w, n), WriterTo(w, n), Awaited(w),
         handling # None, Name # w, Name' # w \/ handling' = None,
         wwriter'[w] = wwriter[w], UNCHANGED <<turn, todo>>,
         \A i \in DOMAIN writers : writers'[i].transport = writers[i].transport
  PROVE  StartTold(w, n)' /\ WriterTo(w, n)' /\ Awaited(w)'
<1>0. WritersOK
  BY DEF LogsTypes
<1>1. /\ UNCHANGED pods /\ First' = First /\ (Waiting(Start(w))' <=> Waiting(Start(w)))
  BY TurnOfLogs DEF Start
<1>2. ~ToldTo("logs", Start(w))
  BY DEF ToldTo, Start, Name
<1>3. WriterTo(w, n)'
  BY <1>0 DEF WriterTo, WritersOK
<1>4. Awaited(w)'
  <2>1. Untargeted' = Untargeted
    BY <1>1 DEF Untargeted
  <2> QED
    BY <1>1, <1>2, <2>1 DEF Awaited
<1> QED
  BY <1>3, <1>4 DEF StartTold

\* So do the steps of the logs themselves, which may make it.
LEMMA SteadyByLogs ==
  ASSUME Core, LogsTypes, PodEvents, [Next]_vars, LogsNext, NEW w \in Workloads, NEW n,
         n # None, ~Untargeted => workloadsConfig[w] = n, ~Undialled => transports[n] # None,
         turn \in {"leftovers", "transports"} => dialled[n] # None,
         n \notin missed', n \in Names,
         StartTold(w, n), WriterTo(w, n), Awaited(w)
  PROVE  StartTold(w, n)' /\ WriterTo(w, n)' /\ Awaited(w)'
<1>0. BusOK /\ WritersOK /\ TransportsOK /\ DOMAIN wwriter = Workloads
  BY DEF Core, LogsTypes, WritersOK
<1>1. UNCHANGED <<pods, events>> /\ First' = First
  BY TurnOfLogs
<1>2. CASE Dial \/ SetTransports \/ EndStreams \/ ConcurrentMaps
  <2>1. UNCHANGED <<writers, wwriter, found, handling>> /\ SameWriters
    BY <1>2 DEF Dial, SetTransports, EndStreams, ConcurrentMaps, writerVars,
                eventVars, logsVars, SameWriters
  <2>2. Untargeted => Untargeted'
    BY <1>1, <1>2 DEF Dial, SetTransports, EndStreams, ConcurrentMaps, Pass, Untargeted, Early
  <2>3. turn = "streams" /\ w \in todo => turn' = "streams" /\ w \in todo'
    BY <1>2 DEF Dial, SetTransports, EndStreams, ConcurrentMaps, Pass
  <2> QED
    BY <2>1, <2>2, <2>3, SteadyStill
<1>3. CASE SetWorkloadsConfig
  <2>1. UNCHANGED <<writers, wwriter, found, handling>> /\ SameWriters /\ turn = "targets"
    BY <1>3 DEF SetWorkloadsConfig, writerVars, eventVars, SameWriters
  <2>2. Untargeted /\ w \in pods => turn' = "streams" /\ w \in todo'
    <3>1. Untargeted => proc # "up"
      BY <1>0 DEF Untargeted, BusOK
    <3> QED
      BY <1>3, <3>1 DEF SetWorkloadsConfig, Pass
  <2> QED
    BY <2>1, <2>2, SteadyStill
<1>4. CASE Line
  <2>1. UNCHANGED <<found, wwriter, handling, turn>>
    BY <1>4, LineSteps
  <2>2. UNCHANGED todo
    BY <1>4 DEF Line, WriteLine, SendLine, ReadLine, WriteLog, BreakConnection, busVars
  <2>3. SameWriters
    <3>1. UNCHANGED writers
            \/ \E i \in DOMAIN writers : writers' = [writers EXCEPT ![i].state = "gone"]
      BY <1>4 DEF Line, WriteLine, SendLine, ReadLine, WriteLog, BreakConnection, writerVars
    <3> QED
      BY <1>0, <3>1, StateWriter DEF SameWriters, States
  <2> QED
    BY <1>1, <2>1, <2>2, <2>3, SteadyStill DEF Untargeted
<1>5. CASE DeleteLeftovers
  <2> DEFINE toDelete == {v \in Workloads :
                            wwriter[v] # None /\ writers[wwriter[v]].transport[2] \in Leftovers}
  <2>1. /\ writers' = Stop({wwriter[v] : v \in toDelete})
        /\ wwriter' = [v \in Workloads |-> IF v \in toDelete THEN None ELSE wwriter[v]]
        /\ \A v \in toDelete :
             wwriter[v] # None /\ writers[wwriter[v]].transport[2] \in Leftovers
    BY <1>5 DEF DeleteLeftovers
  <2> HIDE DEF toDelete
  <2>2. UNCHANGED <<found, handling>> /\ turn = "leftovers" /\ turn' = "transports"
    BY <1>5 DEF DeleteLeftovers, eventVars, Pass
  <2>3. w \notin toDelete
    BY <2>1, <2>2 DEF WriterTo, Leftovers
  <2>4. wwriter'[w] = wwriter[w]
    BY <2>1, <2>3
  <2>5. SameWriters
    BY <1>0, <2>1, StopWriters
  <2>6. /\ Name' = Name /\ (Waiting(Start(w))' <=> Waiting(Start(w)))
        /\ (ToldTo("logs", Start(w))' <=> ToldTo("logs", Start(w)))
    BY <2>2, TurnOfLogs DEF Start
  <2>7. StartTold(w, n)'
    BY <2>2, <2>4, <2>6 DEF StartTold
  <2>8. WriterTo(w, n)'
    BY <1>0, <2>4, <2>5 DEF WriterTo, WritersOK, SameWriters
  <2>9. Awaited(w)'
    <3>1. Untargeted => Untargeted'
      BY <1>1, <2>2 DEF Untargeted, Early
    <3> QED
      BY <1>1, <2>2, <2>4, <2>6, <3>1 DEF Awaited
  <2> QED
    BY <2>7, <2>8, <2>9
<1>6. ASSUME NEW v \in Workloads, InitStream(v)
      PROVE  StartTold(w, n)' /\ WriterTo(w, n)' /\ Awaited(w)'
  <2>1. /\ UNCHANGED <<found, handling, turn>> /\ turn = "streams" /\ todo' = todo \ {v}
        /\ handling = None
    BY <1>0, <1>6 DEF InitStream, eventVars, BusOK, Early
  <2>2. ~Untargeted /\ ~Undialled
    BY <2>1 DEF Untargeted, Undialled
  <2>3. StartTold(w, n)'
    BY <2>1 DEF StartTold
  <2>4. Waiting(Start(w))' <=> Waiting(Start(w))
    BY TurnOfLogs
  <2>5. CASE UNCHANGED writerVars /\ v # w
    <3>1. UNCHANGED <<writers, wwriter>>
      BY <2>5 DEF writerVars
    <3> QED
      BY <1>1, <2>1, <2>2, <2>3, <2>4, <2>5, <3>1 DEF WriterTo, Awaited, ToldTo
  <2>6. ASSUME NEW t \in DOMAIN buffers, NEW s \in {"live", "failed"}, v = w => t[2] = n,
               writers' = Append(writers, NewWriter(v, t, s)),
               wwriter' = [wwriter EXCEPT ![v] = Len(writers')]
        PROVE  StartTold(w, n)' /\ WriterTo(w, n)' /\ Awaited(w)'
    <3>1. NewWriter(v, t, s) \in WriterType /\ NewWriter(v, t, s).transport = t
      BY DEF NewWriter, WriterType, States
    <3>2. /\ Len(writers') = Len(writers) + 1
          /\ \A i \in DOMAIN writers : writers'[i] = writers[i]
          /\ writers'[Len(writers')] = NewWriter(v, t, s)
      BY <1>0, <2>6, <3>1, AppendWriter
    <3>3. Len(writers') # None
      BY <1>0, <3>2, WritersTyped, LogsAssumption DEF LogsAssumption
    <3>4. CASE v = w
      <4>1. wwriter'[w] = Len(writers')
        BY <1>0, <2>6, <3>4
      <4> QED
        BY <2>3, <2>6, <3>1, <3>2, <3>3, <3>4, <4>1 DEF WriterTo, Awaited
    <3>5. CASE v # w
      <4>1. wwriter'[w] = wwriter[w]
        BY <1>0, <2>6, <3>5
      <4>2. WriterTo(w, n)'
        BY <1>0, <3>2, <4>1 DEF WriterTo, WritersOK
      <4>3. Awaited(w)'
        BY <1>1, <2>1, <2>2, <2>4, <3>5, <4>1 DEF Awaited, ToldTo
      <4> QED
        BY <2>3, <4>2, <4>3
    <3> QED
      BY <3>4, <3>5
  <2>7. ASSUME NEW t, t # None,
               t = (IF workloadsConfig[v] = None THEN None
                    ELSE transports[workloadsConfig[v]])
        PROVE  t \in DOMAIN buffers /\ (v = w => t[2] = n)
    BY <1>0, <2>2, <2>7 DEF TransportsOK
  <2>8. v = w => workloadsConfig[v] # None /\ transports[workloadsConfig[v]] # None
    BY <2>2
  <2> QED
    BY <1>6, <2>5, <2>6, <2>7, <2>8 DEF InitStream
<1>7. CASE WorkloadRemoved \/ WorkloadStarted
  <2>0. /\ handling # None /\ Name \in Workloads /\ UNCHANGED <<turn, todo>>
        /\ ~Untargeted /\ ~Undialled /\ turn # "streams"
        /\ handling \in Tellings /\ Head(handling.observers) = "logs"
    <3>1. /\ handling # None /\ UNCHANGED <<turn, todo>> /\ Head(handling.observers) = "logs"
      BY <1>7 DEF WorkloadRemoved, WorkloadStarted, DeleteOld, ReadTarget, ReadTransport,
                  SetWriter, StartWriter, Telling
    <3>2. handling \in Tellings /\ ~(First /\ turn \in Early) /\ (turn = "streams" => First)
      BY <1>0, <3>1 DEF BusOK, BusTypeOK
    <3> QED
      BY <3>1, <3>2 DEF Tellings, Events, Name, Untargeted, Undialled, Early
  <2>1. ~Untargeted' /\ turn' # "streams" /\ (Waiting(Start(w))' <=> Waiting(Start(w)))
    BY <1>1, <2>0, TurnOfLogs DEF Untargeted
  <2>2. UNCHANGED handling \/ ToldBy("logs")
    BY LogsSteps DEF LogsFoot
  <2>3. handling' # None => Name' = Name
    BY <1>0, <2>2, ToldTyped DEF Name
  <2>4. CASE Name # w
    <3>1. wwriter'[w] = wwriter[w]
      BY <1>0, <1>7, <2>0, <2>4
         DEF WorkloadRemoved, WorkloadStarted, DeleteOld, ReadTarget, ReadTransport, SetWriter,
             StartWriter, writerVars, DeleteWorkload
    <3>2. \A i \in DOMAIN writers : writers'[i].transport = writers[i].transport
      <4>1. CASE WorkloadRemoved \/ DeleteOld
        BY <1>0, <4>1, StopWriters DEF WorkloadRemoved, DeleteOld, DeleteWorkload, SameWriters
      <4>2. CASE ReadTarget \/ ReadTransport
        BY <4>2 DEF ReadTarget, ReadTransport, writerVars
      <4>3. CASE SetWriter
        <5>1. NewWriter(Name, found.transport, "set") \in WriterType
          BY <1>0, <2>0, <4>3 DEF SetWriter, WritersOK, NewWriter, WriterType, States
        <5> QED
          BY <1>0, <4>3, <5>1, AppendWriter DEF SetWriter
      <4>4. CASE StartWriter
        <5>1. \E s \in {"live", "leaked", "failed"} :
                writers' = [writers EXCEPT ![Len(writers)].state = s]
          BY <4>4 DEF StartWriter
        <5>2. Len(writers) \in DOMAIN writers /\ {"live", "leaked", "failed"} \subseteq States
          BY <1>0, <4>4, WritersTyped, EmptySeq DEF StartWriter, WritersOK, States
        <5> QED
          BY <1>0, <5>1, <5>2, StateWriter DEF SameWriters
      <4> QED
        BY <1>7, <4>1, <4>2, <4>3, <4>4 DEF WorkloadStarted
    <3> QED
      BY <2>0, <2>3, <2>4, <3>1, <3>2, SteadyBeside
  <2>5. CASE Name = w /\ WorkloadRemoved
    <3>1. ToldTo("logs", Removal(w))
      BY <2>0, <2>5 DEF WorkloadRemoved, Telling, ToldTo, Removal, Name, Tellings, Events
    <3>2. w \in pods' => Waiting(Start(w))'
      BY <1>1, <2>1, <3>1 DEF PodEvents
    <3>3. wwriter'[w] = None /\ found'.step = "delete"
      BY <1>0, <2>5, <3>1 DEF WorkloadRemoved, DeleteWorkload, WritersOK, ToldTo, Removal, Start
    <3> QED
      BY <3>2, <3>3 DEF StartTold, WriterTo, Awaited
  <2>6. CASE Name = w /\ (DeleteOld \/ ReadTarget \/ ReadTransport \/ SetWriter)
    <3>1. UNCHANGED handling
      <4>1. workloadsConfig[w] = n /\ n # None /\ transports[n] # None
        BY <2>0
      <4>2. found.step = "transport" => found.transport = n
        BY <2>0, <2>6 DEF StartTold
      <4> QED
        BY <2>6, <4>1, <4>2 DEF DeleteOld, ReadTarget, ReadTransport, SetWriter, Goes
    <3>2. ToldTo("logs", Start(w))' /\ Name' = Name
      <4>1. Telling("logs", "started")
        BY <2>6 DEF DeleteOld, ReadTarget, ReadTransport, SetWriter
      <4> QED
        BY <1>0, <2>6, <3>1, <4>1, StartedEvent DEF ToldTo, Start
    <3>3. Awaited(w)'
      BY <3>2 DEF Awaited
    <3>4. CASE DeleteOld
      BY <1>0, <2>6, <3>3, <3>4
         DEF DeleteOld, DeleteWorkload, Goes, WritersOK, StartTold, WriterTo
    <3>5. CASE ReadTarget
      <4>1. found'.step = "transport" /\ found'.transport = n
        BY <2>0, <2>6, <3>5 DEF ReadTarget
      <4> QED
        BY <3>3, <3>5, <4>1 DEF ReadTarget, writerVars, StartTold, WriterTo
    <3>6. CASE ReadTransport
      <4>1. found.transport = n /\ transports[n] # None
        BY <2>0, <2>6, <3>6 DEF ReadTransport, StartTold
      <4>2. found'.step = "set" /\ found'.transport = transports[n]
        BY <3>6, <4>1 DEF ReadTransport
      <4>3. found'.transport[2] = n
        BY <1>0, <4>1, <4>2 DEF TransportsOK
      <4> QED
        BY <3>3, <3>6, <4>2, <4>3 DEF ReadTransport, writerVars, StartTold, WriterTo
    <3>7. CASE SetWriter
      <4>1. /\ found.step = "set" /\ found.transport[2] = n
            /\ writers' = Append(writers, NewWriter(w, found.transport, "set"))
            /\ wwriter' = [wwriter EXCEPT ![w] = Len(writers')]
            /\ found'.step = "start"
        BY <1>0, <2>0, <2>6, <3>7 DEF SetWriter, Goes, StartTold, WritersOK
      <4>2. NewWriter(w, found.transport, "set") \in WriterType
            /\ NewWriter(w, found.transport, "set").transport = found.transport
        BY <1>0, <4>1 DEF NewWriter, WriterType, States, WritersOK
      <4>3. /\ writers'[Len(writers')] = NewWriter(w, found.transport, "set")
            /\ Len(writers') = Len(writers) + 1
        BY <1>0, <4>1, <4>2, AppendWriter
      <4>4. wwriter'[w] = Len(writers') /\ Len(writers') # None
        BY <1>0, <4>1, <4>3, WritersTyped, LogsAssumption DEF LogsAssumption
      <4> QED
        BY <3>3, <4>1, <4>2, <4>3, <4>4 DEF StartTold, WriterTo
    <3> QED
      BY <2>6, <3>4, <3>5, <3>6, <3>7
  <2>7. CASE Name = w /\ StartWriter
    <3>1. wwriter'[w] = wwriter[w] /\ wwriter[w] # None /\ found'.step = "delete"
      BY <2>0, <2>7 DEF StartWriter, Returns, Nowhere, StartTold
    <3>2. \E s \in {"live", "leaked", "failed"} :
            writers' = [writers EXCEPT ![Len(writers)].state = s]
      BY <2>7 DEF StartWriter
    <3>3. Len(writers) \in DOMAIN writers /\ {"live", "leaked", "failed"} \subseteq States
      BY <1>0, <2>7, WritersTyped, EmptySeq DEF StartWriter, WritersOK, States
    <3>4. SameWriters
      BY <1>0, <3>2, <3>3, StateWriter
    <3> QED
      BY <1>0, <3>1, <3>4 DEF StartTold, WriterTo, Awaited, SameWriters, WritersOK
  <2> QED
    BY <1>7, <2>4, <2>5, <2>6, <2>7 DEF WorkloadStarted
<1> QED
  BY <1>2, <1>3, <1>4, <1>5, <1>6, <1>7 DEF LogsNext, UpdateLogs, Line

\* Every step keeps the writer of a steady workload.
LEMMA SteadyWriterInductive ==
  ASSUME Core, LogsTypes, PodEvents, SteadyTransport, SteadyWriter, [Next]_vars
  PROVE  SteadyWriter'
<1> SUFFICES ASSUME NEW w \in Workloads, Steady(w)', NEW n, n = Target(w)
             PROVE  StartTold(w, n)' /\ WriterTo(w, n)' /\ Awaited(w)'
  <2>1. \A v \in Workloads : Steady(v)' => Target(v)' = Target(v)
    BY SteadyStays
  <2> QED
    BY <2>1 DEF SteadyWriter
<1>1. Steady(w) /\ n \in Names /\ n # None /\ Target(w)' = n
  BY SteadyStays
<1>2. n \notin missed'
  BY <1>1 DEF Steady, Target
<1>3. StartTold(w, n) /\ WriterTo(w, n) /\ Awaited(w)
  BY <1>1 DEF SteadyWriter
<1>4. /\ ~Untargeted => workloadsConfig[w] = n
      /\ ~Undialled => transports[n] # None
      /\ turn \in {"leftovers", "transports"} => dialled[n] # None
  BY <1>1 DEF SteadyTransport
<1> QED
  BY <1>1, <1>2, <1>3, <1>4, SteadyByOthers, SteadyByLogs

\* At rest no start is under way, so the writer of a pod runs or has failed.
LEMMA LoggedHold ==
  ASSUME Core, LogsTypes, StreamsInv, SteadyWriter
  PROVE  RunningLogged
<1> SUFFICES ASSUME AtRest, NEW w \in pods, Steady(w)
             PROVE  /\ wwriter[w] # None
                    /\ writers[wwriter[w]].state \in {"live", "failed"}
                    /\ LET t == writers[wwriter[w]].transport
                       IN  <<t[2], handed[t[1]].address[t[2]]>> = LogsOf(Conf, w)
  BY DEF RunningLogged, Steady
<1>0. BusOK /\ BuffersInv /\ WritersOK
  BY DEF Core, LogsTypes
<1>1. w \in Workloads /\ handling = None /\ ~Waiting(Start(w)) /\ turn = "idle"
  BY <1>0, EmptySeq DEF BusOK, BusTypeOK, AtRest, Waiting
<1>2. WriterTo(w, Target(w)) /\ Awaited(w)
  BY <1>1 DEF SteadyWriter
<1>3. wwriter[w] # None
  BY <1>1, <1>2 DEF Awaited, ToldTo, Untargeted, Early
<1>4. writers[wwriter[w]].state \in {"live", "failed"}
  BY <1>0, <1>1, <1>3 DEF StreamsInv, CurrentInv, WritersOK
<1> DEFINE t == writers[wwriter[w]].transport
<1>5. t \in DOMAIN buffers
  BY <1>0, <1>1, <1>3, WritersTyped DEF WritersOK
<1>6. t[1] \in DOMAIN handed /\ t[2] = Target(w)
  BY <1>0, <1>2, <1>3, <1>5 DEF BuffersInv, WriterTo
<1> HIDE DEF t
<1>7. LogsOf(handed[t[1]], w) = LogsOf(Conf, w) /\ LogsOf(Conf, w)[2] # None
  BY <1>6 DEF Steady
<1>8. <<t[2], handed[t[1]].address[t[2]]>> = LogsOf(Conf, w)
  BY <1>6, <1>7 DEF LogsOf, Target
<1> QED
  BY <1>3, <1>4, <1>8 DEF t

-----------------------------------------------------------------------------
(* The theorems *)

Logged == PodEvents /\ SteadyTransport /\ SteadyWriter

ObserversInv ==
  /\ Core /\ MountsInv /\ RemovalsInv
  /\ LogsTypes /\ LinesInv /\ StreamsInv /\ Logged

\* The whole invariant holds at the start,
LEMMA ObserversInitial == Init => ObserversInv
  BY BusInitial, SyncInitial, MountsInitial, RemovalsInitial,
     LogsTypesInitial, StreamsInitial, PodEventsInitial, SteadyTransportInitial,
     SteadyWriterInitial
     DEF ObserversInv, Core, Logged

\* and every step keeps it.
LEMMA ObserversInductive == ObserversInv /\ [Next]_vars => ObserversInv'
<1> SUFFICES ASSUME ObserversInv, [Next]_vars PROVE ObserversInv'
  OBVIOUS
<1>0. Core /\ MountsInv /\ RemovalsInv /\ LogsTypes /\ LinesInv /\ StreamsInv
      /\ PodEvents /\ SteadyTransport /\ SteadyWriter
  BY DEF ObserversInv, Logged
<1>1. Core' /\ MountsInv' /\ RemovalsInv'
  BY <1>0, CoreInductive, MountsInductive, RemovalsInductive
<1>2. LogsTypes' /\ LinesInv' /\ StreamsInv'
  BY <1>0, LogsTypesInductive, LinesInductive, StreamsInductive
<1>3. PodEvents' /\ SteadyTransport' /\ SteadyWriter'
  BY <1>0, PodEventsInductive, SteadyTransportInductive, SteadyWriterInductive
<1> QED
  BY <1>1, <1>2, <1>3 DEF ObserversInv, Logged

\* In every behaviour of the goroutines the invariant holds.
THEOREM ObserversInvariant == Spec => []ObserversInv
<1>1. Init => ObserversInv
  BY ObserversInitial
<1>2. ObserversInv /\ [Next]_vars => ObserversInv'
  BY ObserversInductive
<1> QED
  BY <1>1, <1>2, PTL DEF Spec

\* The variables of the bus, of the logs, of the mounts and of the monitor have
\* their types, for every script, number of workloads and size of the buffers.
THEOREM ObserversTypeCorrect == Spec => []TypeOK
<1>1. ObserversInv => TypeOK
  <2> SUFFICES ASSUME ObserversInv PROVE TypeOK
    OBVIOUS
  <2>0. BusOK /\ SyncOK /\ MountsInv /\ LogsTypes /\ LinesInv /\ WritersOK /\ TransportsOK
          /\ BuffersInv
    BY DEF ObserversInv, Core, LogsTypes
  <2>1. BusTypeOK /\ MountTypeOK /\ TransferTypeOK
    BY <2>0 DEF BusOK, MountsInv, SyncOK
  <2>2. \A b \in DOMAIN buffers : buffers[b].sending \in 0..lines
          /\ buffers[b].data \in Seq(1..lines)
    BY <2>0 DEF BuffersInv, BufferType
  <2>3. \A i \in DOMAIN writers : writers[i].transport \in DOMAIN buffers
          /\ writers[i].state \in States
    BY <2>0, WritersTyped
  <2>4. LogsTypeOK
    BY <2>0, <2>2, <2>3
       DEF LogsTypeOK, TransportsOK, WritersOK, BuffersInv, LinesInv, States
  <2> QED
    BY <2>1, <2>4 DEF TypeOK
<1> QED
  BY <1>1, ObserversInvariant, PTL

\* An Update of the mounts in which nothing failed ends with every configured
\* device on top of its place, for every list of mounts, whatever is mounted and
\* whatever GetMounts can read of it.  (mount.Manager.Update)
THEOREM DevicesAsConfigured == Spec => []MountedAsConfigured
<1>1. ObserversInv => MountedAsConfigured
  BY DEF ObserversInv, MountsInv, AsConfigured, MountedAsConfigured
<1> QED
  BY <1>1, ObserversInvariant, PTL

\* Nothing is mounted over a mount on a place that has one name and is listed by
\* it, for every list of mounts, whatever fails.  (mount.Manager.Update)
THEOREM NoneMountedOver == Spec => NothingMountedOver
<1>1. ObserversInv /\ [Next]_vars => [KeptDepth]_mountVars
  <2> SUFFICES ASSUME Core, MountsInv, [Next]_vars, NEW p \in Clear, mounts[p] # <<>>
               PROVE  Len(mounts'[p]) <= Len(mounts[p])
    BY DEF ObserversInv, KeptDepth
  <2>1. mounts[p] \in Seq(Devices) /\ Len(mounts[p]) \in Nat
    BY DEF MountsInv, MountTypeOK, Clear
  <2>2. CASE UNCHANGED mounts
    BY <2>1, <2>2
  <2>3. CASE UpdateMounts
    <3>1. CASE GetMounts \/ SkipMount \/ EndMounts
      BY <2>2, <3>1 DEF GetMounts, SkipMount, EndMounts
    <3>2. CASE Mount
      <4>1. p \in Places
        BY DEF Clear
      <4> QED
        BY <3>2, <4>1, MountGrows
    <3> QED
      BY <2>3, <3>1, <3>2 DEF UpdateMounts
  <2> QED
    BY <2>2, <2>3 DEF Next, Bus, UpdateWorkloads, mountVars, vars
<1> QED
  BY <1>1, ObserversInvariant, PTL DEF NothingMountedOver, Spec

\* At rest the monitor reports no time of a workload whose pod is gone, for every
\* number of workloads and of events that wait.  (WorkloadRemoved)
THEOREM RemovedNotReported == Spec => []RemovedForgotten
<1>1. ObserversInv => RemovedForgotten
  <2> SUFFICES ASSUME ObserversInv, AtRest, NEW w \in Workloads, w \notin pods,
                      lastSync[w] = "kept"
               PROVE  FALSE
    BY DEF RemovedForgotten
  <2>1. handling = None /\ ~Waiting(Removal(w))
    BY EmptySeq DEF AtRest, Waiting
  <2> QED
    BY <2>1 DEF ObserversInv, RemovalsInv
<1> QED
  BY <1>1, ObserversInvariant, PTL

\* Every line is in one buffer, on its way from it, delivered or refused, for
\* every number of writers, lines and transports.  (FIFOLog, transportLog.Start)
THEOREM LinesInOnePlace == Spec => []LinesAccounted
<1>1. ObserversInv => LinesAccounted
  BY LinesHold DEF ObserversInv, LogsTypes
<1> QED
  BY <1>1, ObserversInvariant, PTL

\* A stream that can be stopped is that of its workload's writer, and at rest the
\* workload has a pod, for every number of pods started, removed and restarted.
\* (deleteWorkload, deleteTargetTransport, WorkloadStarted)
THEOREM StreamsOfPods == Spec => []StreamsKnown
<1>1. ObserversInv => StreamsKnown
  BY StreamsHold DEF ObserversInv
<1> QED
  BY <1>1, ObserversInvariant, PTL

\* At rest a pod whose transport was the same in every configuration is followed
\* into that transport, for every script of configurations and every interleaving
\* of the starts with the updates.  (WorkloadsLogsTarget.Init, Update,
\* WorkloadStarted)
THEOREM PodsLogged == Spec => []RunningLogged
<1>1. ObserversInv => RunningLogged
  BY LoggedHold DEF ObserversInv, Logged
<1> QED
  BY <1>1, ObserversInvariant, PTL
=============================================================================
