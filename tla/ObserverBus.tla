---------------------------- MODULE ObserverBus ----------------------------
(***************************************************************************)
(* What the observers of the configuration and of the workloads share: the *)
(* consumer goroutine, which hands a configuration to the workload logs,   *)
(* the workload manager, the mount manager and the data transfer monitor   *)
(* in the order main registered them, and the event goroutine of the       *)
(* workload wrapper, which tells the logs and then the monitor of every    *)
(* pod that started or is gone.  Nothing but the locks of the observers    *)
(* orders the two goroutines.                                              *)
(*                                                                         *)
(* The configurations of a behaviour are a script chosen at the start: the *)
(* first one is read from the device's file, the others are received.      *)
(***************************************************************************)
EXTENDS Naturals, Sequences

CONSTANTS
  Workloads, \* workload names
  Scripts,   \* sequences of configurations
  None,      \* no target, address, storage, directory or event
  MaxFaults, \* bound: failing calls and pods that restart
  MaxTicks   \* bound: ticks of the data transfer monitor

\* The configurations of the scripts.
Configurations == UNION {{s[k] : k \in DOMAIN s} : s \in Scripts}

Events == [kind : {"started", "removed"}, name : Workloads]

\* An event, and the observers still to be told of it.
Tellings ==
  [event : Events, observers : {<<"logs", "transfer">>, <<"logs">>, <<"transfer">>}]

ASSUME BusAssumption ==
  /\ None \notin Workloads \cup Tellings
  /\ Scripts \subseteq Seq(Configurations) \ {<<>>}
  /\ \A c \in Configurations : c.workloads \subseteq Workloads
  /\ MaxFaults \in Nat /\ MaxTicks \in Nat

VARIABLES
  proc,     \* "starting" (main registers the observers), "up" or "dead"
  script,   \* the configurations still to be received
  handed,   \* the configurations the observers were handed, the last one last
  memory,   \* the one the configuration manager reports
  turn,     \* the observer that has the last one handed, "save" or "idle"
  todo,     \* the workloads left in a loop of that observer
  pods,     \* the workloads that have a pod
  events,   \* podman's events, in order
  late,     \* workloads whose start is told on a goroutine of its own
  handling, \* the event the observers are told, None when there is none
  faults    \* failing calls and restarts so far

configVars == <<script, handed, memory>>
eventVars == <<events, late, handling>>
busVars == <<proc, configVars, turn, todo, pods, eventVars, faults>>

Conf == handed[Len(handed)]

BusTypeOK ==
  /\ proc \in {"starting", "up", "dead"}
  /\ turn \in {"idle", "dial", "leftovers", "transports", "targets", "streams",
               "pods", "prune", "mounts", "transfer", "save"}
  /\ todo \in SUBSET Workloads
  /\ pods \in SUBSET Workloads
  /\ events \in Seq(Events)
  /\ late \in SUBSET Workloads
  /\ handling \in Tellings \cup {None}
  /\ faults \in 0..MaxFaults

\* main starts with the configuration of the file and with the pods an earlier
\* process left, each of which podman.Events reports on a goroutine.
BusInit ==
  /\ proc = "starting"
  /\ \E s \in Scripts :
       script = Tail(s) /\ handed = <<Head(s)>> /\ memory = Head(s)
  /\ turn = "dial" /\ todo = {}
  /\ pods \in {{}, memory.workloads}
  /\ events = <<>> /\ late = pods /\ handling = None
  /\ faults = 0

Alive == proc # "dead"

Fault == faults < MaxFaults /\ faults' = faults + 1

\* The observer returns, whatever its error, and the next one has its turn.
Pass(t) == turn' = t /\ UNCHANGED <<proc, configVars>>

-----------------------------------------------------------------------------
(* The consumer: configuration.Manager.Update *)

\* A configuration equal to the one in memory is dropped.
Receive ==
  /\ proc = "up" /\ turn = "idle"
  /\ script # <<>>
  /\ script' = Tail(script)
  /\ IF Head(script) = memory
       THEN UNCHANGED <<handed, turn>>
       ELSE handed' = Append(handed, Head(script)) /\ turn' = "dial"
  /\ UNCHANGED <<proc, memory, todo, pods, eventVars, faults>>

\* The last observer has returned: main goes on to serve, or the consumer
\* saves the configuration, which may fail.
EndHandOver ==
  /\ IF proc = "starting"
       THEN proc' = "up" /\ turn' = "idle"
       ELSE turn' = "save" /\ UNCHANGED proc
  /\ UNCHANGED configVars

Save ==
  /\ Alive /\ turn = "save"
  /\ turn' = "idle"
  /\ \/ memory' = Conf /\ UNCHANGED faults
     \/ Fault /\ UNCHANGED memory
  /\ UNCHANGED <<proc, script, handed, todo, pods, eventVars>>

-----------------------------------------------------------------------------
(* The events of pods *)

\* podman tells of a start, and so does Workload.Run on a goroutine.
Started(w) ==
  /\ pods' = pods \cup {w}
  /\ events' = Append(events, [kind |-> "started", name |-> w])
  /\ late' \in {late, late \cup {w}}

Removed(w) ==
  /\ pods' = pods \ {w}
  /\ events' = Append(events, [kind |-> "removed", name |-> w])
  /\ UNCHANGED late

\* Somebody, or podman, stops a pod and starts it again.
RestartPod(w) ==
  /\ proc = "up"
  /\ w \in pods
  /\ Fault
  /\ events' = events \o <<[kind |-> "removed", name |-> w], [kind |-> "started", name |-> w]>>
  /\ UNCHANGED <<proc, configVars, turn, todo, pods, late, handling>>

\* The observers registered so far: the logs once their Init is through, the
\* monitor just before its Init.
Observers ==
  IF proc = "up" THEN <<"logs", "transfer">>
  ELSE IF turn = "transfer" THEN <<"logs", "transfer">>
  ELSE IF turn \in {"pods", "prune", "mounts"} THEN <<"logs">>
  ELSE <<>>

Tell(e) ==
  handling' = IF Observers = <<>> THEN None ELSE [event |-> e, observers |-> Observers]

\* A start is reported with an inspection of the pod; when the pod is gone it
\* may have been inspected before, or the event is dropped.
TakeEvent ==
  /\ Alive /\ handling = None
  /\ events # <<>>
  /\ events' = Tail(events)
  /\ LET e == Head(events) IN
       \/ Tell(e)
       \/ e.kind = "started" /\ e.name \notin pods /\ UNCHANGED handling
  /\ UNCHANGED <<proc, configVars, turn, todo, pods, late, faults>>

TakeLate(w) ==
  /\ Alive /\ handling = None
  /\ w \in late
  /\ late' = late \ {w}
  /\ Tell([kind |-> "started", name |-> w])
  /\ UNCHANGED <<proc, configVars, turn, todo, pods, events, faults>>

\* The event goroutine tells observer o of an event of that kind.
Telling(o, kind) ==
  /\ Alive /\ handling # None
  /\ Head(handling.observers) = o
  /\ handling.event.kind = kind

\* The observer returned: the next one is told, or the event is done with.
Told ==
  handling' = IF Len(handling.observers) = 1
                THEN None ELSE [handling EXCEPT !.observers = Tail(@)]

\* Nothing is under way on the two goroutines.
AtRest ==
  proc = "up" /\ turn = "idle" /\ events = <<>> /\ late = {} /\ handling = None
=============================================================================
