---------------------------- MODULE DataTransfer ----------------------------
(***************************************************************************)
(* The data transfer monitor (internal/datatransfer): every tick, and when *)
(* a workload's pod is gone, the data of workloads is copied to and from   *)
(* the S3 storage of the configuration.                                    *)
(*                                                                         *)
(* Two goroutines synchronise, the ticker's and the event goroutine, while *)
(* Update, on the consumer, makes a new storage object at every            *)
(* configuration.  One direction of one workload connects the object,      *)
(* copies, asks for statistics and disconnects it; an object that is not   *)
(* connected holds a nil pointer, and using it ends the process.           *)
(***************************************************************************)
EXTENDS ObserverBus

VARIABLES
  fsSync,    \* the storage object, numbered by its configuration, 0 for none
  connected, \* the objects that are connected
  sync,      \* per goroutine, where its synchronisation is
  lastSync,  \* per workload, lastSuccessfulSyncTimes: "none", "kept", or "late"
             \* when the ticker stored it after the pod was gone
  ticks      \* the ticks still to come, none once the ticker is stopped

transferVars == <<fsSync, connected, sync, lastSync, ticks>>

Threads == {"ticker", "events"}
NoSync == [step |-> "idle", left |-> {}, name |-> None, direction |-> "egress",
           copy |-> 0, failed |-> FALSE]

TransferTypeOK ==
  /\ fsSync \in 0..Len(handed)
  /\ connected \subseteq 1..Len(handed)
  /\ \A t \in Threads :
       /\ sync[t].step \in {"idle", "choose", "connect", "path", "stats", "forget"}
       /\ sync[t].left \subseteq Workloads
       /\ sync[t].name \in Workloads \cup {None}
       /\ sync[t].direction \in {"egress", "ingress"}
       /\ sync[t].copy \in 0..Len(handed)
       /\ sync[t].failed \in BOOLEAN
  /\ lastSync \in [Workloads -> {"none", "kept", "late"}]
  /\ ticks \in 0..MaxTicks

TransferInit ==
  /\ fsSync = 0 /\ connected = {}
  /\ sync = [t \in Threads |-> NoSync]
  /\ lastSync = [w \in Workloads |-> "none"]
  /\ ticks = MaxTicks

-----------------------------------------------------------------------------
(* Init and Update, on main and on the consumer *)

\* A configuration without a storage keeps the object there is, and so does one
\* whose keys cannot be decoded.
UpdateTransfer ==
  /\ Alive /\ turn = "transfer"
  /\ \/ Conf.storage = None /\ UNCHANGED <<fsSync, faults>>
     \/ Conf.storage # None /\ fsSync' = Len(handed) /\ UNCHANGED faults
     \/ Conf.storage # None /\ UNCHANGED fsSync /\ Fault
  /\ EndHandOver
  /\ UNCHANGED <<memory, todo, pods, eventVars, connected, sync, lastSync, ticks>>

-----------------------------------------------------------------------------
(* One direction of one workload: syncDataPaths *)

At(t, s) == Alive /\ sync[t].step = s
Moves(t, s) == sync' = [sync EXCEPT ![t].step = s]

\* What follows a direction.  The ticker's goroutine gives up the workload at
\* the first error; a removed workload is tried both ways.  The time is stored
\* when neither way failed.
EndDirection(t, failed) ==
  LET again == sync[t].direction = "egress" /\ (t = "events" \/ ~failed)
      end == IF t = "ticker" THEN "choose" ELSE "forget"
      w == sync[t].name
  IN IF again
       THEN /\ sync' = [sync EXCEPT ![t] = [@ EXCEPT !.step = "connect", !.copy = 0,
                                                     !.direction = "ingress", !.failed = failed]]
            /\ UNCHANGED lastSync
       ELSE /\ sync' = [sync EXCEPT ![t] = [@ EXCEPT !.step = end, !.copy = 0,
                                                     !.direction = "egress", !.failed = FALSE]]
            /\ lastSync' = IF failed THEN lastSync
                           ELSE [lastSync EXCEPT ![w] =
                                   IF t = "ticker" /\ w \notin pods THEN "late" ELSE "kept"]

\* Connecting an object that is connected does nothing.
Connect(t) ==
  /\ At(t, "connect")
  /\ \/ /\ fsSync # 0
        /\ connected' = connected \cup {fsSync}
        /\ sync' = [sync EXCEPT ![t].step = "path", ![t].copy = fsSync]
        /\ UNCHANGED <<lastSync, faults>>
     \/ /\ IF fsSync = 0 THEN UNCHANGED faults ELSE fsSync \notin connected /\ Fault
        /\ EndDirection(t, TRUE)
        /\ UNCHANGED connected
  /\ UNCHANGED <<proc, configVars, turn, todo, pods, eventVars, fsSync, ticks>>

\* The paths go through the object the monitor has now, connected or not.
SyncPath(t) ==
  /\ At(t, "path")
  /\ IF fsSync \in connected
       THEN /\ \/ Moves(t, "stats") /\ UNCHANGED faults
               \/ sync' = [sync EXCEPT ![t].step = "stats", ![t].failed = TRUE] /\ Fault
            /\ UNCHANGED proc
       ELSE proc' = "dead" /\ UNCHANGED <<sync, faults>>
  /\ UNCHANGED <<configVars, turn, todo, pods, eventVars, fsSync, connected,
                 lastSync, ticks>>

\* GetStatistics, then Disconnect.
EndPaths(t) ==
  /\ At(t, "stats")
  /\ IF sync[t].copy \in connected
       THEN /\ connected' = connected \ {sync[t].copy}
            /\ EndDirection(t, sync[t].failed)
            /\ UNCHANGED proc
       ELSE proc' = "dead" /\ UNCHANGED <<connected, sync, lastSync>>
  /\ UNCHANGED <<configVars, turn, todo, pods, eventVars, faults, fsSync, ticks>>

-----------------------------------------------------------------------------
(* The ticker's goroutine: syncPaths *)

\* The configuration in memory says which of the workloads have data paths.
\* Without a storage, or when the pods cannot be listed, a tick does nothing.
Tick ==
  /\ proc = "up" /\ sync["ticker"].step = "idle"
  /\ ticks > 0 /\ ticks' = ticks - 1
  /\ memory.storage # None
  /\ sync' = [sync EXCEPT !["ticker"].step = "choose",
                          !["ticker"].left = pods \cap memory.data]
  /\ UNCHANGED <<busVars, fsSync, connected, lastSync>>

\* Deregister stops the ticker; a synchronisation that has begun goes on.  (Only
\* with a storage does it matter when.)
Deregister ==
  /\ proc = "up" /\ memory.storage # None
  /\ ticks > 0 /\ ticks' = 0
  /\ UNCHANGED <<busVars, fsSync, connected, sync, lastSync>>

ChooseWorkload ==
  /\ At("ticker", "choose")
  /\ \/ \E w \in sync["ticker"].left :
          sync' = [sync EXCEPT !["ticker"] = [@ EXCEPT !.step = "connect", !.name = w,
                                                       !.left = sync["ticker"].left \ {w}]]
     \/ sync["ticker"].left = {} /\ sync' = [sync EXCEPT !["ticker"] = NoSync]
  /\ UNCHANGED <<busVars, fsSync, connected, lastSync, ticks>>

-----------------------------------------------------------------------------
(* The event goroutine: WorkloadStarted does nothing, WorkloadRemoved         *)
(* synchronises a last time and forgets the workload.                         *)

IgnoreStarted ==
  /\ Telling("transfer", "started")
  /\ Told
  /\ UNCHANGED <<proc, configVars, turn, todo, pods, events, late, faults, transferVars>>

SyncRemoved ==
  LET w == handling.event.name
      next == IF memory.storage # None /\ w \in memory.workloads \cap memory.data
                THEN "connect" ELSE "forget"
  IN /\ Telling("transfer", "removed") /\ sync["events"].step = "idle"
     /\ sync' = [sync EXCEPT !["events"].step = next, !["events"].name = w]
     /\ UNCHANGED <<busVars, fsSync, connected, lastSync, ticks>>

\* Mutation: the time of a removed workload is kept.
KeepTime(w) == lastSync

DeleteTime(w) == [lastSync EXCEPT ![w] = "none"]

Forget ==
  /\ At("events", "forget")
  /\ lastSync' = DeleteTime(handling.event.name)
  /\ sync' = [sync EXCEPT !["events"] = NoSync]
  /\ Told
  /\ UNCHANGED <<proc, configVars, turn, todo, pods, events, late, faults, fsSync,
                 connected, ticks>>

TransferNext ==
  \/ UpdateTransfer
  \/ Tick \/ ChooseWorkload \/ Deregister
  \/ IgnoreStarted \/ SyncRemoved \/ Forget
  \/ \E t \in Threads : Connect(t) \/ SyncPath(t) \/ EndPaths(t)

-----------------------------------------------------------------------------
(* Properties *)

\* The paths are copied through an object that is connected, whatever
\* configuration comes meanwhile.  ("Copy here to be able to always use that
\* pointer meanwhile update the config", monitor.go:149; syncPath does not use it)
PathsOnConnected ==
  Alive => \A t \in Threads : sync[t].step = "path" => fsSync \in connected

\* At rest no time is reported for a workload whose pod is gone, whatever its
\* last synchronisation did, unless the ticker's goroutine was at that workload
\* when its pod went.  (WorkloadRemoved, storeLastUpdateTime)
RemovedForgotten ==
  AtRest => \A w \in Workloads \ pods : lastSync[w] # "kept"
=============================================================================
