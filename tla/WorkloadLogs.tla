---------------------------- MODULE WorkloadLogs ----------------------------
(***************************************************************************)
(* The logs of the workloads (internal/logs): transports to syslog servers,*)
(* each with a bounded buffer and a goroutine that empties it, and a writer*)
(* per workload that follows its pod's output into the buffer of the       *)
(* transport the workload names.                                           *)
(*                                                                         *)
(* Update runs on the consumer, WorkloadStarted and WorkloadRemoved on the *)
(* event goroutine; only workloadsConfig has a lock.  Every Update dials   *)
(* every configured transport anew, and the goroutines of the old ones are *)
(* never stopped.  A line is a number and takes one unit of a buffer.      *)
(***************************************************************************)
EXTENDS ObserverBus

CONSTANTS
  Names,      \* names of transports
  BufferSize, \* what a buffer holds at most before it takes its last line
  MaxLines    \* bound: lines the writers are given

\* A transport is known by the update that dialled it and its name.
Transports == (UNION {DOMAIN s : s \in Scripts}) \X Names

ASSUME LogsAssumption ==
  /\ None \notin Names \cup Transports \cup Nat
  /\ \A c \in Configurations : c.target \in [Workloads -> Names \cup {None}]
  /\ BufferSize \in Nat /\ MaxLines \in Nat

VARIABLES
  transports,      \* per name, the transport, None when there is none
  dialled,         \* the same in the map Update builds
  workloadsConfig, \* per workload, the name of its transport
  wwriter,         \* per workload, its writer
  buffers,         \* the transports ever made, with their buffer and goroutine
  writers,         \* the writers ever made
  found,           \* where WorkloadStarted is and what it has read
  missed,          \* names of which a dial, or the listing of the pods, failed
  lines,           \* number of lines the writers were given
  delivered,       \* lines a server received
  refused          \* lines given up because a buffer was full

bufferVars == <<buffers, lines, delivered, refused>>
writerVars == <<wwriter, writers>>
transportVars == <<transports, dialled, workloadsConfig, missed>>
logsVars == <<bufferVars, writerVars, transportVars, found>>

Nowhere == [step |-> "delete", transport |-> None]

LogsTypeOK ==
  /\ transports \in [Names -> Transports \cup {None}]
  /\ dialled \in [Names -> Transports \cup {None}]
  /\ workloadsConfig \in [Workloads -> Names \cup {None}]
  /\ \A w \in Workloads : wwriter[w] \in (DOMAIN writers) \cup {None}
  /\ DOMAIN buffers \subseteq Transports
  /\ \A b \in DOMAIN buffers :
       buffers[b].sending \in 0..lines /\ buffers[b].data \in Seq(1..lines)
  /\ \A i \in DOMAIN writers :
       /\ writers[i].transport \in DOMAIN buffers
       /\ writers[i].state \in {"set", "live", "failed", "unstopped", "leaked",
                                "cancelled", "gone"}
  /\ found.step \in {"delete", "target", "transport", "set", "start"}
  /\ missed \subseteq Names
  /\ delivered \cup refused \subseteq 1..lines

LogsInit ==
  /\ transports = [n \in Names |-> None] /\ dialled = transports
  /\ workloadsConfig = [w \in Workloads |-> None]
  /\ wwriter = [w \in Workloads |-> None]
  /\ buffers = <<>> /\ writers = <<>>
  /\ found = Nowhere /\ missed = {}
  /\ lines = 0 /\ delivered = {} /\ refused = {}

-----------------------------------------------------------------------------
(* Writers *)

\* Mutation: a stopped writer goes on.
StopNothing(stopped) == writers

\* WorkloadWriter.Stop: a writer whose Start has not returned has no cancel
\* yet and cannot be stopped.
Stop(stopped) ==
  [i \in DOMAIN writers |->
     IF i \in stopped
       THEN [writers[i] EXCEPT !.state =
               CASE @ = "live" -> "cancelled" [] @ = "set" -> "unstopped" [] OTHER -> @]
       ELSE writers[i]]

\* deleteWorkload
DeleteWorkload(w) ==
  /\ writers' = Stop({wwriter[w]})
  /\ wwriter' = [wwriter EXCEPT ![w] = None]

NewWriter(w, t, state) == [workload |-> w, transport |-> t, state |-> state]

-----------------------------------------------------------------------------
(* Init and Update, on main and on the consumer *)

Wanted == {n \in Names : Conf.address[n] # None}

\* A server that cannot be reached, or a transport of an unknown kind, is left
\* out of the new map.
Dial ==
  /\ Alive /\ turn = "dial"
  /\ \E reached \in SUBSET Wanted :
       LET id(n) == <<Len(handed), n>>
           new == {id(n) : n \in reached}
           fresh == [data |-> <<>>, sending |-> 0, broken |-> FALSE]
       IN /\ IF reached = Wanted THEN UNCHANGED faults ELSE Fault
          /\ missed' = missed \cup (Wanted \ reached)
          /\ dialled' = [n \in Names |-> IF n \in reached THEN id(n) ELSE None]
          /\ buffers' = [b \in DOMAIN buffers \cup new |->
                           IF b \in new THEN fresh ELSE buffers[b]]
  /\ Pass("leftovers")
  /\ UNCHANGED <<todo, pods, eventVars, lines, delivered, refused, writerVars,
                 transports, workloadsConfig, found>>

\* Mutation: the writers of every transport are deleted.
LeftoversOfAll == {n \in Names : transports[n] # None}

Leftovers == {n \in Names : transports[n] # None /\ dialled[n] = None}

\* deleteTargetTransport for every name that is left over.
DeleteLeftovers ==
  LET toDelete == {w \in Workloads :
                     wwriter[w] # None /\ writers[wwriter[w]].transport[2] \in Leftovers}
  IN /\ Alive /\ turn = "leftovers"
     /\ transports' = [n \in Names |-> IF n \in Leftovers THEN None ELSE transports[n]]
     /\ writers' = Stop({wwriter[w] : w \in toDelete})
     /\ wwriter' = [w \in Workloads |-> IF w \in toDelete THEN None ELSE wwriter[w]]
     /\ Pass("transports")
     /\ UNCHANGED <<todo, pods, eventVars, faults, bufferVars, dialled, workloadsConfig,
                    missed, found>>

SetTransports ==
  /\ Alive /\ turn = "transports"
  /\ transports' = dialled
  /\ Pass("targets")
  /\ UNCHANGED <<todo, pods, eventVars, faults, bufferVars, writerVars, dialled,
                 workloadsConfig, missed, found>>

\* Init goes on with the pods that exist; it may fail to list them.
SetWorkloadsConfig ==
  /\ Alive /\ turn = "targets"
  /\ workloadsConfig' =
       [w \in Workloads |-> IF w \in Conf.workloads THEN Conf.target[w] ELSE None]
  /\ \/ /\ proc = "starting"
        /\ Pass("streams") /\ todo' = pods /\ UNCHANGED <<missed, faults>>
     \/ /\ proc = "starting" /\ Fault
        /\ Pass("pods") /\ todo' = Conf.workloads /\ missed' = Names
     \/ /\ proc = "up"
        /\ Pass("pods") /\ todo' = Conf.workloads /\ UNCHANGED <<missed, faults>>
  /\ UNCHANGED <<pods, eventVars, bufferVars, writerVars, transports, dialled, found>>

\* Init calls WorkloadStarted before the logs observe the workloads.
InitStream(w) ==
  LET n == workloadsConfig[w]
      t == IF n = None THEN None ELSE transports[n]
  IN /\ Alive /\ turn = "streams"
     /\ w \in todo /\ todo' = todo \ {w}
     /\ IF t = None
          THEN UNCHANGED <<writerVars, faults>>
          ELSE /\ \/ writers' = Append(writers, NewWriter(w, t, "live")) /\ UNCHANGED faults
                  \/ writers' = Append(writers, NewWriter(w, t, "failed")) /\ Fault
               /\ wwriter' = [wwriter EXCEPT ![w] = Len(writers')]
     /\ UNCHANGED <<proc, configVars, turn, pods, eventVars, bufferVars, transportVars, found>>

EndStreams ==
  /\ Alive /\ turn = "streams" /\ todo = {}
  /\ Pass("pods") /\ todo' = Conf.workloads
  /\ UNCHANGED <<pods, eventVars, faults, logsVars>>

-----------------------------------------------------------------------------
(* WorkloadStarted and WorkloadRemoved, on the event goroutine *)

Name == handling.event.name

WorkloadRemoved ==
  /\ Telling("logs", "removed")
  /\ DeleteWorkload(Name)
  /\ Told
  /\ UNCHANGED <<proc, configVars, turn, todo, pods, events, late, faults, bufferVars,
                 transportVars, found>>

\* WorkloadStarted takes its next step, or returns.
Goes(s) == found' = [found EXCEPT !.step = s] /\ UNCHANGED handling
Returns == found' = Nowhere /\ Told

\* What was left of an earlier start is deleted first.
DeleteOld ==
  /\ Telling("logs", "started") /\ found.step = "delete"
  /\ DeleteWorkload(Name)
  /\ Goes("target")
  /\ UNCHANGED <<proc, configVars, turn, todo, pods, events, late, faults, bufferVars,
                 transportVars>>

ReadTarget ==
  /\ Telling("logs", "started") /\ found.step = "target"
  /\ IF workloadsConfig[Name] = None
       THEN Returns
       ELSE /\ found' = [step |-> "transport", transport |-> workloadsConfig[Name]]
            /\ UNCHANGED handling
  /\ UNCHANGED <<proc, configVars, turn, todo, pods, events, late, faults, bufferVars,
                 writerVars, transportVars>>

ReadTransport ==
  /\ Telling("logs", "started") /\ found.step = "transport"
  /\ IF transports[found.transport] = None
       THEN Returns
       ELSE /\ found' = [step |-> "set", transport |-> transports[found.transport]]
            /\ UNCHANGED handling
  /\ UNCHANGED <<proc, configVars, turn, todo, pods, events, late, faults, bufferVars,
                 writerVars, transportVars>>

SetWriter ==
  /\ Telling("logs", "started") /\ found.step = "set"
  /\ writers' = Append(writers, NewWriter(Name, found.transport, "set"))
  /\ wwriter' = [wwriter EXCEPT ![Name] = Len(writers')]
  /\ Goes("start")
  /\ UNCHANGED <<proc, configVars, turn, todo, pods, events, late, faults, bufferVars,
                 transportVars>>

\* podman.Logs inspects the pod and follows its containers.  When that fails
\* the writer stays in the map, without a cancel.
StartWriter ==
  LET i == Len(writers)
      runs == IF writers[i].state = "set" THEN "live" ELSE "leaked"
  IN /\ Telling("logs", "started") /\ found.step = "start"
     /\ \/ /\ Name \in pods
           /\ writers' = [writers EXCEPT ![i].state = runs] /\ UNCHANGED faults
        \/ /\ IF Name \in pods THEN Fault ELSE UNCHANGED faults
           /\ writers' = [writers EXCEPT ![i].state = "failed"]
     /\ Returns
     /\ UNCHANGED <<proc, configVars, turn, todo, pods, events, late, bufferVars,
                    transportVars, wwriter>>

\* The maps have no lock: when the consumer deletes leftovers while the event
\* goroutine is in the same map, Go may end the process.
ConcurrentMaps ==
  /\ turn = "leftovers" /\ Leftovers # {}
  /\ \/ Telling("logs", "removed")
     \/ Telling("logs", "started") /\ found.step \in {"delete", "transport", "set"}
  /\ proc' = "dead"
  /\ UNCHANGED <<configVars, turn, todo, pods, eventVars, faults, logsVars>>

-----------------------------------------------------------------------------
(* The lines, from the writers to the servers *)

\* FIFOLog.Write refuses a line only when the buffer is over its size.
Full(data) == Len(data) > BufferSize

\* podman's goroutine looks at its context only after it wrote: a writer that
\* was stopped may write once more.
WriteLine(i) ==
  LET b == writers[i].transport
      n == lines + 1
  IN /\ Alive
     /\ lines < MaxLines
     /\ lines' = n
     /\ \/ writers[i].state \in {"live", "leaked"} /\ UNCHANGED writers
        \/ /\ writers[i].state = "cancelled"
           /\ writers' = [writers EXCEPT ![i].state = "gone"]
     /\ IF Full(buffers[b].data)
          THEN refused' = refused \cup {n} /\ UNCHANGED buffers
          ELSE buffers' = [buffers EXCEPT ![b].data = Append(@, n)] /\ UNCHANGED refused
     /\ UNCHANGED <<busVars, delivered, wwriter, transportVars, found>>

\* Mutation: a line is read once another one is behind it.
LinesWaiting(b) == Len(buffers[b].data) > 1

NotEmpty(b) == buffers[b].data # <<>>

ReadLine(b) ==
  /\ Alive
  /\ buffers[b].sending = 0
  /\ NotEmpty(b)
  /\ buffers' = [buffers EXCEPT ![b].sending = Head(buffers[b].data), ![b].data = Tail(@)]
  /\ UNCHANGED <<busVars, lines, delivered, refused, writerVars, transportVars, found>>

\* Mutation: a line that could not be sent is not kept.
PutNothing(b) == buffers' = [buffers EXCEPT ![b].sending = 0] /\ UNCHANGED refused

\* The line goes back to the end of the buffer, which may have filled.
PutBack(b) ==
  IF Full(buffers[b].data)
    THEN /\ refused' = refused \cup {buffers[b].sending}
         /\ buffers' = [buffers EXCEPT ![b].sending = 0]
    ELSE /\ buffers' = [buffers EXCEPT ![b].data = Append(@, buffers[b].sending),
                                       ![b].sending = 0]
         /\ UNCHANGED refused

\* Eleven tries on the one connection the transport was dialled with.
WriteLog(b) ==
  /\ Alive
  /\ buffers[b].sending # 0
  /\ \/ /\ ~buffers[b].broken
        /\ delivered' = delivered \cup {buffers[b].sending}
        /\ buffers' = [buffers EXCEPT ![b].sending = 0]
        /\ UNCHANGED <<refused, faults>>
     \/ /\ IF buffers[b].broken THEN UNCHANGED faults ELSE Fault
        /\ PutBack(b)
        /\ UNCHANGED delivered
  /\ UNCHANGED <<proc, configVars, turn, todo, pods, eventVars, lines, writerVars,
                 transportVars, found>>

\* A connection that breaks is never dialled again.
BreakConnection(b) ==
  /\ Alive
  /\ ~buffers[b].broken
  /\ Fault
  /\ buffers' = [buffers EXCEPT ![b].broken = TRUE]
  /\ UNCHANGED <<proc, configVars, turn, todo, pods, eventVars, lines, delivered, refused,
                 writerVars, transportVars, found>>

UpdateLogs ==
  \/ Dial \/ DeleteLeftovers \/ SetTransports \/ SetWorkloadsConfig
  \/ (\E w \in Workloads : InitStream(w)) \/ EndStreams
WorkloadStarted ==
  DeleteOld \/ ReadTarget \/ ReadTransport \/ SetWriter \/ StartWriter
SendLine(b) == b \in DOMAIN buffers /\ (ReadLine(b) \/ WriteLog(b))

LogsNext ==
  \/ UpdateLogs
  \/ WorkloadStarted \/ WorkloadRemoved \/ ConcurrentMaps
  \/ \E i \in DOMAIN writers : WriteLine(i)
  \/ \E b \in DOMAIN buffers : SendLine(b) \/ BreakConnection(b)

-----------------------------------------------------------------------------
(* Properties *)

InBuffer(b) == {buffers[b].data[k] : k \in DOMAIN buffers[b].data}

\* A line a writer was given is in one place at a time, and leaves only to its
\* server or because a buffer was full: a failed send, an update that dials
\* anew, or a workload that is removed loses and doubles none.  A line put back
\* counts like a new one: a buffer passes its size once ("we only pass once",
\* log_container.go:73).  (FIFOLog, transportLog.Start)
LinesAccounted ==
  /\ \A b \in DOMAIN buffers : Len(buffers[b].data) <= BufferSize + 1
  /\ \A n \in 1..lines :
       LET waiting == {b \in DOMAIN buffers : n \in InBuffer(b)}
           sent == {b \in DOMAIN buffers : buffers[b].sending = n}
       IN IF n \in delivered \cup refused
            THEN waiting = {} /\ sent = {} /\ ~(n \in delivered /\ n \in refused)
            ELSE \E b \in DOMAIN buffers :
                   /\ waiting \cup sent = {b} /\ (waiting = {} \/ sent = {})

\* The transport a configuration names for a workload, and its address.
LogsOf(c, w) ==
  IF w \in c.workloads /\ c.target[w] # None THEN <<c.target[w], c.address[c.target[w]]>>
  ELSE <<None, None>>

\* At rest a workload that runs, and whose transport was the same in every
\* configuration so far, has its output followed into that transport, at the
\* configured address, however its starts and the updates fell together, unless
\* that server could not be dialled once or the pod could not be inspected.
\* (WorkloadsLogsTarget.Init, Update and WorkloadStarted)
RunningLogged ==
  AtRest =>
    \A w \in pods :
      /\ \A k \in DOMAIN handed : LogsOf(handed[k], w) = LogsOf(Conf, w)
      /\ LogsOf(Conf, w)[2] # None
      /\ Conf.target[w] \notin missed
      => /\ wwriter[w] # None
         /\ LET r == writers[wwriter[w]]
                t == r.transport
            IN /\ r.state \in {"live", "failed"}
               /\ <<t[2], handed[t[1]].address[t[2]]>> = LogsOf(Conf, w)

\* A stream that can be stopped is the one of its workload's writer, so no
\* output is followed twice, and at rest that workload has a pod.  It does not
\* hold of a writer whose transport was deleted before its Start returned: that
\* one cannot be stopped any more.  (deleteWorkload, deleteTargetTransport)
StreamsKnown ==
  \A i \in DOMAIN writers :
    writers[i].state = "live" =>
      /\ wwriter[writers[i].workload] = i
      /\ AtRest => writers[i].workload \in pods

\* Every line a writer was given reaches its server, or is given up when the
\* buffer is full, unless the server's connection broke or the process died,
\* also when the transport is no longer configured.  (transportLog.Start)
LinesLeave ==
  \A n \in 1..MaxLines :
    n <= lines ~> \/ n \in delivered \cup refused
                  \/ \E b \in DOMAIN buffers : buffers[b].broken
                  \/ ~Alive
=============================================================================
