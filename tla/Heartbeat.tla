----------------------------- MODULE Heartbeat -----------------------------
(***************************************************************************)
(* The heartbeat (internal/heartbeat/heartbeat.go): a ticker whose         *)
(* goroutine collects what to report and pushes it to the dispatcher, and  *)
(* its reconfiguration by the consumer of the configuration messages.      *)
(*                                                                         *)
(* Every initTicker starts a goroutine that no stopTicker ends: it may be  *)
(* in the middle of a push, or have a tick left, when the next one is      *)
(* started.  Pushers are numbered by the ticker they belong to.  Nothing   *)
(* the properties see can come between an answer and what is done with it, *)
(* so a push and its answer are one step.                                  *)
(*                                                                         *)
(* The dispatcher and the operator behind it are external.  Of the         *)
(* hardware, a number stands for the mutable part that is compared; the    *)
(* full information has the immutable part as well.                        *)
(***************************************************************************)
EXTENDS Naturals, FiniteSets

CONSTANTS
  Configs,    \* configurations: period, scope ("full" or "delta"), include
  Answers,    \* what may become of a push, see Send; "unread", hardware cannot be read
  NoHardware, \* no hardware information
  MaxTickers, \* bound: tickers, hence pushers
  MaxChanges, \* bound: changes of the hardware
  MaxEvents,  \* bound: events
  MaxFaults   \* bound: pushes that fail, hardware that cannot be read, restarts

AnswerKinds == {"ok", "lost", "unanswered", "rejected", "unauthorized", "unread"}

ASSUME HeartbeatAssumption ==
  /\ Configs \subseteq [period : Nat \ {0}, scope : {"full", "delta"}, include : BOOLEAN]
  /\ Configs # {}
  /\ Answers \subseteq AnswerKinds
  /\ MaxTickers \in Nat /\ MaxChanges \in Nat /\ MaxEvents \in Nat /\ MaxFaults \in Nat

Pushers == 1..MaxTickers
Hardware == 0..MaxChanges
Events == 1..MaxEvents

ASSUME NoHardwareAssumption == NoHardware \notin Hardware

VARIABLES
  proc,       \* "boot" (before Start may be called), "up" or "dead"
  config,     \* the configuration in memory
  pending,    \* the configuration Update is given
  upc,        \* where Heartbeat.Update is, "swap" when it returned
  period,     \* previousPeriodSeconds; 0 before the first
  tickers,    \* tickers made; the last one is Heartbeat.ticker
  live,       \* tickers that were not stopped
  silenced,   \* Deregister was called in this process
  tick,       \* per pusher, a tick waits in the ticker's channel
  pc,         \* per pusher, where it is
  seen,       \* per pusher, currentMutableHwInfo
  info,       \* per pusher, the hardware information it will send
  carried,    \* per pusher, the events it will send
  previous,   \* previousMutableHardwareInfo
  first,      \* firstHearbeat
  hardware,   \* the hardware as it is
  queued,     \* the events queued in the managers
  made,       \* events made so far
  delivered,  \* events the operator got
  repeated,   \* an event was delivered twice
  operator,   \* what the operator knows: full, and the mutable part
  excused,    \* two pushes overlapped, hardware could not be read, an answer with
              \* an error status was taken for a success, or the first heartbeat
              \* to succeed had no hardware
  failures

Kinds == {"none", "same", "mutable", "immutable", "full"}
ticking == <<period, tickers, live, silenced>>
pushing == <<tick, pc, seen, info, carried>>
memory == <<previous, first>>
queue == <<queued, made>>
outside == <<delivered, repeated, operator>>
updating == <<pending, upc>>
fixed == <<proc, config>>
heartbeatVars == <<fixed, updating, ticking, pushing, memory, hardware, queue, outside,
          excused, failures>>

HeartbeatTypeOK ==
  /\ proc \in {"boot", "up", "dead"}
  /\ config \in Configs /\ pending \in Configs
  /\ upc \in {"idle", "called", "stopped", "swap"}
  /\ period \in Nat /\ failures \in Nat
  /\ tickers \in 0..MaxTickers
  /\ live \subseteq 1..tickers
  /\ tick \in [Pushers -> BOOLEAN]
  /\ pc \in [Pushers -> {"wait", "read", "complete", "remember", "pop", "send"}]
  /\ seen \in [Pushers -> Hardware]
  /\ info \in [Pushers -> [kind : Kinds, value : Hardware]]
  /\ carried \in [Pushers -> SUBSET Events]
  /\ previous \in Hardware \cup {NoHardware}
  /\ first \in BOOLEAN /\ repeated \in BOOLEAN
  /\ excused \in BOOLEAN /\ silenced \in BOOLEAN
  /\ hardware \in Hardware
  /\ queued \subseteq 1..made /\ made \in 0..MaxEvents
  /\ delivered \subseteq 1..made
  /\ operator \in [full : BOOLEAN, value : Hardware \cup {NoHardware}]

Nothing == [kind |-> "none", value |-> 0]

\* A new process.
NewHeartbeatService ==
  /\ upc = "idle" /\ pending = config
  /\ period = 0 /\ tickers = 0 /\ live = {} /\ silenced = FALSE
  /\ tick = [p \in Pushers |-> FALSE] /\ pc = [p \in Pushers |-> "wait"]
  /\ seen = [p \in Pushers |-> 0] /\ info = [p \in Pushers |-> Nothing]
  /\ carried = [p \in Pushers |-> {}]
  /\ previous = NoHardware /\ first = TRUE

HeartbeatInit ==
  /\ proc = "boot"
  /\ config \in Configs
  /\ NewHeartbeatService
  /\ hardware = 0
  /\ queued = {} /\ made = 0 /\ delivered = {} /\ repeated = FALSE
  /\ operator = [full |-> FALSE, value |-> NoHardware]
  /\ excused = FALSE /\ failures = 0

Fault == failures < MaxFaults /\ failures' = failures + 1

-----------------------------------------------------------------------------
(* The ticker *)

\* initTicker
NewTicker ==
  /\ tickers < MaxTickers
  /\ tickers' = tickers + 1
  /\ live' = live \cup {tickers + 1}

\* main starts the heartbeat of a device that has a configuration; otherwise
\* the first message does.
Start ==
  /\ proc = "boot"
  /\ proc' = "up"
  /\ \/ period' = config.period /\ NewTicker /\ UNCHANGED silenced
     \/ UNCHANGED ticking
  /\ UNCHANGED <<config, updating, pushing, memory, hardware, queue,
                 outside, excused, failures>>

\* The consumer hands Update a message, whose configuration is not yet that of
\* the configuration manager.
CallUpdate(c) ==
  /\ proc = "up" /\ upc = "idle"
  /\ period = c.period \/ tickers < MaxTickers
  /\ pending' = c
  /\ upc' = IF period # c.period THEN "called" ELSE "swap"
  /\ UNCHANGED <<fixed, ticking, pushing, memory, hardware, queue, outside, excused,
                 failures>>

\* Mutation: the old ticker goes on.
KeepTicker ==
  /\ proc = "up" /\ upc = "called"
  /\ upc' = "stopped"
  /\ UNCHANGED <<fixed, pending, ticking, pushing, memory, hardware, queue, outside,
                 excused, failures>>

StopTicker ==
  /\ proc = "up" /\ upc = "called"
  /\ upc' = "stopped"
  /\ live' = live \ {tickers}
  /\ UNCHANGED <<fixed, pending, period, tickers, silenced, pushing, memory,
                 hardware, queue, outside, excused, failures>>

RestartTicker ==
  /\ proc = "up" /\ upc = "stopped"
  /\ upc' = "swap"
  /\ period' = pending.period
  /\ NewTicker
  /\ UNCHANGED <<fixed, pending, silenced, pushing, memory, hardware, queue, outside,
                 excused, failures>>

Swap ==
  /\ proc = "up" /\ upc = "swap"
  /\ upc' = "idle"
  /\ config' = pending
  /\ UNCHANGED <<proc, pending, ticking, pushing, memory, hardware, queue,
                 outside, excused, failures>>

\* Deregister, from a gRPC goroutine or before a reboot.
Deregister ==
  /\ proc = "up"
  /\ live' = live \ {tickers}
  /\ silenced' = TRUE
  /\ UNCHANGED <<fixed, updating, period, tickers, pushing, memory, hardware, queue,
                 outside, excused, failures>>

\* A ticker's channel holds one tick.
Tick(p) ==
  /\ proc = "up"
  /\ p \in live /\ ~tick[p]
  /\ tick' = [tick EXCEPT ![p] = TRUE]
  /\ UNCHANGED <<fixed, updating, ticking, pc, seen, info, carried, memory, hardware,
                 queue, outside, excused, failures>>

-----------------------------------------------------------------------------
(* pushInformation *)

PusherAt(p, s) == proc = "up" /\ pc[p] = s
Go(p, s) == pc' = [pc EXCEPT ![p] = s]

\* Hardware information is collected when the configuration includes it.
BeginPush(p) ==
  /\ PusherAt(p, "wait")
  /\ tick[p]
  /\ tick' = [tick EXCEPT ![p] = FALSE]
  /\ info' = [info EXCEPT ![p] = Nothing]
  /\ Go(p, IF config.include THEN "read" ELSE "pop")
  /\ excused' = (excused \/ \E q \in Pushers : pc[q] # "wait")
  /\ UNCHANGED <<fixed, updating, ticking, seen, carried, memory, hardware, queue, outside,
                 failures>>

\* buildHardwareInfo reads the mutable part and compares it, in scope delta,
\* with the previous one.
ReadHardware(p) ==
  LET kind == IF config.scope = "delta" /\ previous = hardware THEN "same" ELSE "mutable"
  IN /\ PusherAt(p, "read")
     /\ \/ /\ seen' = [seen EXCEPT ![p] = hardware]
           /\ info' = [info EXCEPT ![p] = [kind |-> kind, value |-> hardware]]
           /\ Go(p, "complete")
           /\ UNCHANGED <<excused, failures>>
        \/ /\ "unread" \in Answers /\ Fault /\ excused' = TRUE
           /\ Go(p, "pop")
           /\ UNCHANGED <<seen, info>>
     /\ UNCHANGED <<fixed, updating, ticking, tick, carried, memory, hardware, queue,
                    outside>>

\* Without a previous one everything is read, again, and sent.  An error costs
\* all of it or, coming last, the mutable part.
CompleteHardware(p) ==
  /\ PusherAt(p, "complete")
  /\ Go(p, "remember")
  /\ IF previous # NoHardware
       THEN UNCHANGED <<info, excused, failures>>
       ELSE \/ /\ info' = [info EXCEPT ![p] = [kind |-> "full", value |-> hardware]]
               /\ UNCHANGED <<excused, failures>>
            \/ /\ "unread" \in Answers /\ Fault /\ excused' = TRUE
               /\ \E kind \in {"none", "immutable"} :
                    info' = [info EXCEPT ![p] = [kind |-> kind, value |-> 0]]
  /\ UNCHANGED <<fixed, updating, ticking, tick, seen, carried, memory, hardware, queue,
                 outside>>

\* Mutation: what is kept is read again.
RememberCurrent(p) ==
  /\ PusherAt(p, "remember")
  /\ Go(p, "pop")
  /\ previous' = hardware
  /\ UNCHANGED <<fixed, updating, ticking, tick, seen, info, carried, first, hardware,
                 queue, outside, excused, failures>>

RememberHardware(p) ==
  /\ PusherAt(p, "remember")
  /\ Go(p, "pop")
  /\ previous' = seen[p]
  /\ seen' = [seen EXCEPT ![p] = 0]
  /\ UNCHANGED <<fixed, updating, ticking, tick, info, carried, first, hardware,
                 queue, outside, excused, failures>>

\* Mutation: the queue is not emptied.
PeekEvents(p) ==
  /\ PusherAt(p, "pop")
  /\ Go(p, "send")
  /\ carried' = [carried EXCEPT ![p] = queued]
  /\ UNCHANGED <<fixed, updating, ticking, tick, seen, info, memory, hardware, queue,
                 outside, excused, failures>>

\* The managers' PopEvents, each under its managementLock.
RetrieveEvents(p) ==
  /\ PusherAt(p, "pop")
  /\ Go(p, "send")
  /\ carried' = [carried EXCEPT ![p] = queued]
  /\ queued' = {}
  /\ UNCHANGED <<fixed, updating, ticking, tick, seen, info, memory, hardware, made,
                 outside, excused, failures>>

\* The operator takes what it is sent.
Arrive(p) ==
  /\ repeated' = (repeated \/ carried[p] \cap delivered # {})
  /\ delivered' = delivered \cup carried[p]
  /\ operator' =
       [full |-> operator.full \/ info[p].kind \in {"immutable", "full"},
        value |-> IF info[p].kind \in {"mutable", "full"} THEN info[p].value
                                                          ELSE operator.value]

Leave(p) ==
  /\ Go(p, "wait")
  /\ carried' = [carried EXCEPT ![p] = {}]
  /\ info' = [info EXCEPT ![p] = Nothing]

\* Mutation: a failed first heartbeat is not noticed.
FailForgets(p) == Leave(p) /\ UNCHANGED memory

\* The first heartbeat is sent in full again; a later one is not sent again.
Fail(p) ==
  /\ Leave(p)
  /\ previous' = IF first THEN NoHardware ELSE previous
  /\ UNCHANGED first

Succeed(p) == Leave(p) /\ first' = FALSE /\ UNCHANGED previous

\* What becomes of a push, which waits a second for its answer: "ok";
\* "lost", it did not arrive; "unanswered", it did; "rejected", an answer
\* whose status is an error, which is no error to send.
Send(p) ==
  /\ PusherAt(p, "send")
  /\ \/ /\ "ok" \in Answers /\ Arrive(p) /\ Succeed(p)
        /\ excused' = (excused \/ (first /\ info[p].kind = "none"))
        /\ UNCHANGED failures
     \/ "lost" \in Answers /\ UNCHANGED <<outside, excused>> /\ Fail(p) /\ Fault
     \/ "unanswered" \in Answers /\ Arrive(p) /\ Fail(p) /\ Fault /\ UNCHANGED excused
     \/ /\ "rejected" \in Answers /\ UNCHANGED outside /\ Succeed(p) /\ Fault
        /\ excused' = TRUE
  /\ UNCHANGED <<fixed, updating, ticking, tick, seen, hardware, queue>>

\* An answer that says unauthorized: RegisterDevice is called of the registration
\* that NewHeartbeatService was given and did not keep, and panics.
Unauthorized(p) ==
  /\ PusherAt(p, "send")
  /\ "unauthorized" \in Answers
  /\ Fault
  /\ proc' = "dead"
  /\ UNCHANGED <<config, updating, ticking, pushing, memory, hardware, queue, outside,
                 excused>>

-----------------------------------------------------------------------------
(* The rest of the device *)

ChangeHardware ==
  /\ hardware < MaxChanges
  /\ hardware' = hardware + 1
  /\ UNCHANGED <<fixed, updating, ticking, pushing, memory, queue, outside, excused,
                 failures>>

QueueEvent ==
  /\ proc = "up"
  /\ made < MaxEvents
  /\ made' = made + 1
  /\ queued' = queued \cup {made + 1}
  /\ UNCHANGED <<fixed, updating, ticking, pushing, memory, hardware, outside, excused,
                 failures>>

\* systemd starts a process that died, or that is killed.
Restart ==
  /\ \/ proc = "dead" /\ UNCHANGED failures
     \/ proc = "up" /\ Fault
  /\ proc' = "boot"
  /\ upc' = "idle" /\ pending' = config
  /\ period' = 0 /\ tickers' = 0 /\ live' = {} /\ silenced' = FALSE
  /\ tick' = [p \in Pushers |-> FALSE] /\ pc' = [p \in Pushers |-> "wait"]
  /\ seen' = [p \in Pushers |-> 0] /\ info' = [p \in Pushers |-> Nothing]
  /\ carried' = [p \in Pushers |-> {}]
  /\ previous' = NoHardware /\ first' = TRUE
  /\ queued' = {}
  /\ UNCHANGED <<config, hardware, made, outside, excused>>

Push(p) ==
  \/ BeginPush(p) \/ ReadHardware(p) \/ CompleteHardware(p) \/ RememberHardware(p)
  \/ RetrieveEvents(p) \/ Send(p) \/ Unauthorized(p)

Update == StopTicker \/ RestartTicker \/ Swap

HeartbeatNext ==
  \/ Start
  \/ \E c \in Configs : CallUpdate(c)
  \/ Update
  \/ Deregister
  \/ \E p \in Pushers : Tick(p) \/ Push(p)
  \/ ChangeHardware \/ QueueEvent
  \/ Restart

HeartbeatSpec == HeartbeatInit /\ [][HeartbeatNext]_heartbeatVars

-----------------------------------------------------------------------------
(* Properties *)

\* At most one ticker runs, however updates and a deregistration interleave;
\* and one does run, unless Update is replacing it, the heartbeat was never
\* started, or it was deregistered.  (Heartbeat.Update, stopTicker, initTicker)
OneTicker ==
  /\ Cardinality(live) <= 1
  /\ upc # "stopped" /\ tickers > 0 /\ ~silenced => live = {tickers}

\* An event reaches the operator at most once, whatever pushes overlap, fail
\* or go unanswered.  (RetrieveInfo, PopEvents)
EventsAtMostOnce == ~repeated

\* Unless it is excused, the operator knows the whole hardware before it is
\* sent the mutable part alone.  (buildHardwareInfo: "Only send all Hw
\* info (mutable + immutable) for the 1st heartbeat, then send only mutable hw
\* info"; heartbeat_test.go, "Hearbeat is sent with error")
FullFirst ==
  ~excused /\ operator.value # NoHardware => operator.full

\* Unless a push failed or two overlapped, the operator is not behind the
\* hardware that the next difference will be taken from; after the first
\* heartbeat, which reads it twice, it may be ahead.  (buildHardwareInfo,
\* getMutableHardwareInfoDelta)
DeltaBase ==
  failures = 0 /\ ~excused /\ previous # NoHardware
    /\ (\A p \in Pushers : pc[p] = "wait") =>
    operator.value # NoHardware /\ operator.value >= previous
=============================================================================
