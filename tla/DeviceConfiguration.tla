------------------------ MODULE DeviceConfiguration ------------------------
(***************************************************************************)
(* The path of a configuration message through the device worker: the gRPC *)
(* handlers of internal/server, the configuration manager and its file,    *)
(* the observers it drives, and the deregistration that can run beside it. *)
(*                                                                         *)
(* Send starts one goroutine per message; the goroutines meet the one      *)
(* consumer on an unbuffered channel.  The consumer hands a message to     *)
(* every observer, then writes the file, then replaces the configuration   *)
(* in memory.  A crash may fall between any two of these steps.            *)
(*                                                                         *)
(* A message is its content (Configuration, Workloads and Secrets, the     *)
(* three parts Update compares) and its version (the parts it does not     *)
(* compare).  Versions are numbered in the order of the calls of Send.     *)
(***************************************************************************)
EXTENDS Naturals, Sequences

CONSTANTS
  Contents,        \* what a message can configure
  Default,         \* defaultDeviceConfigurationMessage's content
  NumObservers,    \* observers registered in main, numbered in that order
  WorkloadManager, \* the number of the workload manager among them
  NoFile,          \* device-config.json is absent
  Torn,            \* device-config.json exists but cannot be parsed
  Nothing,         \* an observer that was handed no configuration yet
  MaxSends,        \* bound: messages the dispatcher sends
  MaxFaults        \* bound: failed saves, failed removals and crashes

ASSUME ConstantsAssumption ==
  /\ Default \in Contents
  /\ NumObservers \in Nat
  /\ WorkloadManager \in 1..NumObservers
  /\ MaxSends \in Nat
  /\ MaxFaults \in Nat

Observers == 1..NumObservers
Messages == [version : 0..MaxSends, content : Contents]
DefaultMessage == [version |-> 0, content |-> Default]

ASSUME SpecialValuesAssumption ==
  /\ NoFile \notin Messages
  /\ Torn \notin Messages
  /\ Nothing \notin Messages
  /\ NoFile # Torn

VARIABLES
  proc,         \* "down", "starting" (main registers the observers) or "up"
  sent,         \* number of messages handed to Send
  spawned,      \* goroutines of Send that have not reached the channel
  blocked,      \* goroutines parked on the channel, first come first served
  pc,           \* where the consumer goroutine is in Manager.Update
  msg,          \* the message it works on
  next,         \* the observer it (or main, while starting) calls next
  held,         \* per observer, the message last handed to its Init or Update
  memory,       \* Manager.deviceConfiguration
  initial,      \* Manager.initialConfig
  file,         \* device-config.json
  lastSave,     \* "done", or the worst of the failed saves since one was done
  closing,      \* where Registration.Deregister is
  deregistered, \* WorkloadManager.deregistered
  removed,      \* Manager.Deregister ran in this process
  faults        \* failed saves, failed removals and crashes so far

vars == <<proc, sent, spawned, blocked, pc, msg, next, held, memory, initial,
          file, lastSave, closing, deregistered, removed, faults>>
updateVars == <<pc, msg, next>>
queueVars == <<sent, spawned, blocked>>
deregisterVars == <<closing, deregistered, removed>>

TypeOK ==
  /\ proc \in {"down", "starting", "up"}
  /\ sent \in Nat
  /\ spawned \in SUBSET Messages
  /\ blocked \in Seq(Messages)
  /\ pc \in {"idle", "notify", "inside", "open", "write", "swap"}
  /\ msg \in Messages
  /\ next \in 1..(NumObservers + 1)
  /\ held \in [Observers -> Messages \cup {Nothing}]
  /\ memory \in Messages
  /\ initial \in BOOLEAN
  /\ file \in Messages \cup {NoFile, Torn}
  /\ lastSave \in {"done", "refused", "torn"}
  /\ closing \in {"no", "workloads", "config", "others"}
  /\ deregistered \in BOOLEAN
  /\ removed \in BOOLEAN
  /\ faults \in Nat

Init ==
  /\ proc = "down"
  /\ sent = 0 /\ spawned = {} /\ blocked = <<>>
  /\ pc = "idle" /\ msg = DefaultMessage /\ next = 1
  /\ held = [o \in Observers |-> Nothing]
  /\ memory = DefaultMessage /\ initial = TRUE
  /\ file = NoFile /\ lastSave = "done"
  /\ closing = "no" /\ deregistered = FALSE /\ removed = FALSE
  /\ faults = 0

-----------------------------------------------------------------------------
(* Starting the process *)

\* What NewConfigurationManager makes of the file it finds.
Load(f) == IF f \in {NoFile, Torn} THEN DefaultMessage ELSE f

\* A file that cannot be parsed leaves initialConfig false.
Boot ==
  /\ proc = "down"
  /\ proc' = "starting"
  /\ memory' = Load(file)
  /\ initial' = (file = NoFile)
  /\ next' = 1
  /\ UNCHANGED <<queueVars, pc, msg, held, file, lastSave, deregisterVars, faults>>

\* RegisterObserver calls Init; an observer whose Init failed is kept.
RegisterObserver ==
  /\ proc = "starting"
  /\ next \in Observers
  /\ held' = [held EXCEPT ![next] = memory]
  /\ next' = next + 1
  /\ UNCHANGED <<proc, queueVars, pc, msg, memory, initial, file, lastSave,
                 deregisterVars, faults>>

Serve ==
  /\ proc = "starting"
  /\ next = NumObservers + 1
  /\ proc' = "up"
  /\ UNCHANGED <<queueVars, updateVars, held, memory, initial, file, lastSave,
                 deregisterVars, faults>>

-----------------------------------------------------------------------------
(* The gRPC server *)

\* Send answers at once; its goroutine is still on its way to the channel.
Send(c) ==
  /\ proc = "up"
  /\ sent < MaxSends
  /\ sent' = sent + 1
  /\ spawned' = spawned \cup {[version |-> sent + 1, content |-> c]}
  /\ UNCHANGED <<proc, blocked, updateVars, held, memory, initial, file,
                 lastSave, deregisterVars, faults>>

ReachChannel(m) ==
  /\ proc = "up"
  /\ m \in spawned
  /\ spawned' = spawned \ {m}
  /\ blocked' = Append(blocked, m)
  /\ UNCHANGED <<proc, sent, updateVars, held, memory, initial, file,
                 lastSave, deregisterVars, faults>>

-----------------------------------------------------------------------------
(* Manager.Update, run by the consumer goroutine *)

\* The configurations are compared deeply, workloads and secrets by name.
Changed(m) == m.content # memory.content

ShouldUpdate(m) == Changed(m) \/ initial

\* A message that changes nothing is dropped, its version with it.
Receive ==
  /\ proc = "up"
  /\ pc = "idle"
  /\ blocked # <<>>
  /\ blocked' = Tail(blocked)
  /\ msg' = Head(blocked)
  /\ next' = 1
  /\ pc' = IF ShouldUpdate(Head(blocked)) THEN "notify" ELSE "idle"
  /\ UNCHANGED <<proc, sent, spawned, held, memory, initial, file, lastSave,
                 deregisterVars, faults>>

Deaf(o) == o = WorkloadManager /\ deregistered

\* The workload manager's Update holds its managementLock while it runs.
BeginObserver ==
  /\ proc = "up"
  /\ pc = "notify"
  /\ next \in Observers
  /\ ~Deaf(next)
  /\ pc' = "inside"
  /\ UNCHANGED <<proc, queueVars, msg, next, held, memory, initial, file,
                 lastSave, deregisterVars, faults>>

\* A deregistered workload manager returns as soon as it has the lock.
SkipDeregistered ==
  /\ proc = "up"
  /\ pc = "notify"
  /\ next \in Observers
  /\ Deaf(next)
  /\ next' = next + 1
  /\ UNCHANGED <<proc, queueVars, pc, msg, held, memory, initial, file,
                 lastSave, deregisterVars, faults>>

\* An observer that returns an error was handed the message all the same, and
\* the loop goes on.
EndObserver ==
  /\ proc = "up"
  /\ pc = "inside"
  /\ pc' = "notify"
  /\ next' = next + 1
  /\ held' = [held EXCEPT ![next] = msg]
  /\ UNCHANGED <<proc, queueVars, msg, memory, initial, file, lastSave,
                 deregisterVars, faults>>

\* Mutation: the first observer to fail ends the loop.
FinishObserversAtFailure ==
  /\ proc = "up"
  /\ pc = "notify"
  /\ next > 1
  /\ pc' = "open"
  /\ UNCHANGED <<proc, queueVars, msg, next, held, memory, initial, file,
                 lastSave, deregisterVars, faults>>

FinishObservers ==
  /\ proc = "up"
  /\ pc = "notify"
  /\ next = NumObservers + 1
  /\ pc' = "open"
  /\ UNCHANGED <<proc, queueVars, msg, next, held, memory, initial, file,
                 lastSave, deregisterVars, faults>>

\* Mutation: the file is written before the observers are called.
OpenFileFirst ==
  /\ proc = "up"
  /\ pc \in {"notify", "open"}
  /\ file' = Torn
  /\ pc' = "write"
  /\ UNCHANGED <<proc, queueVars, msg, next, held, memory, initial, lastSave,
                 deregisterVars, faults>>

\* os.WriteFile opens the file with O_TRUNC before it writes.
OpenFile ==
  /\ proc = "up"
  /\ pc = "open"
  /\ file' = Torn
  /\ pc' = "write"
  /\ UNCHANGED <<proc, queueVars, msg, next, held, memory, initial, lastSave,
                 deregisterVars, faults>>

\* A file removed since it was opened stays removed.
WriteFile ==
  /\ proc = "up"
  /\ pc = "write"
  /\ file' = IF file = Torn THEN msg ELSE file
  /\ pc' = "swap"
  /\ UNCHANGED <<proc, queueVars, msg, next, held, memory, initial, lastSave,
                 deregisterVars, faults>>

\* Mutation: a failed save does not return, memory is replaced nonetheless.
FailSaveKeepsMessage ==
  /\ proc = "up"
  /\ faults < MaxFaults
  /\ \/ pc = "open" /\ lastSave' = IF lastSave = "torn" THEN "torn" ELSE "refused"
     \/ pc = "write" /\ lastSave' = "torn"
  /\ pc' = "swap"
  /\ faults' = faults + 1
  /\ UNCHANGED <<proc, queueVars, msg, next, held, memory, initial, file,
                 deregisterVars>>

\* Mutation: the consumer goroutine ends at the first error.
FailSaveEndsConsumer ==
  /\ proc = "up"
  /\ faults < MaxFaults
  /\ \/ pc = "open" /\ lastSave' = IF lastSave = "torn" THEN "torn" ELSE "refused"
     \/ pc = "write" /\ lastSave' = "torn"
  /\ pc' = "ended"
  /\ faults' = faults + 1
  /\ UNCHANGED <<proc, queueVars, msg, next, held, memory, initial, file,
                 deregisterVars>>

\* Update returns before it touches the configuration in memory.
FailSave ==
  /\ proc = "up"
  /\ faults < MaxFaults
  /\ \/ pc = "open" /\ lastSave' = IF lastSave = "torn" THEN "torn" ELSE "refused"
     \/ pc = "write" /\ lastSave' = "torn"
  /\ pc' = "idle"
  /\ faults' = faults + 1
  /\ UNCHANGED <<proc, queueVars, msg, next, held, memory, initial, file,
                 deregisterVars>>

Swap ==
  /\ proc = "up"
  /\ pc = "swap"
  /\ memory' = msg
  /\ initial' = FALSE
  /\ lastSave' = "done"
  /\ pc' = "idle"
  /\ UNCHANGED <<proc, queueVars, msg, next, held, file, deregisterVars, faults>>

-----------------------------------------------------------------------------
(* NotifyEvent(RECEIVED_DISCONNECT) runs Registration.Deregister on a gRPC   *)
(* goroutine, beside the consumer.                                           *)

Disconnect ==
  /\ proc = "up"
  /\ closing = "no"
  /\ closing' = "workloads"
  /\ UNCHANGED <<proc, queueVars, updateVars, held, memory, initial, file,
                 lastSave, deregistered, removed, faults>>

\* Mutation: Deregister does not take the managementLock.
NoManagementLock == FALSE

ManagementLockHeld == pc = "inside" /\ next = WorkloadManager

DeregisterWorkloads ==
  /\ proc = "up"
  /\ closing = "workloads"
  /\ ~ManagementLockHeld
  /\ closing' = "config"
  /\ deregistered' = TRUE
  /\ held' = [held EXCEPT ![WorkloadManager] = Nothing]
  /\ UNCHANGED <<proc, queueVars, updateVars, memory, initial, file, lastSave,
                 removed, faults>>

\* Neither the configuration in memory nor initialConfig is reset.  A file that
\* cannot be removed does not stop Registration.Deregister.
DeregisterConfig ==
  /\ proc = "up"
  /\ closing = "config"
  /\ closing' = "others"
  /\ \/ file' = NoFile /\ removed' = TRUE /\ UNCHANGED faults
     \/ faults < MaxFaults /\ faults' = faults + 1 /\ UNCHANGED <<file, removed>>
  /\ UNCHANGED <<proc, queueVars, updateVars, held, memory, initial, lastSave,
                 deregistered>>

DeregisterOthers ==
  /\ proc = "up"
  /\ closing = "others"
  /\ closing' = "no"
  /\ UNCHANGED <<proc, queueVars, updateVars, held, memory, initial, file,
                 lastSave, deregistered, removed, faults>>

-----------------------------------------------------------------------------
(* Everything but the file is lost. *)
Crash ==
  /\ proc # "down"
  /\ faults < MaxFaults
  /\ proc' = "down"
  /\ spawned' = {} /\ blocked' = <<>>
  /\ pc' = "idle" /\ msg' = DefaultMessage /\ next' = 1
  /\ held' = [o \in Observers |-> Nothing]
  /\ memory' = DefaultMessage /\ initial' = TRUE
  /\ lastSave' = "done"
  /\ closing' = "no" /\ deregistered' = FALSE /\ removed' = FALSE
  /\ faults' = faults + 1
  /\ UNCHANGED <<sent, file>>

Update ==
  \/ Receive \/ BeginObserver \/ SkipDeregistered
  \/ FinishObservers \/ OpenFile \/ WriteFile \/ Swap
Startup == Boot \/ Serve
Deregister == DeregisterWorkloads \/ DeregisterConfig \/ DeregisterOthers

Next ==
  \/ Startup \/ RegisterObserver
  \/ \E c \in Contents : Send(c)
  \/ \E m \in spawned : ReachChannel(m)
  \/ Update \/ EndObserver \/ FailSave
  \/ Disconnect \/ Deregister
  \/ Crash

\* Go runs every goroutine that can run, and systemd restarts the worker.
\* Nothing obliges the dispatcher to send, a save to fail or a crash to come,
\* nor an observer to return: its Init and Update run podman, systemctl and
\* HTTP requests, and OS.Update waits on a channel (os.go:170).
Fairness ==
  /\ WF_vars(Startup)
  /\ WF_vars(\E m \in spawned : ReachChannel(m))
  /\ WF_vars(Update)
  /\ WF_vars(Deregister)

Spec == Init /\ [][Next]_vars /\ Fairness

-----------------------------------------------------------------------------
(* The manager, its file and its observers as ConfigurationService sees them. *)

Service == INSTANCE ConfigurationService WITH
  Default <- DefaultMessage,
  running <- proc # "down",
  handed  <- held,
  excused <- IF deregistered THEN {WorkloadManager} ELSE {},
  current <- memory,
  durable <- Load(file)

-----------------------------------------------------------------------------
(* Properties *)

\* Between two updates every observer, the ones registered after a failing one
\* included, holds the very configuration the manager reports, unless the last
\* save failed: Update then returns with the observers on the new message and
\* memory on the old one.  (configuration.Manager.Update)
ObserversHoldMemory ==
  proc = "up" /\ pc = "idle" /\ lastSave = "done" =>
    \A o \in Observers : Deaf(o) \/ held[o] = memory

\* What is on disk at any moment is what the process runs on, so that a crash
\* at any moment restarts it with the configuration it had or the one it has
\* just handed to every observer; the file is missing only before the first
\* save or after a deregistration.  (Manager.Update, NewConfigurationManager)
DiskMatchesMemory ==
  proc = "up" =>
    \/ file = memory
    \/ file = msg /\ pc = "swap"
    \/ file = NoFile /\ (initial \/ removed)
    \/ file = Torn /\ (pc = "write" \/ lastSave = "torn" \/ memory = DefaultMessage)

\* A configuration is saved only after every observer was handed it, so that a
\* restart never starts the device on a configuration it had not tried.
\* (Manager.Update: the loop over the observers, then os.WriteFile)
SavedAfterHanded ==
  [][file' # file /\ file' \notin {NoFile, Torn} =>
       \A o \in Observers : Deaf(o) \/ held[o] = file']_vars

\* The manager with its goroutines, its file and its crashes keeps the promises
\* of ConfigurationService: whatever is saved or reported was handed to every
\* observer, and a restart starts with what was saved, or with the default.
\* (Manager.Update, Manager.Deregister, NewConfigurationManager)
ImplementsService == Service!Spec

\* Once WorkloadManager.Deregister has returned no configuration reaches the
\* workloads again, whatever update was in progress when it was called.
\* (WorkloadManager.Update and Deregister under managementLock)
DeregisteredForGood == deregistered => held[WorkloadManager] = Nothing

\* No call of an observer's Init or Update lasts for ever.
ObserversReturn ==
  /\ []<>~(proc = "starting" /\ next \in Observers)
  /\ []<>(pc # "inside")

\* As long as the observers return, with or without an error, every message the
\* dispatcher handed to Send is looked at, or is lost in a crash: no error ends
\* the consumer goroutine.  An observer that does not return holds the consumer,
\* and every later message with it.  (NewDeviceServer, Send, Manager.Update)
EveryMessageIsTaken ==
  ObserversReturn => []<>(spawned = {} /\ blocked = <<>> /\ pc = "idle")

\* Once Deregister is through and the process is at rest, the configuration
\* file is gone.  (configuration_test.go, "Delete config file as expected")
FileGoneAfterDeregister ==
  proc = "up" /\ removed /\ closing = "no" /\ pc = "idle"
    /\ spawned = {} /\ blocked = <<>> => file = NoFile
=============================================================================
