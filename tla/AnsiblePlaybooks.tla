-------------------------- MODULE AnsiblePlaybooks --------------------------
(***************************************************************************)
(* Playbook executions (internal/ansible/ansible_manager.go,               *)
(* ansible/mapping/mapping.go).                                            *)
(*                                                                         *)
(* On a tick the manager asks the operator for playbooks and handles them  *)
(* one after the other, under sendLock, whichever ticker ticked.  A        *)
(* playbook is recorded in the mapping and run by a goroutine of its own,  *)
(* here its runner, which speaks to the handler over two unbuffered        *)
(* channels; the handler waits for it at most for the timeout.  main runs  *)
(* what the mapping holds when the process starts, and waits for what runs *)
(* before a graceful reboot.                                               *)
(*                                                                         *)
(* The operator and ansible-playbook are external.                         *)
(***************************************************************************)
EXTENDS Naturals, Sequences, FiniteSets

CONSTANTS
  Names,       \* playbook executions, by name
  Path,        \* the path of a file, as the content of another
  Batches,     \* what the operator may answer: sequences of names
  MaxMessages, \* bound: answers with playbooks
  MaxRuns,     \* bound: runners
  MaxFaults,   \* bound: failing calls and crashes
  None

ASSUME ConstantsAssumption ==
  /\ Batches \subseteq Seq(Names) \ {<<>>}
  /\ {Path, None} \cap Names = {} /\ Path # None
  /\ MaxMessages \in Nat /\ MaxRuns \in Nat /\ MaxFaults \in Nat

Messages == 1..MaxMessages
Runs == 1..MaxRuns
Final == {"CompletedWithError", "SuccessfullyCompleted"}
Statuses == {"absent", "Deploying", "Running"} \cup Final

VARIABLES
  proc,       \* "load", "pending" while main runs what is pending, or "up"
  toRun,      \* what main has left of it
  \* the handler
  hpc,        \* where it is
  batch,      \* playbooks of the message it has not handled
  message,    \* number of the message
  current,    \* the runner it waits for
  tmpFile,    \* the message whose playbook file exists in /tmp, or 0
  wg,         \* the WaitGroup
  waiter,     \* main's call of WaitPlaybookCompletion: "no", "waiting", "returned"
  \* the runners, numbered by the modification time they record
  runs,       \* runners so far
  rpc,        \* per runner, where it is
  name, path, \* per runner, its playbook and the message it came with
  outcome,    \* per runner, how ansible-playbook ended, until it is used
  \* the mapping
  entries,    \* modTimeToPath: runners whose path is recorded
  owner,      \* pathToName, per message
  status,     \* nameStatus
  copy,       \* per message, what the file of its path's hash holds
  savedOwner, savedStatus, savedEntries, \* playbook-mapping.json
  \* history
  done,       \* playbooks that completed, and whose completion was persisted
  again,      \* one of them was run again
  left,       \* runners a handler left behind when its time was up
  covered,    \* runners active when WaitPlaybookCompletion was called
  faults

handler == <<hpc, batch, message, current, tmpFile, wg>>
runners == <<runs, rpc, name, path, outcome>>
mapping == <<entries, owner, status, copy>>
saved == <<savedOwner, savedStatus, savedEntries>>
history == <<done, again, left>>
waiting == <<waiter, covered>>
vars == <<proc, toRun, handler, runners, mapping, saved, history, waiting, faults>>

TypeOK ==
  /\ proc \in {"load", "pending", "up"}
  /\ toRun \subseteq entries
  /\ hpc \in {"idle", "check", "add", "start", "wait", "events"}
  /\ batch \in Seq(Names)
  /\ message \in 0..MaxMessages /\ tmpFile \in 0..MaxMessages
  /\ current \in 0..runs
  /\ wg \in 0..1 /\ waiter \in {"no", "waiting", "returned"}
  /\ runs \in 0..MaxRuns
  /\ rpc \in [Runs -> {"none", "check", "begin", "run", "update", "results", "remove",
                       "signal", "gone"}]
  /\ name \in [Runs -> Names \cup {None}] /\ path \in [Runs -> 0..MaxMessages]
  /\ outcome \in [Runs -> {"none", "ok", "error", "unparsed"}]
  /\ entries \subseteq 1..runs /\ savedEntries \subseteq 1..runs
  /\ owner \in [Messages -> Names \cup {None}]
  /\ savedOwner \in [Messages -> Names \cup {None}]
  /\ status \in [Names -> Statuses] /\ savedStatus \in [Names -> Statuses]
  /\ copy \in [Messages -> Names \cup {Path, None}]
  /\ done \subseteq Names
  /\ again \in BOOLEAN /\ left \subseteq Runs /\ covered \subseteq Runs
  /\ faults \in 0..MaxFaults

Init ==
  /\ proc = "load" /\ toRun = {}
  /\ hpc = "idle" /\ batch = <<>> /\ message = 0 /\ current = 0 /\ tmpFile = 0 /\ wg = 0
  /\ runs = 0 /\ rpc = [e \in Runs |-> "none"]
  /\ name = [e \in Runs |-> None] /\ path = [e \in Runs |-> 0]
  /\ outcome = [e \in Runs |-> "none"]
  /\ entries = {} /\ savedEntries = {}
  /\ owner = [m \in Messages |-> None] /\ savedOwner = owner
  /\ status = [n \in Names |-> "absent"] /\ savedStatus = status
  /\ copy = [m \in Messages |-> None]
  /\ done = {} /\ again = FALSE /\ left = {}
  /\ waiter = "no" /\ covered = {}
  /\ faults = 0

Fault == faults < MaxFaults /\ faults' = faults + 1

-----------------------------------------------------------------------------
(* Start-up *)

\* NewMappingRepository
Load ==
  /\ proc = "load"
  /\ proc' = "pending"
  /\ entries' = savedEntries /\ toRun' = savedEntries
  /\ owner' = savedOwner /\ status' = savedStatus
  /\ UNCHANGED <<handler, runners, copy, saved, history, waiting, faults>>

\* ExecutePendingPlaybooks runs the copies in the order of a map.  One that is
\* no playbook gives no results, and ends it.
RunPending(e) ==
  LET content == copy[path[e]]
  IN /\ proc = "pending"
     /\ e \in toRun
     /\ toRun' = {d \in toRun \ {e} : content \in Names}
     /\ UNCHANGED <<proc, handler, runners, mapping, saved, history, waiting, faults>>

Serve ==
  /\ proc = "pending" /\ toRun = {}
  /\ proc' = "up"
  /\ UNCHANGED <<toRun, handler, runners, mapping, saved, history, waiting, faults>>

-----------------------------------------------------------------------------
(* The mapping *)

\* Mutation: the mapping file is left for later.
PersistLater == UNCHANGED saved

\* persist writes each recorded path with its name and the status of that name.
Persist ==
  /\ savedEntries' = entries'
  /\ savedOwner' = owner'
  /\ savedStatus' = [n \in Names |->
       IF \E e \in entries' : owner'[path'[e]] = n THEN status'[n] ELSE "absent"]

-----------------------------------------------------------------------------
(* pushInformation, send and HandlePlaybook *)

At(s) == proc = "up" /\ hpc = s

\* A tick whose answer has playbooks, or none.
Push(b) ==
  /\ At("idle")
  /\ message < MaxMessages /\ runs + Len(b) <= MaxRuns
  /\ message' = message + 1
  /\ batch' = b
  /\ hpc' = "check"
  /\ tmpFile' = message + 1
  /\ UNCHANGED <<proc, toRun, current, wg, runners, mapping, saved, history, waiting, faults>>

PushNothing == At("idle") /\ UNCHANGED vars

\* HandlePlaybook returns and removes its file; the next playbook of the message
\* writes it again.
Return ==
  /\ batch' = Tail(batch)
  /\ hpc' = IF batch' = <<>> THEN "idle" ELSE "check"
  /\ tmpFile' = IF batch' = <<>> THEN 0 ELSE message
  /\ current' = 0

\* A playbook that completed is refused; one that is incomplete, or whose file
\* cannot be written, too.
Check ==
  /\ At("check")
  /\ \/ /\ IF status[Head(batch)] \in Final
             THEN Return
             ELSE hpc' = "add" /\ UNCHANGED <<batch, current, tmpFile>>
        /\ UNCHANGED faults
     \/ Return /\ Fault
  /\ UNCHANGED <<proc, toRun, message, wg, runners, mapping, saved, history,
                 waiting>>

\* MappingRepository.Add is given the path of the playbook as its content.  When
\* the mapping cannot be persisted the memory has the entry all the same.
Add ==
  LET e == runs + 1
      n == Head(batch)
  IN /\ At("add")
     /\ runs' = e
     /\ name' = [name EXCEPT ![e] = n] /\ path' = [path EXCEPT ![e] = message]
     /\ entries' = entries \cup {e}
     /\ owner' = [owner EXCEPT ![message] = n]
     /\ status' = [status EXCEPT ![n] = "Deploying"]
     /\ copy' = [copy EXCEPT ![message] = Path]
     /\ \/ /\ Persist
           /\ hpc' = "start" /\ current' = e
           /\ UNCHANGED <<batch, tmpFile, faults>>
        \/ Return /\ Fault /\ UNCHANGED saved
     /\ UNCHANGED <<proc, toRun, message, wg, rpc, outcome, history, waiting>>

\* Mutation: the WaitGroup is told by the runner.
StartUncounted ==
  /\ At("start")
  /\ hpc' = "wait"
  /\ rpc' = [rpc EXCEPT ![current] = "check"]
  /\ UNCHANGED <<proc, toRun, batch, message, current, tmpFile, wg, runs, name, path,
                 outcome, mapping, saved, history, waiting, faults>>

Start ==
  /\ At("start")
  /\ hpc' = "wait"
  /\ wg' = wg + 1
  /\ rpc' = [rpc EXCEPT ![current] = "check"]
  /\ UNCHANGED <<proc, toRun, batch, message, current, tmpFile, runs, name, path,
                 outcome, mapping, saved, history, waiting, faults>>

\* Mutation: the handler waits without a limit.
TimeoutNever == FALSE /\ UNCHANGED vars

\* wg.Done, which ends a wait when it was the last one.
Done ==
  /\ wg' = wg - 1
  /\ waiter' = IF waiter = "waiting" /\ wg' = 0 THEN "returned" ELSE waiter

\* The context of the handler is done first, and the runner is left alone.
Timeout ==
  /\ At("wait")
  /\ Return /\ Done
  /\ left' = left \cup {current}
  /\ UNCHANGED <<proc, toRun, message, runners, mapping, saved, done, again, covered,
                 faults>>

\* sendEvents is done.  Its reply to the dispatcher has no deadline.
EventsSent ==
  /\ At("events")
  /\ hpc' = "wait"
  /\ UNCHANGED <<proc, toRun, batch, message, current, tmpFile, wg, runners, mapping,
                 saved, history, waiting, faults>>

-----------------------------------------------------------------------------
(* execPlaybook *)

Runner(e, s) == proc = "up" /\ e \in Runs /\ rpc[e] = s
Go(e, s) == rpc' = [rpc EXCEPT ![e] = s]
Waits(e) == hpc = "wait" /\ current = e

\* A playbook that is not deploying is in execution elsewhere; the file may be
\* gone.
CheckRunner(e) ==
  /\ Runner(e, "check")
  /\ Go(e, IF status[name[e]] = "Deploying" /\ tmpFile = path[e] THEN "begin" ELSE "signal")
  /\ UNCHANGED <<proc, toRun, handler, runs, name, path, outcome, mapping, saved, history,
                 waiting, faults>>

Begin(e) ==
  /\ Runner(e, "begin")
  /\ Go(e, "run")
  /\ status' = [status EXCEPT ![name[e]] = "Running"]
  /\ again' = (again \/ name[e] \in done)
  /\ UNCHANGED <<proc, toRun, handler, runs, name, path, outcome, entries, owner, copy,
                 saved, done, left, waiting, faults>>

\* ansible-playbook ends with or without results; it is killed when the runner's
\* own context is done.
Finish(e) ==
  /\ Runner(e, "run")
  /\ Go(e, "update")
  /\ \E o \in {"ok", "error", "unparsed"} : outcome' = [outcome EXCEPT ![e] = o]
  /\ UNCHANGED <<proc, toRun, handler, runs, name, path, mapping, saved, history, waiting, faults>>

\* The final status, in memory.
UpdateStatus(e) ==
  /\ Runner(e, "update")
  /\ Go(e, IF outcome[e] = "unparsed" THEN "signal" ELSE "results")
  /\ status' = [status EXCEPT ![name[e]] =
       IF outcome[e] = "ok" THEN "SuccessfullyCompleted" ELSE "CompletedWithError"]
  /\ outcome' = [outcome EXCEPT ![e] = "none"]
  /\ UNCHANGED <<proc, toRun, handler, runs, name, path, entries, owner, copy, saved,
                 history, waiting, faults>>

\* The results, which only a waiting handler takes.
SendResults(e) ==
  /\ Runner(e, "results") /\ Waits(e)
  /\ Go(e, "remove")
  /\ hpc' = "events"
  /\ UNCHANGED <<proc, toRun, batch, message, current, tmpFile, wg, runs, name, path,
                 outcome, mapping, saved, history, waiting, faults>>

\* MappingRepository.Remove is given the content of the playbook, whose hash is
\* not that of any path: it removes nothing, and persists the status.
Remove(e) ==
  /\ Runner(e, "remove")
  /\ Go(e, "signal")
  /\ UNCHANGED <<entries, owner, status, path>>
  /\ \/ Persist /\ done' = done \cup {name[e]} /\ UNCHANGED faults
     \/ Fault /\ UNCHANGED <<saved, done>>
  /\ UNCHANGED <<proc, toRun, handler, runs, name, outcome, copy, again, left, waiting>>

\* The end, which only a waiting handler takes.
Signal(e) ==
  /\ Runner(e, "signal") /\ Waits(e)
  /\ Go(e, "gone")
  /\ Return /\ Done
  /\ UNCHANGED <<proc, toRun, message, runs, name, path, outcome, mapping, saved, history,
                 covered, faults>>

Active(e) == rpc[e] \notin {"none", "gone"}

\* WaitPlaybookCompletion, called by main's listener in a graceful reboot, once
\* in a process: before a second one the metrics store would be closed again,
\* which panics.  The ticker is not stopped and may begin another playbook.
CallWait ==
  /\ proc = "up" /\ waiter = "no"
  /\ waiter' = IF wg = 0 THEN "returned" ELSE "waiting"
  /\ covered' = {e \in Runs : Active(e)}
  /\ UNCHANGED <<proc, toRun, handler, runners, mapping, saved, history, faults>>

-----------------------------------------------------------------------------
Crash ==
  /\ proc # "load"
  /\ Fault
  /\ proc' = "load" /\ toRun' = {}
  /\ hpc' = "idle" /\ batch' = <<>> /\ current' = 0 /\ tmpFile' = 0 /\ wg' = 0
  /\ rpc' = [e \in Runs |-> IF rpc[e] = "none" THEN "none" ELSE "gone"]
  /\ outcome' = [e \in Runs |-> "none"]
  /\ waiter' = "no" /\ covered' = {}
  /\ UNCHANGED <<message, runs, name, path, mapping, saved, done, again, left>>

Handle == Check \/ Add \/ Start

Execute(e) ==
  \/ CheckRunner(e) \/ Begin(e) \/ UpdateStatus(e) \/ SendResults(e) \/ Remove(e) \/ Signal(e)

Next ==
  \/ Load \/ (\E e \in Runs : RunPending(e)) \/ Serve
  \/ (\E b \in Batches : Push(b)) \/ PushNothing
  \/ Handle \/ Timeout \/ EventsSent
  \/ \E e \in Runs : Execute(e) \/ Finish(e)
  \/ CallWait
  \/ Crash

\* The handler and the runners run when they can.  ansible-playbook itself need
\* not end, but the timeout passes.  The dispatcher need not take a reply.
Fairness ==
  /\ WF_vars(Handle)
  /\ WF_vars(Timeout)
  /\ \A e \in Runs : WF_vars(Execute(e))

Spec == Init /\ [][Next]_vars /\ Fairness

-----------------------------------------------------------------------------
(* Properties *)

\* A playbook whose completion was persisted is not run again, in this process
\* or after a restart, unless a timeout left a runner behind or two playbooks
\* came in one message, whose file and path they share.
\* (HandlePlaybook, execPlaybook: "Check if the playbook has been already
\* executed on the device")
NotRunAgain ==
  \/ left # {}
  \/ \E e, f \in 1..runs : e # f /\ path[e] = path[f]
  \/ ~again

\* When WaitPlaybookCompletion returns, what ran as main called it has ended,
\* unless its handler left it behind when its time was up.  A playbook that
\* begins after the call need not have.  (main's graceful reboot)
WaitCoversRuns == waiter = "returned" => \A e \in covered : ~Active(e) \/ e \in left

\* The dispatcher takes every reply in the end.
RepliesTaken == []<>(hpc # "events")

\* Handling a playbook ends, however long it runs, so that the ticker goes on:
\* as long as the dispatcher takes the replies.  (HandlePlaybook, sendEvents)
HandlerReturns == RepliesTaken => (current # 0 ~> current = 0)
=============================================================================
