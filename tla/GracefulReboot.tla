--------------------------- MODULE GracefulReboot ---------------------------
(***************************************************************************)
(* An operating system upgrade: OS.Update (internal/os/os.go), which runs  *)
(* as an observer of the configuration, once from main while the worker    *)
(* starts and then on the consumer goroutine, and the listener main starts *)
(* as its last step (cmd/device-worker/main.go), which stops the device's  *)
(* work before the reboot.  They meet on two unbuffered channels.          *)
(*                                                                         *)
(* rpm-ostree, systemd and greenboot, which may boot the machine back into *)
(* the commit it came from, are external.  OS management is enabled and    *)
(* upgrades are automatic, as NewOS sets them on an rpm-ostree machine.    *)
(***************************************************************************)
EXTENDS Naturals

CONSTANTS
  NumCommits,   \* bound: OS commits, numbered in the order they are published
  Unknown,      \* UnknownOsImageId
  NoOs,         \* a configuration without an os section
  Empty,        \* the commit id of an os section that gives none
  MaxUpdates,   \* bound: configuration messages
  MaxFaults,    \* bound: failing commands
  MaxRestarts,  \* bound: restarts of the worker, the machine's included
  MaxPlaybooks  \* bound: playbooks running at once

Commits == 1..NumCommits
Requestable == Commits \cup {Empty}

ASSUME ConstantsAssumption ==
  /\ NumCommits \in Nat \ {0}
  /\ Unknown \notin Requestable /\ NoOs \notin Requestable
  /\ Empty \notin Commits
  /\ MaxUpdates \in Nat /\ MaxFaults \in Nat
  /\ MaxRestarts \in Nat /\ MaxPlaybooks \in Nat

VARIABLES
  proc,       \* "init": main registers the OS observer; "up": the worker serves
  pc,         \* where OS.Update is
  asked,      \* the commit of the configuration it was given
  pending,    \* Manager.Update is running, the file not yet written
  saved,      \* the commit in the configuration file
  requested,  \* OS.RequestedOsCommit
  listener,   \* where listenStartGracefulRebootChannel is
  timedOut,   \* OS.Update gave up waiting for the listener
  working,    \* the device's workloads run
  beating,    \* the heartbeat ticker runs
  storeOpen,  \* the metrics store is open
  playbooks,  \* playbooks running (the ansible manager's WaitGroup)
  booted,     \* the commit the machine runs
  staged,     \* the commit it boots next
  remote,     \* the newest commit in the remote
  rebooting,  \* systemctl reboot was accepted
  vacuous,    \* history: since it booted, the machine was upgraded for an empty
              \* commit id when there was nothing to deploy
  updates, faults, restarts

osVars == <<pc, asked, requested, timedOut>>
configVars == <<pending, saved>>
work == <<working, beating, storeOpen>>
machine == <<booted, staged, remote, rebooting, vacuous>>
budget == <<updates, faults, restarts>>
vars == <<proc, osVars, configVars, listener, work, playbooks, machine, budget>>

TypeOK ==
  /\ proc \in {"init", "up"}
  /\ pc \in {"idle", "preview", "upgrade", "signal", "wait", "reboot"}
  /\ asked \in Requestable \cup {NoOs}
  /\ saved \in Requestable \cup {NoOs}
  /\ requested \in Requestable \cup {Unknown}
  /\ listener \in {"absent", "listening", "stop", "drain", "playbooks", "complete"}
  /\ pending \in BOOLEAN /\ timedOut \in BOOLEAN
  /\ rebooting \in BOOLEAN /\ vacuous \in BOOLEAN
  /\ working \in BOOLEAN /\ beating \in BOOLEAN /\ storeOpen \in BOOLEAN
  /\ playbooks \in 0..MaxPlaybooks
  /\ booted \in Commits /\ staged \in Commits /\ remote \in Commits
  /\ updates \in Nat /\ faults \in Nat /\ restarts \in Nat

-----------------------------------------------------------------------------
(* OS.Update *)

\* The first steps: nothing to do without an os section or when the commit was
\* requested before; the request is recorded before anything is tried.
Request(c) ==
  IF c = NoOs \/ c = requested
    THEN pc' = "idle" /\ UNCHANGED requested
    ELSE pc' = "preview" /\ requested' = c

\* A new process: NewOS, then Init, which is Update with the saved message.
\* It returns early without an os section, or if the URL cannot be written.
StartProcess ==
  /\ proc' = "init" /\ listener' = "absent"
  /\ asked' = saved /\ pending' = FALSE
  /\ \/ pc' = "idle" /\ requested' = Unknown
     \/ saved # NoOs /\ pc' = "preview" /\ requested' = saved
  /\ timedOut' = FALSE
  /\ beating' = FALSE /\ storeOpen' = TRUE /\ playbooks' = 0

Init ==
  /\ proc = "init" /\ listener = "absent"
  /\ pc = "idle" /\ asked = NoOs /\ pending = FALSE
  /\ saved = NoOs /\ requested = Unknown /\ timedOut = FALSE
  /\ working = TRUE /\ beating = FALSE /\ storeOpen = TRUE /\ playbooks = 0
  /\ booted = 1 /\ staged = 1 /\ remote = 1
  /\ rebooting = FALSE /\ vacuous = FALSE
  /\ updates = 0 /\ faults = 0 /\ restarts = 0

Fault == faults < MaxFaults /\ faults' = faults + 1
NoFault == UNCHANGED faults

\* Manager.Update reaches the OS observer, or the observer fails to write the
\* new remote URL and returns before it looks at the commit.
BeginUpdate(c) ==
  /\ proc = "up" /\ ~pending
  /\ updates < MaxUpdates
  /\ updates' = updates + 1
  /\ asked' = c /\ pending' = TRUE
  /\ \/ Request(c) /\ NoFault
     \/ c # NoOs /\ Fault /\ UNCHANGED <<pc, requested>>
  /\ UNCHANGED <<proc, timedOut, saved, listener, work, playbooks, machine,
                 restarts>>

\* The preview shows the newest commit when it is not the one that runs.  Its
\* output is searched for the commit id as text: any output has the empty one.
Shown == asked = Empty \/ (asked = remote /\ remote # booted)

\* Mutation: the device's work is stopped before the upgrade is downloaded.
PreviewThenStop ==
  /\ pc = "preview"
  /\ pc' = IF Shown THEN "signal" ELSE "idle"
  /\ UNCHANGED <<proc, asked, requested, timedOut, configVars, listener, work,
                 playbooks, machine, budget>>

Preview ==
  /\ pc = "preview"
  /\ \/ pc' = (IF Shown THEN "upgrade" ELSE "idle") /\ NoFault
     \/ pc' = "idle" /\ Fault
  /\ UNCHANGED <<proc, asked, requested, timedOut, configVars, listener, work,
                 playbooks, machine, updates, restarts>>

\* The greenboot scripts are written, then rpm-ostree deploys the newest commit;
\* it reports success as well when that is the one that runs.
Upgrade ==
  /\ pc = "upgrade"
  /\ \/ /\ pc' = "signal" /\ staged' = remote /\ NoFault
        /\ vacuous' = (vacuous \/ (asked = Empty /\ remote = booted))
     \/ pc' = "idle" /\ UNCHANGED <<staged, vacuous>> /\ Fault
  /\ UNCHANGED <<proc, asked, requested, timedOut, configVars, listener, work,
                 playbooks, booted, remote, rebooting, updates, restarts>>

\* The two goroutines meet on GracefulRebootChannel.
Signal ==
  /\ pc = "signal" /\ listener = "listening"
  /\ pc' = "wait" /\ listener' = "stop"
  /\ timedOut' = FALSE
  /\ UNCHANGED <<proc, asked, requested, configVars, work, playbooks, machine, budget>>

\* Mutation: the wait for the listener has no time limit.
TimeoutNever == FALSE /\ UNCHANGED vars

\* Ten seconds without an answer.
Timeout ==
  /\ pc = "wait"
  /\ pc' = "reboot" /\ timedOut' = TRUE
  /\ UNCHANGED <<proc, asked, requested, configVars, listener, work, playbooks,
                 machine, budget>>

\* systemctl reboot returns while the machine is still going down.
SystemReboot ==
  /\ pc = "reboot"
  /\ pc' = "idle"
  /\ \/ rebooting' = TRUE /\ NoFault
     \/ UNCHANGED rebooting /\ Fault
  /\ UNCHANGED <<proc, asked, requested, timedOut, configVars, listener, work,
                 playbooks, booted, staged, remote, vacuous, updates, restarts>>

-----------------------------------------------------------------------------
(* The listener *)

\* WorkloadManager.StopWorkloads reports success; an error is fatal, see Fatal.
\* A pod it does not find by its recorded id counts as stopped: what then still
\* runs is WorkloadManager's matter (StopStopsAll).
StopWorkloads ==
  /\ listener = "stop"
  /\ listener' = "drain"
  /\ working' = FALSE
  /\ UNCHANGED <<proc, osVars, configVars, beating, storeOpen, playbooks, machine, budget>>

\* Mutation: the completion is sent while the work is being stopped.
DrainInBackground ==
  /\ listener = "drain"
  /\ listener' = "complete"
  /\ UNCHANGED <<proc, osVars, configVars, work, playbooks, machine, budget>>

\* The data monitor, the system metrics, the metrics store and the heartbeat
\* are deregistered.  The store's second Close in a process panics.
Drain ==
  /\ listener = "drain" /\ storeOpen
  /\ listener' = "playbooks"
  /\ storeOpen' = FALSE /\ beating' = FALSE
  /\ UNCHANGED <<proc, osVars, configVars, working, playbooks, machine, budget>>

\* WaitPlaybookCompletion
WaitPlaybooks ==
  /\ listener = "playbooks" /\ playbooks = 0
  /\ listener' = "complete"
  /\ UNCHANGED <<proc, osVars, configVars, work, playbooks, machine, budget>>

\* The two goroutines meet on GracefulRebootCompletionChannel.
Complete ==
  /\ listener = "complete" /\ pc = "wait"
  /\ listener' = "listening" /\ pc' = "reboot"
  /\ UNCHANGED <<proc, asked, requested, timedOut, configVars, work, playbooks,
                 machine, budget>>

\* log.Fatalf, or the panic of a store closed twice, ends the process; systemd
\* starts it again, with the workloads as they are.
Fatal ==
  /\ \/ listener \in {"stop", "drain"} /\ Fault /\ working' \in {working, FALSE}
     \/ listener = "drain" /\ ~storeOpen /\ NoFault /\ UNCHANGED working
  /\ StartProcess
  /\ UNCHANGED <<saved, machine, updates, restarts>>

-----------------------------------------------------------------------------
(* The rest of the worker *)

\* main goes on once Init has returned: the heartbeat, then the listener.
EndInit ==
  /\ proc = "init" /\ pc = "idle"
  /\ proc' = "up" /\ listener' = "listening" /\ beating' = TRUE
  /\ UNCHANGED <<osVars, configVars, working, storeOpen, playbooks, machine, budget>>

\* The other observers ran, whatever OS.Update returned, and the file is saved.
Save ==
  /\ proc = "up" /\ pending /\ pc = "idle"
  /\ saved' = asked /\ pending' = FALSE
  /\ UNCHANGED <<proc, osVars, listener, work, playbooks, machine, budget>>

\* The ansible ticker is not stopped by the listener.
StartPlaybook ==
  /\ proc = "up" /\ playbooks < MaxPlaybooks
  /\ playbooks' = playbooks + 1
  /\ UNCHANGED <<proc, osVars, configVars, listener, work, machine, budget>>

EndPlaybook ==
  /\ playbooks > 0
  /\ playbooks' = playbooks - 1
  /\ UNCHANGED <<proc, osVars, configVars, listener, work, machine, budget>>

-----------------------------------------------------------------------------
(* The machine *)

\* rpm-ostree does not go back to an older commit, so the newest one advances.
Publish ==
  /\ remote < NumCommits
  /\ remote' = remote + 1
  /\ UNCHANGED <<proc, osVars, configVars, listener, work, playbooks, booted,
                 staged, rebooting, vacuous, budget>>

\* The machine comes back in the staged commit, or greenboot's health check
\* fails and it comes back in the old one.  Enabled units start the workloads.
Reboot ==
  /\ rebooting
  /\ rebooting' = FALSE
  /\ booted' \in {booted, staged}
  /\ staged' = booted'
  /\ working' = TRUE /\ vacuous' = FALSE
  /\ StartProcess
  /\ UNCHANGED <<saved, remote, budget>>

\* The worker alone dies and is started again.
Restart ==
  /\ restarts < MaxRestarts
  /\ restarts' = restarts + 1
  /\ StartProcess
  /\ UNCHANGED <<saved, working, machine, updates, faults>>

Program ==
  \/ Preview \/ Upgrade \/ Signal \/ Timeout \/ SystemReboot
  \/ StopWorkloads \/ Drain \/ WaitPlaybooks \/ Complete \/ Fatal
  \/ EndInit \/ Save

Next ==
  \/ Program
  \/ \E c \in Requestable \cup {NoOs} : BeginUpdate(c)
  \/ StartPlaybook \/ EndPlaybook
  \/ Publish
  \/ Reboot \/ Restart

\* Every goroutine that can run does, and a reboot that was accepted comes.
\* Messages, commits, faults and restarts need not come; a playbook may hang.
Fairness ==
  /\ WF_vars(Preview \/ Upgrade \/ Signal \/ Timeout \/ Complete \/ SystemReboot)
  /\ WF_vars(StopWorkloads \/ Drain \/ WaitPlaybooks \/ Fatal)
  /\ WF_vars(EndInit) /\ WF_vars(Save)
  /\ WF_vars(Reboot)

Spec == Init /\ [][Next]_vars /\ Fairness

-----------------------------------------------------------------------------
(* Properties *)

\* The workloads are stopped only for a commit that is deployed and waits for
\* the reboot, so that an upgrade that cannot be found or downloaded never
\* costs the device its work.  The one exception is an os section without a
\* commit id, for which a machine with nothing to install is stopped and
\* rebooted all the same.  (OS.Update: preview, upgrade, graceful reboot)
StoppedOnlyForUpgrade == ~working => staged # booted \/ vacuous

\* Unless the ten seconds are over, systemctl reboot is called only after the
\* workloads, the heartbeat and the metrics store were stopped.
\* (gracefulRebootFlow, listenStartGracefulRebootChannel)
RebootAfterDrain ==
  pc = "reboot" /\ ~timedOut => ~working /\ ~beating /\ ~storeOpen

\* Once the listener has taken a request, OS.Update comes back in bounded time
\* even if a playbook never ends, unless the worker dies meanwhile.
\* (gracefulRebootFlow, the ten seconds)
AcceptedRebootEnds == pc = "wait" ~> pc = "idle" \/ proc = "init"

\* OS.Update always comes back: the flow it starts has a listener and a time
\* limit.  (os.go, TimeoutToGracefulRebootInSeconds; os_test.go)
UpdateEnds == pc # "idle" ~> pc = "idle"
=============================================================================
