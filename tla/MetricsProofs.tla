--------------------------- MODULE MetricsProofs ---------------------------
(***************************************************************************)
(* What holds of the metrics for any workloads, configurations, events and *)
(* faults: the types; that the system's target and node_exporter follow    *)
(* the configuration; that the store keeps the configured retention; and   *)
(* that no target is without a pod once the events are handled.            *)
(***************************************************************************)
EXTENDS Metrics, TLAPS

\* The parts of TypeOK, kept one by one.
ConfigOK ==
  /\ pc \in Steps /\ msg \in Messages /\ saved \in Messages
  /\ result \in [{"store", "system"} -> {"ok", "error"}]
  /\ latest \in [Components -> Nat \cup {None}]
  /\ config.metered \subseteq config.workloads /\ config.workloads \subseteq Workloads
  /\ closing \in {"no", "pods", "system", "store", "done"}

ExporterOK == exporter \in [enabled : BOOLEAN, running : BOOLEAN]

TargetsOK ==
  /\ current \in [Names -> Nat] /\ clashed \subseteq Components
  /\ store \in Nat \cup {None} /\ applied \in Nat
  /\ faults \in 0..MaxFaults

EventsOK ==
  /\ pods \subseteq Workloads
  /\ stream \in Seq(PodEvents)
  /\ sent \subseteq Workloads /\ handling \in Workloads \cup {None}

FlagsOK ==
  /\ listening \in BOOLEAN /\ late \in BOOLEAN
  /\ halfway \in BOOLEAN /\ broken \in BOOLEAN

\* What the Update of SystemMetrics has done.
System ==
  /\ closing = "no" /\ latest["system"] # None /\ "system" \notin clashed =>
       current["system"] = latest["system"]
  /\ pc \in {"transfer", "subscribe", "pods", "save", "idle"} /\ result["system"] = "ok" =>
       latest["system"] = Wanted("system")

\* What it has done of node_exporter: nothing, one call, or both.
Exporter ==
  /\ pc = "exporter" =>
       IF Wanted("system") = 0 THEN ~exporter.running ELSE exporter.enabled
  /\ pc = "target" =>
       exporter = [enabled |-> Wanted("system") # 0, running |-> Wanted("system") # 0]
  /\ ~halfway /\ pc \notin {"exporter", "target"} /\ latest["system"] # None =>
       exporter = [enabled |-> latest["system"] # 0, running |-> latest["system"] # 0]

\* The open store has the retention that was noted, which is the one asked for.
Retention ==
  closing = "no" /\ ~broken /\ pc # "down" =>
    /\ store = applied
    /\ pc # "store" /\ result["store"] = "ok" => store = msg.retention

Started(w) == [kind |-> "started", name |-> w]
Stopped(w) == [kind |-> "stopped", name |-> w]

\* The events say that w stopped; they do, after every start of w.
SaysStopped(s, w) == \E i \in DOMAIN s : s[i] = Stopped(w)
EndsStopped(s, w) ==
  \A i \in DOMAIN s : s[i] = Started(w) => \E j \in DOMAIN s : j > i /\ s[j] = Stopped(w)

\* A target of a workload without a pod, or a start of one, has its stopped event
\* before it; and only an observer has targets.
Scraped ==
  /\ ~listening => handling = None /\ \A w \in Workloads \ Components : current[w] = 0
  /\ \A w \in (Workloads \ pods) \ Components :
       /\ EndsStopped(stream, w)
       /\ (current[w] # 0 \/ handling = w) /\ ~late => SaysStopped(stream, w)

-----------------------------------------------------------------------------
\* The ends of a sequence are of its kind.
LEMMA Ends ==
  ASSUME NEW S, NEW q \in Seq(S), NEW x \in S
  PROVE  Append(q, x) \in Seq(S) /\ (q # <<>> => Head(q) \in S)
OBVIOUS

\* The death of the process keeps the types.
LEMMA DieTyped ==
  ASSUME Die
  PROVE  /\ current' \in [Names -> Nat] /\ clashed' \subseteq Components
         /\ store' \in Nat \cup {None} /\ applied' = applied
         /\ (EventsOK => EventsOK')
<1>1. current' \in [Names -> Nat] /\ clashed' \subseteq Components
  BY DEF Die
<1>2. store' \in Nat \cup {None} /\ applied' = applied
  BY DEF Die
<1>3. pods' = pods /\ stream' = <<>> /\ sent' = {} /\ handling' = None
  BY DEF Die
<1>4. EventsOK => EventsOK'
  BY <1>3 DEF EventsOK
<1>5. QED
  BY <1>1, <1>2, <1>4

\* Setting and deleting a target keep its types.
LEMMA TargetStep ==
  ASSUME TargetsOK, NEW n \in Names, NEW i \in Nat, DeleteTarget(n) \/ AddTarget(n, i)
  PROVE  current' \in [Names -> Nat]
BY DEF TargetsOK, DeleteTarget, AddTarget

\* What a configuration has.
LEMMA OfMessage ==
  ASSUME NEW m \in Messages
  PROVE  /\ m.retention \in Nat
         /\ m.metered \subseteq m.workloads /\ m.workloads \subseteq Workloads
         /\ \A c \in Components : m.intervals[c] \in Nat
BY ConstantsAssumption

\* The invariant holds before the first configuration.
LEMMA Initially ==
  Init => ConfigOK /\ ExporterOK /\ TargetsOK /\ EventsOK /\ FlagsOK /\ System /\ Exporter
            /\ Retention /\ Scraped
<1> SUFFICES ASSUME Init
             PROVE  ConfigOK /\ ExporterOK /\ TargetsOK /\ EventsOK /\ FlagsOK /\ System
                    /\ Exporter /\ Retention /\ Scraped
  OBVIOUS
<1> USE ConstantsAssumption, OfMessage DEF Init
<1>1. ConfigOK
  BY DEF ConfigOK, Steps
<1>2. ExporterOK
  BY DEF ExporterOK
<1>3. TargetsOK
  BY DEF TargetsOK
<1>4. EventsOK
  BY DEF EventsOK
<1>5. FlagsOK
  BY DEF FlagsOK
<1>6. System /\ Exporter /\ Retention
  BY DEF System, Exporter, Retention, Components
<1>7. Scraped
  BY DEF Scraped, EndsStopped, Names
<1>8. QED
  BY <1>1, <1>2, <1>3, <1>4, <1>5, <1>6, <1>7

\* Every step keeps the types of the configuration.
LEMMA ConfigInductive == ConfigOK /\ [Next]_vars => ConfigOK'
<1> SUFFICES ASSUME ConfigOK, [Next]_vars PROVE ConfigOK'
  OBVIOUS
<1> USE OfMessage DEF ConfigOK, Steps, configVars, systemVars, targets, storage, events
<1>1. CASE Boot
  BY <1>1 DEF Boot
<1>2. CASE Crash
  BY <1>2 DEF Crash, Die, Fault
<1>3. CASE UpdateStore
  BY <1>3 DEF UpdateStore, Return, Reopen, FailReopen, Die, Fault
<1>4. CASE UpdateWorkloads
  BY <1>4 DEF UpdateWorkloads
<1>5. CASE UpdateSystem
  BY <1>5 DEF UpdateSystem, Return, Unchanged, Wanted, FirstCall, RememberFailed,
     Fault
<1>6. CASE EndExporter
  BY <1>6 DEF EndExporter, Return, SecondCall, Wanted, RememberFailed, Fault
<1>7. CASE UpdateTarget
  BY <1>7 DEF UpdateTarget, SetTarget, Wanted, DeleteTarget, AddTarget, Return
<1>8. CASE UpdateTransfer
  BY <1>8 DEF UpdateTransfer, Unchanged, SetTarget, Wanted, DeleteTarget, AddTarget
<1>9. CASE Subscribe
  BY <1>9 DEF Subscribe
<1>10. CASE EndPods
  BY <1>10 DEF EndPods, Fault
<1>11. CASE Save
  BY <1>11 DEF Save
<1>12. ASSUME NEW m \in Messages, Update(m) PROVE ConfigOK'
  BY <1>12 DEF Update
<1>13. ASSUME NEW w \in Workloads, StartPod(w) PROVE ConfigOK'
  BY <1>13 DEF StartPod, Fault
<1>14. ASSUME NEW w \in Workloads, RemovePod(w) PROVE ConfigOK'
  BY <1>14 DEF RemovePod, Subscribed, PodEvents
<1>15. ASSUME NEW w \in Workloads, ReplacePod(w) PROVE ConfigOK'
  BY <1>15 DEF ReplacePod, Subscribed, PodEvents
<1>16. ASSUME NEW w \in Workloads, HandleSent(w) PROVE ConfigOK'
  BY <1>16 DEF HandleSent, Handle
<1>17. CASE HandleEvent
  BY <1>17 DEF HandleEvent, DeleteTarget, Handle, Clash
<1>18. CASE AddWorkload
  BY <1>18 DEF AddWorkload, AddTarget, Clash
<1>19. CASE Deregister
  BY <1>19 DEF Deregister
<1>20. CASE DeregisterPods
  BY <1>20 DEF DeregisterPods, Fault
<1>21. CASE DeregisterSystem
  BY <1>21 DEF DeregisterSystem, DeleteTarget
<1>22. CASE DeregisterStore
  BY <1>22 DEF DeregisterStore, Die
<1>23. CASE UNCHANGED vars
  BY <1>23 DEF vars
<1>24. QED
  BY <1>1, <1>2, <1>3, <1>4, <1>5, <1>6, <1>7, <1>8, <1>9, <1>10, <1>11, <1>12, <1>13,
     <1>14, <1>15, <1>16, <1>17, <1>18, <1>19, <1>20, <1>21, <1>22, <1>23
     DEF Next, Observe

\* Every step keeps the type of the exporter.
LEMMA ExporterTyped == ExporterOK /\ [Next]_vars => ExporterOK'
<1> SUFFICES ASSUME ExporterOK, [Next]_vars PROVE ExporterOK'
  OBVIOUS
<1> USE DEF ExporterOK, configVars, systemVars, targets, storage, events
<1>1. CASE Boot
  BY <1>1 DEF Boot
<1>2. CASE Crash
  BY <1>2 DEF Crash, Die, Fault
<1>3. CASE UpdateStore
  BY <1>3 DEF UpdateStore, Return, Reopen, FailReopen, Die, Fault
<1>4. CASE UpdateWorkloads
  BY <1>4 DEF UpdateWorkloads
<1>5. CASE UpdateSystem
  BY <1>5 DEF UpdateSystem, Return, Unchanged, Wanted, FirstCall, RememberFailed,
     Fault
<1>6. CASE EndExporter
  BY <1>6 DEF EndExporter, Return, SecondCall, Wanted, RememberFailed, Fault
<1>7. CASE UpdateTarget
  BY <1>7 DEF UpdateTarget, SetTarget, Wanted, DeleteTarget, AddTarget, Return
<1>8. CASE UpdateTransfer
  BY <1>8 DEF UpdateTransfer, Unchanged, SetTarget, Wanted, DeleteTarget, AddTarget
<1>9. CASE Subscribe
  BY <1>9 DEF Subscribe
<1>10. CASE EndPods
  BY <1>10 DEF EndPods, Fault
<1>11. CASE Save
  BY <1>11 DEF Save
<1>12. ASSUME NEW m \in Messages, Update(m) PROVE ExporterOK'
  BY <1>12 DEF Update
<1>13. ASSUME NEW w \in Workloads, StartPod(w) PROVE ExporterOK'
  BY <1>13 DEF StartPod, Fault
<1>14. ASSUME NEW w \in Workloads, RemovePod(w) PROVE ExporterOK'
  BY <1>14 DEF RemovePod, Subscribed, PodEvents
<1>15. ASSUME NEW w \in Workloads, ReplacePod(w) PROVE ExporterOK'
  BY <1>15 DEF ReplacePod, Subscribed, PodEvents
<1>16. ASSUME NEW w \in Workloads, HandleSent(w) PROVE ExporterOK'
  BY <1>16 DEF HandleSent, Handle
<1>17. CASE HandleEvent
  BY <1>17 DEF HandleEvent, DeleteTarget, Handle, Clash
<1>18. CASE AddWorkload
  BY <1>18 DEF AddWorkload, AddTarget, Clash
<1>19. CASE Deregister
  BY <1>19 DEF Deregister
<1>20. CASE DeregisterPods
  BY <1>20 DEF DeregisterPods, Fault
<1>21. CASE DeregisterSystem
  BY <1>21 DEF DeregisterSystem, DeleteTarget
<1>22. CASE DeregisterStore
  BY <1>22 DEF DeregisterStore, Die
<1>23. CASE UNCHANGED vars
  BY <1>23 DEF vars
<1>24. QED
  BY <1>1, <1>2, <1>3, <1>4, <1>5, <1>6, <1>7, <1>8, <1>9, <1>10, <1>11, <1>12, <1>13,
     <1>14, <1>15, <1>16, <1>17, <1>18, <1>19, <1>20, <1>21, <1>22, <1>23
     DEF Next, Observe

\* Every step keeps the types of the targets and the store.
LEMMA TargetsInductive == ConfigOK /\ EventsOK /\ TargetsOK /\ [Next]_vars => TargetsOK'
<1> SUFFICES ASSUME ConfigOK, EventsOK, TargetsOK, [Next]_vars PROVE TargetsOK'
  OBVIOUS
<1> USE ConstantsAssumption, OfMessage DEF ConfigOK, EventsOK, TargetsOK, Components,
         Names, configVars, systemVars, targets, storage, events
<1>1. CASE Boot
  BY <1>1 DEF Boot
<1>2. CASE Crash
  BY <1>2 DEF Crash, Die, Fault
<1>3. CASE UpdateStore
  <2>1. CASE Die
    <3>1. faults' = faults \/ Fault
      BY <1>3 DEF UpdateStore
    <3>2. faults' \in 0..MaxFaults
      BY <3>1 DEF Fault
    <3>3. current' \in [Names -> Nat] /\ clashed' \subseteq Components /\ store' \in Nat \cup {None}
          /\ applied' = applied
      BY <2>1, DieTyped
    <3>4. QED
      BY <3>2, <3>3
  <2>2. CASE ~Die
    <3>1. UNCHANGED targets /\ (faults' = faults \/ Fault)
      BY <1>3, <2>2 DEF UpdateStore
    <3>2. store' \in {store, msg.retention, None} /\ applied' \in {applied, msg.retention}
      BY <1>3, <2>2 DEF UpdateStore, Reopen, FailReopen
    <3>3. faults' \in 0..MaxFaults
      BY <3>1 DEF Fault
    <3>4. msg.retention \in Nat
      OBVIOUS
    <3>5. store' \in Nat \cup {None} /\ applied' \in Nat
      BY <3>2, <3>4
    <3>6. QED
      BY <3>1, <3>3, <3>5
  <2>3. QED
    BY <2>1, <2>2
<1>4. CASE UpdateWorkloads
  BY <1>4 DEF UpdateWorkloads
<1>5. CASE UpdateSystem
  BY <1>5 DEF UpdateSystem, Return, Unchanged, Wanted, FirstCall, RememberFailed,
     Fault
<1>6. CASE EndExporter
  BY <1>6 DEF EndExporter, Return, SecondCall, Wanted, RememberFailed, Fault
<1>7. CASE UpdateTarget
  <2>1. DeleteTarget("system") \/ AddTarget("system", Wanted("system"))
    BY <1>7 DEF UpdateTarget, SetTarget
  <2>2. "system" \in Names /\ Wanted("system") \in Nat
    BY <1>7 DEF UpdateTarget, Wanted
  <2>3. UNCHANGED <<clashed, store, applied, faults>>
    BY <1>7 DEF UpdateTarget, SetTarget
  <2>4. QED
    BY <2>1, <2>2, <2>3, TargetStep
<1>8. CASE UpdateTransfer
  <2>1. CASE UNCHANGED <<targets, storage, faults>>
    BY <2>1
  <2>2. CASE SetTarget("transfer")
    <3>1. DeleteTarget("transfer") \/ AddTarget("transfer", Wanted("transfer"))
      BY <2>2 DEF SetTarget
    <3>2. "transfer" \in Names /\ Wanted("transfer") \in Nat
      BY DEF Wanted
    <3>3. UNCHANGED <<clashed, store, applied, faults>>
      BY <2>2 DEF SetTarget
    <3>4. QED
      BY <3>1, <3>2, <3>3, TargetStep
  <2>3. QED
    BY <1>8, <2>1, <2>2 DEF UpdateTransfer
<1>9. CASE Subscribe
  BY <1>9 DEF Subscribe
<1>10. CASE EndPods
  BY <1>10 DEF EndPods, Fault
<1>11. CASE Save
  BY <1>11 DEF Save
<1>12. ASSUME NEW m \in Messages, Update(m) PROVE TargetsOK'
  BY <1>12 DEF Update
<1>13. ASSUME NEW w \in Workloads, StartPod(w) PROVE TargetsOK'
  BY <1>13 DEF StartPod, Fault
<1>14. ASSUME NEW w \in Workloads, RemovePod(w) PROVE TargetsOK'
  BY <1>14 DEF RemovePod, Subscribed, PodEvents
<1>15. ASSUME NEW w \in Workloads, ReplacePod(w) PROVE TargetsOK'
  BY <1>15 DEF ReplacePod, Subscribed, PodEvents
<1>16. ASSUME NEW w \in Workloads, HandleSent(w) PROVE TargetsOK'
  BY <1>16 DEF HandleSent, Handle
<1>17. CASE HandleEvent
  <2> DEFINE e == Head(stream)
  <2>1. UNCHANGED <<store, applied, faults>>
    BY <1>17 DEF HandleEvent
  <2>2. CASE UNCHANGED targets
    BY <2>1, <2>2
  <2>3. CASE DeleteTarget(e.name) /\ Clash(e.name)
    <3>1. e \in PodEvents
      BY <1>17, Ends DEF HandleEvent
    <3>2. e.name \in Names
      BY <3>1 DEF PodEvents
    <3>3. clashed' \subseteq Components
      BY <2>3 DEF Clash
    <3>4. QED
      BY <2>1, <2>3, <3>2, <3>3, TargetStep
  <2>4. QED
    BY <1>17, <2>2, <2>3 DEF HandleEvent
<1>18. CASE AddWorkload
  <2>1. DeleteTarget(handling) \/ AddTarget(handling, 1)
    BY <1>18 DEF AddWorkload
  <2>2. handling \in Names /\ 1 \in Nat
    BY <1>18 DEF AddWorkload, Wanted
  <2>3. UNCHANGED <<store, applied, faults>> /\ clashed' \subseteq Components
    BY <1>18 DEF AddWorkload, Clash
  <2>4. QED
    BY <2>1, <2>2, <2>3, TargetStep
<1>19. CASE Deregister
  BY <1>19 DEF Deregister
<1>20. CASE DeregisterPods
  BY <1>20 DEF DeregisterPods, Fault
<1>21. CASE DeregisterSystem
  <2>1. DeleteTarget("system") \/ AddTarget("system", 0)
    BY <1>21 DEF DeregisterSystem
  <2>2. "system" \in Names /\ 0 \in Nat
    BY <1>21 DEF DeregisterSystem, Wanted
  <2>3. UNCHANGED <<clashed, store, applied, faults>>
    BY <1>21 DEF DeregisterSystem
  <2>4. QED
    BY <2>1, <2>2, <2>3, TargetStep
<1>22. CASE DeregisterStore
  <2>1. store' = None /\ applied' = applied /\ faults' = faults
    BY <1>22 DEF DeregisterStore, Die
  <2>2. Die \/ UNCHANGED targets
    BY <1>22 DEF DeregisterStore
  <2>3. QED
    BY <2>1, <2>2, DieTyped
<1>23. CASE UNCHANGED vars
  BY <1>23 DEF vars
<1>24. QED
  BY <1>1, <1>2, <1>3, <1>4, <1>5, <1>6, <1>7, <1>8, <1>9, <1>10, <1>11, <1>12, <1>13,
     <1>14, <1>15, <1>16, <1>17, <1>18, <1>19, <1>20, <1>21, <1>22, <1>23
     DEF Next, Observe

\* Every step keeps the types of the events.
LEMMA EventsInductive == ConfigOK /\ EventsOK /\ [Next]_vars => EventsOK'
<1> SUFFICES ASSUME ConfigOK, EventsOK, [Next]_vars PROVE EventsOK'
  OBVIOUS
<1> USE DEF ConfigOK, EventsOK, configVars, systemVars, targets, storage, events
<1>1. CASE Boot
  BY <1>1 DEF Boot
<1>2. CASE Crash
  BY <1>2 DEF Crash, Die, Fault
<1>3. CASE UpdateStore
  <2>1. Die \/ UNCHANGED <<pods, events>>
    BY <1>3 DEF UpdateStore
  <2>2. QED
    BY <2>1, DieTyped
<1>4. CASE UpdateWorkloads
  BY <1>4 DEF UpdateWorkloads
<1>5. CASE UpdateSystem
  BY <1>5 DEF UpdateSystem, Return, Unchanged, Wanted, FirstCall, RememberFailed,
     Fault
<1>6. CASE EndExporter
  BY <1>6 DEF EndExporter, Return, SecondCall, Wanted, RememberFailed, Fault
<1>7. CASE UpdateTarget
  BY <1>7 DEF UpdateTarget, SetTarget, Wanted, DeleteTarget, AddTarget, Return
<1>8. CASE UpdateTransfer
  BY <1>8 DEF UpdateTransfer, Unchanged, SetTarget, Wanted, DeleteTarget, AddTarget
<1>9. CASE Subscribe
  BY <1>9 DEF Subscribe
<1>10. CASE EndPods
  BY <1>10 DEF EndPods, Fault
<1>11. CASE Save
  BY <1>11 DEF Save
<1>12. ASSUME NEW m \in Messages, Update(m) PROVE EventsOK'
  BY <1>12 DEF Update
<1>13. ASSUME NEW w \in Workloads, StartPod(w) PROVE EventsOK'
  <2>1. [kind |-> "started", name |-> w] \in PodEvents
    BY DEF PodEvents
  <2>2. stream' = stream \/ stream' = Append(stream, [kind |-> "started", name |-> w])
    BY <1>13 DEF StartPod
  <2>3. pods' = pods \cup {w} /\ sent' \in {sent, sent \cup {w}} /\ handling' = handling
    BY <1>13 DEF StartPod
  <2>4. stream' \in Seq(PodEvents)
    BY <2>1, <2>2, Ends
  <2>5. QED
    BY <2>3, <2>4
<1>14. ASSUME NEW w \in Workloads, RemovePod(w) PROVE EventsOK'
  BY <1>14 DEF RemovePod, Subscribed, PodEvents
<1>15. ASSUME NEW w \in Workloads, ReplacePod(w) PROVE EventsOK'
  BY <1>15 DEF ReplacePod, Subscribed, PodEvents
<1>16. ASSUME NEW w \in Workloads, HandleSent(w) PROVE EventsOK'
  BY <1>16 DEF HandleSent, Handle
<1>17. CASE HandleEvent
  BY <1>17 DEF HandleEvent, DeleteTarget, Handle, Clash
<1>18. CASE AddWorkload
  BY <1>18 DEF AddWorkload, AddTarget, Clash
<1>19. CASE Deregister
  BY <1>19 DEF Deregister
<1>20. CASE DeregisterPods
  BY <1>20 DEF DeregisterPods, Fault
<1>21. CASE DeregisterSystem
  BY <1>21 DEF DeregisterSystem, DeleteTarget
<1>22. CASE DeregisterStore
  <2>1. Die \/ UNCHANGED <<pods, events>>
    BY <1>22 DEF DeregisterStore
  <2>2. QED
    BY <2>1, DieTyped
<1>23. CASE UNCHANGED vars
  BY <1>23 DEF vars
<1>24. QED
  BY <1>1, <1>2, <1>3, <1>4, <1>5, <1>6, <1>7, <1>8, <1>9, <1>10, <1>11, <1>12, <1>13,
     <1>14, <1>15, <1>16, <1>17, <1>18, <1>19, <1>20, <1>21, <1>22, <1>23
     DEF Next, Observe

\* Every step keeps the types of the flags.
LEMMA FlagsInductive == FlagsOK /\ [Next]_vars => FlagsOK'
<1> SUFFICES ASSUME FlagsOK, [Next]_vars PROVE FlagsOK'
  OBVIOUS
<1> USE DEF FlagsOK, configVars, systemVars, targets, storage, events
<1>1. CASE Boot
  BY <1>1 DEF Boot
<1>2. CASE Crash
  BY <1>2 DEF Crash, Die, Fault
<1>3. CASE UpdateStore
  BY <1>3 DEF UpdateStore, Return, Reopen, FailReopen, Die, Fault
<1>4. CASE UpdateWorkloads
  BY <1>4 DEF UpdateWorkloads
<1>5. CASE UpdateSystem
  BY <1>5 DEF UpdateSystem, Return, Unchanged, Wanted, FirstCall, RememberFailed,
     Fault
<1>6. CASE EndExporter
  BY <1>6 DEF EndExporter, Return, SecondCall, Wanted, RememberFailed, Fault
<1>7. CASE UpdateTarget
  BY <1>7 DEF UpdateTarget, SetTarget, Wanted, DeleteTarget, AddTarget, Return
<1>8. CASE UpdateTransfer
  BY <1>8 DEF UpdateTransfer, Unchanged, SetTarget, Wanted, DeleteTarget, AddTarget
<1>9. CASE Subscribe
  BY <1>9 DEF Subscribe
<1>10. CASE EndPods
  BY <1>10 DEF EndPods, Fault
<1>11. CASE Save
  BY <1>11 DEF Save
<1>12. ASSUME NEW m \in Messages, Update(m) PROVE FlagsOK'
  BY <1>12 DEF Update
<1>13. ASSUME NEW w \in Workloads, StartPod(w) PROVE FlagsOK'
  BY <1>13 DEF StartPod, Fault
<1>14. ASSUME NEW w \in Workloads, RemovePod(w) PROVE FlagsOK'
  BY <1>14 DEF RemovePod, Subscribed, PodEvents
<1>15. ASSUME NEW w \in Workloads, ReplacePod(w) PROVE FlagsOK'
  BY <1>15 DEF ReplacePod, Subscribed, PodEvents
<1>16. ASSUME NEW w \in Workloads, HandleSent(w) PROVE FlagsOK'
  BY <1>16 DEF HandleSent, Handle
<1>17. CASE HandleEvent
  BY <1>17 DEF HandleEvent, DeleteTarget, Handle, Clash
<1>18. CASE AddWorkload
  BY <1>18 DEF AddWorkload, AddTarget, Clash
<1>19. CASE Deregister
  BY <1>19 DEF Deregister
<1>20. CASE DeregisterPods
  BY <1>20 DEF DeregisterPods, Fault
<1>21. CASE DeregisterSystem
  BY <1>21 DEF DeregisterSystem, DeleteTarget
<1>22. CASE DeregisterStore
  BY <1>22 DEF DeregisterStore, Die
<1>23. CASE UNCHANGED vars
  BY <1>23 DEF vars
<1>24. QED
  BY <1>1, <1>2, <1>3, <1>4, <1>5, <1>6, <1>7, <1>8, <1>9, <1>10, <1>11, <1>12, <1>13,
     <1>14, <1>15, <1>16, <1>17, <1>18, <1>19, <1>20, <1>21, <1>22, <1>23
     DEF Next, Observe

\* Every step keeps the system's target what was configured last.
LEMMA SystemInductive ==
  ConfigOK /\ TargetsOK /\ EventsOK /\ System /\ [Next]_vars => System'
<1> SUFFICES ASSUME ConfigOK, TargetsOK, EventsOK, System, [Next]_vars PROVE System'
  OBVIOUS
<1> USE ConstantsAssumption, OfMessage DEF ConfigOK, TargetsOK, EventsOK, System,
         Components, Names, Wanted, configVars, systemVars, targets, storage, events
<1>1. CASE Boot
  BY <1>1 DEF Boot
<1>2. CASE Crash
  BY <1>2 DEF Crash, Die, Fault
<1>3. CASE UpdateStore
  BY <1>3 DEF UpdateStore, Return, Reopen, FailReopen, Die, Fault
<1>4. CASE UpdateWorkloads
  BY <1>4 DEF UpdateWorkloads
<1>5. CASE UpdateSystem
  BY <1>5 DEF UpdateSystem, Return, Unchanged, Wanted, FirstCall, RememberFailed,
     Fault
<1>6. CASE EndExporter
  BY <1>6 DEF EndExporter, Return, SecondCall, Wanted, RememberFailed, Fault
<1>7. CASE UpdateTarget
  BY <1>7 DEF UpdateTarget, SetTarget, Wanted, DeleteTarget, AddTarget, Return
<1>8. CASE UpdateTransfer
  BY <1>8 DEF UpdateTransfer, Unchanged, SetTarget, Wanted, DeleteTarget, AddTarget
<1>9. CASE Subscribe
  BY <1>9 DEF Subscribe
<1>10. CASE EndPods
  BY <1>10 DEF EndPods, Fault
<1>11. CASE Save
  BY <1>11 DEF Save
<1>12. ASSUME NEW m \in Messages, Update(m) PROVE System'
  BY <1>12 DEF Update
<1>13. ASSUME NEW w \in Workloads, StartPod(w) PROVE System'
  BY <1>13 DEF StartPod, Fault
<1>14. ASSUME NEW w \in Workloads, RemovePod(w) PROVE System'
  BY <1>14 DEF RemovePod, Subscribed, PodEvents
<1>15. ASSUME NEW w \in Workloads, ReplacePod(w) PROVE System'
  BY <1>15 DEF ReplacePod, Subscribed, PodEvents
<1>16. ASSUME NEW w \in Workloads, HandleSent(w) PROVE System'
  BY <1>16 DEF HandleSent, Handle
<1>17. CASE HandleEvent
  <2> DEFINE e == Head(stream)
  <2>1. UNCHANGED <<configVars, systemVars, closing>>
    BY <1>17 DEF HandleEvent
  <2>2. CASE UNCHANGED <<targets, faults>>
    BY <2>1, <2>2
  <2>3. CASE DeleteTarget(e.name) /\ Clash(e.name)
    <3>1. e.name # "system" => current'["system"] = current["system"]
      BY <2>3 DEF DeleteTarget
    <3>2. clashed \subseteq clashed' /\ (e.name = "system" => "system" \in clashed')
      BY <2>3 DEF Clash
    <3>3. QED
      BY <2>1, <3>1, <3>2
  <2>4. QED
    BY <1>17, <2>2, <2>3 DEF HandleEvent
<1>18. CASE AddWorkload
  BY <1>18 DEF AddWorkload, AddTarget, Clash
<1>19. CASE Deregister
  BY <1>19 DEF Deregister
<1>20. CASE DeregisterPods
  BY <1>20 DEF DeregisterPods, Fault
<1>21. CASE DeregisterSystem
  BY <1>21 DEF DeregisterSystem, DeleteTarget
<1>22. CASE DeregisterStore
  BY <1>22 DEF DeregisterStore, Die
<1>23. CASE UNCHANGED vars
  BY <1>23 DEF vars
<1>24. QED
  BY <1>1, <1>2, <1>3, <1>4, <1>5, <1>6, <1>7, <1>8, <1>9, <1>10, <1>11, <1>12, <1>13,
     <1>14, <1>15, <1>16, <1>17, <1>18, <1>19, <1>20, <1>21, <1>22, <1>23
     DEF Next, Observe

\* Every step keeps node_exporter where Update has got.
LEMMA ExporterInductive ==
  ConfigOK /\ ExporterOK /\ System /\ Exporter /\ [Next]_vars => Exporter'
<1> SUFFICES ASSUME ConfigOK, ExporterOK, System, Exporter, [Next]_vars PROVE Exporter'
  OBVIOUS
<1> USE ConstantsAssumption, OfMessage DEF ConfigOK, ExporterOK, Exporter, Components,
         Wanted, configVars, systemVars, targets, storage, events
<1>1. CASE Boot
  BY <1>1 DEF Boot
<1>2. CASE Crash
  BY <1>2 DEF Crash, Die, Fault
<1>3. CASE UpdateStore
  BY <1>3 DEF UpdateStore, Return, Reopen, FailReopen, Die, Fault
<1>4. CASE UpdateWorkloads
  BY <1>4 DEF UpdateWorkloads
<1>5. CASE UpdateSystem
  BY <1>5 DEF UpdateSystem, Return, Unchanged, Wanted, FirstCall, RememberFailed,
     Fault
<1>6. CASE EndExporter
  BY <1>6 DEF EndExporter, Return, SecondCall, Wanted, RememberFailed, Fault
<1>7. CASE UpdateTarget
  BY <1>7 DEF UpdateTarget, SetTarget, Wanted, DeleteTarget, AddTarget, Return
<1>8. CASE UpdateTransfer
  BY <1>8 DEF UpdateTransfer, Unchanged, SetTarget, Wanted, DeleteTarget, AddTarget
<1>9. CASE Subscribe
  BY <1>9 DEF Subscribe
<1>10. CASE EndPods
  BY <1>10 DEF EndPods, Fault
<1>11. CASE Save
  BY <1>11 DEF Save
<1>12. ASSUME NEW m \in Messages, Update(m) PROVE Exporter'
  BY <1>12 DEF Update
<1>13. ASSUME NEW w \in Workloads, StartPod(w) PROVE Exporter'
  BY <1>13 DEF StartPod, Fault
<1>14. ASSUME NEW w \in Workloads, RemovePod(w) PROVE Exporter'
  BY <1>14 DEF RemovePod, Subscribed, PodEvents
<1>15. ASSUME NEW w \in Workloads, ReplacePod(w) PROVE Exporter'
  BY <1>15 DEF ReplacePod, Subscribed, PodEvents
<1>16. ASSUME NEW w \in Workloads, HandleSent(w) PROVE Exporter'
  BY <1>16 DEF HandleSent, Handle
<1>17. CASE HandleEvent
  BY <1>17 DEF HandleEvent, DeleteTarget, Handle, Clash
<1>18. CASE AddWorkload
  BY <1>18 DEF AddWorkload, AddTarget, Clash
<1>19. CASE Deregister
  BY <1>19 DEF Deregister
<1>20. CASE DeregisterPods
  BY <1>20 DEF DeregisterPods, Fault
<1>21. CASE DeregisterSystem
  BY <1>21 DEF DeregisterSystem, DeleteTarget
<1>22. CASE DeregisterStore
  BY <1>22 DEF DeregisterStore, Die
<1>23. CASE UNCHANGED vars
  BY <1>23 DEF vars
<1>24. QED
  BY <1>1, <1>2, <1>3, <1>4, <1>5, <1>6, <1>7, <1>8, <1>9, <1>10, <1>11, <1>12, <1>13,
     <1>14, <1>15, <1>16, <1>17, <1>18, <1>19, <1>20, <1>21, <1>22, <1>23
     DEF Next, Observe

\* Every step keeps the retention of the store.
LEMMA RetentionInductive == ConfigOK /\ Retention /\ [Next]_vars => Retention'
<1> SUFFICES ASSUME ConfigOK, Retention, [Next]_vars PROVE Retention'
  OBVIOUS
<1> USE DEF ConfigOK, Retention, configVars, systemVars, targets, storage, events
<1>1. CASE Boot
  BY <1>1 DEF Boot
<1>2. CASE Crash
  BY <1>2 DEF Crash, Die, Fault
<1>3. CASE UpdateStore
  BY <1>3 DEF UpdateStore, Return, Reopen, FailReopen, Die, Fault
<1>4. CASE UpdateWorkloads
  BY <1>4 DEF UpdateWorkloads
<1>5. CASE UpdateSystem
  BY <1>5 DEF UpdateSystem, Return, Unchanged, Wanted, FirstCall, RememberFailed,
     Fault
<1>6. CASE EndExporter
  BY <1>6 DEF EndExporter, Return, SecondCall, Wanted, RememberFailed, Fault
<1>7. CASE UpdateTarget
  BY <1>7 DEF UpdateTarget, SetTarget, Wanted, DeleteTarget, AddTarget, Return
<1>8. CASE UpdateTransfer
  BY <1>8 DEF UpdateTransfer, Unchanged, SetTarget, Wanted, DeleteTarget, AddTarget
<1>9. CASE Subscribe
  BY <1>9 DEF Subscribe
<1>10. CASE EndPods
  BY <1>10 DEF EndPods, Fault
<1>11. CASE Save
  BY <1>11 DEF Save
<1>12. ASSUME NEW m \in Messages, Update(m) PROVE Retention'
  BY <1>12 DEF Update
<1>13. ASSUME NEW w \in Workloads, StartPod(w) PROVE Retention'
  BY <1>13 DEF StartPod, Fault
<1>14. ASSUME NEW w \in Workloads, RemovePod(w) PROVE Retention'
  BY <1>14 DEF RemovePod, Subscribed, PodEvents
<1>15. ASSUME NEW w \in Workloads, ReplacePod(w) PROVE Retention'
  BY <1>15 DEF ReplacePod, Subscribed, PodEvents
<1>16. ASSUME NEW w \in Workloads, HandleSent(w) PROVE Retention'
  BY <1>16 DEF HandleSent, Handle
<1>17. CASE HandleEvent
  BY <1>17 DEF HandleEvent, DeleteTarget, Handle, Clash
<1>18. CASE AddWorkload
  BY <1>18 DEF AddWorkload, AddTarget, Clash
<1>19. CASE Deregister
  BY <1>19 DEF Deregister
<1>20. CASE DeregisterPods
  BY <1>20 DEF DeregisterPods, Fault
<1>21. CASE DeregisterSystem
  BY <1>21 DEF DeregisterSystem, DeleteTarget
<1>22. CASE DeregisterStore
  BY <1>22 DEF DeregisterStore, Die
<1>23. CASE UNCHANGED vars
  BY <1>23 DEF vars
<1>24. QED
  BY <1>1, <1>2, <1>3, <1>4, <1>5, <1>6, <1>7, <1>8, <1>9, <1>10, <1>11, <1>12, <1>13,
     <1>14, <1>15, <1>16, <1>17, <1>18, <1>19, <1>20, <1>21, <1>22, <1>23
     DEF Next, Observe

\* A step that leaves the events and the targets alone.
LEMMA Still ==
  ASSUME Scraped, UNCHANGED <<pods, stream, handling, listening, late, current, clashed>>
  PROVE  Scraped'
BY DEF Scraped

\* The end of the process leaves no target and no event.
LEMMA DieScraped == ASSUME EventsOK, Scraped, Die PROVE Scraped'
<1>1. handling' = None /\ stream' = <<>>
  BY DEF Die
<1>2. \A w \in Workloads : current'[w] = 0
  BY DEF Die, Names
<1>3. \A w \in Workloads : EndsStopped(stream', w)
  BY <1>1 DEF EndsStopped
<1>4. \A w \in Workloads : handling' # w
  BY <1>1, ConstantsAssumption DEF Names
<1>5. QED
  BY <1>1, <1>2, <1>3, <1>4 DEF Scraped

\* The target of a component is of no other workload.
LEMMA ComponentStep ==
  ASSUME TargetsOK, Scraped, UNCHANGED <<pods, events>>, NEW n \in Components, NEW i,
         DeleteTarget(n) \/ AddTarget(n, i)
  PROVE  Scraped'
<1>1. current' = [current EXCEPT ![n] = 0] \/ current' = [current EXCEPT ![n] = i]
  BY DEF DeleteTarget, AddTarget
<1>2. \A w \in Workloads \ Components : current'[w] = current[w]
  BY <1>1 DEF TargetsOK, Names
<1>3. QED
  BY <1>2 DEF Scraped, events

\* An event of another workload changes nothing of this one.
LEMMA OtherEvent ==
  ASSUME NEW s \in Seq(PodEvents), NEW v \in Workloads, NEW w \in Workloads, v # w,
         NEW t, t = Append(s, Started(w)) \/ t = Append(s, Stopped(w)) \/ t = s
  PROVE  /\ EndsStopped(s, v) => EndsStopped(t, v)
         /\ SaysStopped(s, v) => SaysStopped(t, v)
<1>1. CASE t = s
  BY <1>1
<1>2. CASE t = Append(s, Started(w)) \/ t = Append(s, Stopped(w))
  <2>1. PICK e : e \in {Started(w), Stopped(w)} /\ t = Append(s, e)
    BY <1>2
  <2>2. e # Started(v) /\ e # Stopped(v)
    BY <2>1 DEF Started, Stopped
  <2>3. /\ DOMAIN t = 1..(Len(s) + 1) /\ DOMAIN s = 1..Len(s) /\ Len(s) \in Nat
        /\ \A i \in 1..Len(s) : t[i] = s[i]
        /\ t[Len(s) + 1] = e
    BY <2>1
  <2> HIDE DEF Started, Stopped
  <2>4. QED
    BY <2>2, <2>3 DEF EndsStopped, SaysStopped
<1>3. QED
  BY <1>1, <1>2

\* A stopped event at the end follows every start.
LEMMA OwnStop ==
  ASSUME NEW s \in Seq(PodEvents), NEW w \in Workloads
  PROVE  /\ EndsStopped(Append(s, Stopped(w)), w)
         /\ SaysStopped(Append(s, Stopped(w)), w)
<1> DEFINE t == Append(s, Stopped(w))
<1>1. /\ DOMAIN t = 1..(Len(s) + 1) /\ Len(s) \in Nat
      /\ t[Len(s) + 1] = Stopped(w)
  OBVIOUS
<1>2. Stopped(w) # Started(w)
  BY DEF Stopped, Started
<1> HIDE DEF t
<1>3. EndsStopped(t, w) /\ SaysStopped(t, w)
  BY <1>1, <1>2 DEF EndsStopped, SaysStopped
<1>4. QED
  BY <1>3 DEF t

\* Two events at the end.
LEMMA TwoMore ==
  ASSUME NEW s \in Seq(PodEvents), NEW w \in Workloads
  PROVE  /\ Append(s, Stopped(w)) \in Seq(PodEvents)
         /\ s \o <<[kind |-> "stopped", name |-> w], [kind |-> "started", name |-> w]>>
              = Append(Append(s, Stopped(w)), Started(w))
BY DEF Stopped, Started, PodEvents

\* The first event is taken.
LEMMA TailStops ==
  ASSUME NEW s \in Seq(PodEvents), s # <<>>, NEW v \in Workloads
  PROVE  /\ EndsStopped(s, v) => EndsStopped(Tail(s), v)
         /\ SaysStopped(s, v) /\ Head(s) # Stopped(v) => SaysStopped(Tail(s), v)
         /\ EndsStopped(s, v) /\ Head(s) = Started(v) => SaysStopped(Tail(s), v)
<1> DEFINE t == Tail(s)
<1>1. /\ Len(s) \in Nat \ {0} /\ DOMAIN s = 1..Len(s) /\ DOMAIN t = 1..(Len(s) - 1)
      /\ \A i \in 1..(Len(s) - 1) : t[i] = s[i + 1]
      /\ Head(s) = s[1]
  OBVIOUS
<1> HIDE DEF t
<1>2. ASSUME NEW i \in DOMAIN s, i # 1
      PROVE  i - 1 \in DOMAIN t /\ t[i - 1] = s[i]
  BY <1>1, <1>2
<1>3. EndsStopped(s, v) => EndsStopped(t, v)
  <2> SUFFICES ASSUME EndsStopped(s, v), NEW i \in DOMAIN t, t[i] = Started(v)
               PROVE  \E j \in DOMAIN t : j > i /\ t[j] = Stopped(v)
    BY DEF EndsStopped
  <2>1. i + 1 \in DOMAIN s /\ s[i + 1] = Started(v)
    BY <1>1
  <2>2. PICK j \in DOMAIN s : j > i + 1 /\ s[j] = Stopped(v)
    BY <2>1 DEF EndsStopped
  <2>3. j # 1 /\ j - 1 > i
    BY <1>1, <2>2
  <2>4. QED
    BY <1>2, <2>2, <2>3
<1>4. SaysStopped(s, v) /\ Head(s) # Stopped(v) => SaysStopped(t, v)
  BY <1>1, <1>2 DEF SaysStopped
<1>5. EndsStopped(s, v) /\ Head(s) = Started(v) => SaysStopped(t, v)
  <2> SUFFICES ASSUME EndsStopped(s, v), s[1] = Started(v) PROVE SaysStopped(t, v)
    BY <1>1
  <2>1. PICK j \in DOMAIN s : j > 1 /\ s[j] = Stopped(v)
    BY <1>1 DEF EndsStopped
  <2>2. QED
    BY <1>2, <2>1 DEF SaysStopped
<1>6. QED
  BY <1>3, <1>4, <1>5 DEF t

\* Every step keeps the stopped events of the targets left.
LEMMA ScrapedInductive ==
  ConfigOK /\ TargetsOK /\ EventsOK /\ Scraped /\ [Next]_vars => Scraped'
<1> SUFFICES ASSUME ConfigOK, TargetsOK, EventsOK, Scraped, [Next]_vars PROVE Scraped'
  OBVIOUS
<1> USE ConstantsAssumption DEF configVars, systemVars, targets, storage, events
<1>1. CASE Boot
  BY <1>1, Still DEF Boot 
<1>2. CASE Crash
  BY <1>2, DieScraped DEF Crash
<1>3. CASE UpdateStore
  <2>1. Die \/ UNCHANGED <<targets, pods, events>>
    BY <1>3 DEF UpdateStore
  <2>2. QED
    BY <2>1, DieScraped, Still
<1>4. CASE UpdateWorkloads
  BY <1>4, Still DEF UpdateWorkloads 
<1>5. CASE UpdateSystem
  BY <1>5, Still DEF UpdateSystem
<1>6. CASE EndExporter
  BY <1>6, Still DEF EndExporter
<1>7. CASE UpdateTarget
  <2>1. DeleteTarget("system") \/ AddTarget("system", Wanted("system"))
    BY <1>7 DEF UpdateTarget, SetTarget
  <2>2. UNCHANGED <<pods, events>>
    BY <1>7 DEF UpdateTarget, SetTarget
  <2>3. QED
    BY <2>1, <2>2, ComponentStep DEF Components
<1>8. CASE UpdateTransfer
  <2>1. CASE UNCHANGED <<targets, pods, events>>
    BY <2>1, Still
  <2>2. CASE SetTarget("transfer")
    <3>1. DeleteTarget("transfer") \/ AddTarget("transfer", Wanted("transfer"))
      BY <2>2 DEF SetTarget
    <3>2. UNCHANGED <<pods, events>>
      BY <2>2 DEF SetTarget
    <3>3. QED
      BY <3>1, <3>2, ComponentStep DEF Components
  <2>3. QED
    BY <1>8, <2>1, <2>2 DEF UpdateTransfer
<1>9. CASE Subscribe
  BY <1>9, Still DEF Subscribe 
<1>10. CASE EndPods
  BY <1>10, Still DEF EndPods
<1>11. CASE Save
  <2>1. UNCHANGED <<pods, stream, handling, late, current, clashed>> /\ listening'
    BY <1>11 DEF Save
  <2>2. QED
    BY <2>1 DEF Scraped
<1>12. ASSUME NEW m \in Messages, Update(m) PROVE Scraped'
  BY <1>12, Still DEF Update 
<1>13. ASSUME NEW w \in Workloads, StartPod(w) PROVE Scraped'
  <2>1. stream' = stream \/ stream' = Append(stream, Started(w))
    BY <1>13 DEF StartPod, Started
  <2>2. pods' = pods \cup {w} /\ UNCHANGED <<handling, listening, late, current, clashed>>
    BY <1>13 DEF StartPod
  <2>3. ASSUME NEW v \in Workloads \ pods'
        PROVE  /\ EndsStopped(stream, v) => EndsStopped(stream', v)
               /\ SaysStopped(stream, v) => SaysStopped(stream', v)
    <3>1. v # w /\ v \in Workloads /\ v \notin pods
      BY <2>2, <2>3
    <3>2. QED
      BY <2>1, <3>1, OtherEvent DEF EventsOK
  <2>4. QED
    BY <2>2, <2>3 DEF Scraped
<1>14. ASSUME NEW w \in Workloads, RemovePod(w) PROVE Scraped'
  <2>1. stream' = Append(stream, Stopped(w))
    BY <1>14 DEF RemovePod, Stopped
  <2>2. pods' = pods \ {w} /\ UNCHANGED <<handling, listening, late, current, clashed>>
    BY <1>14 DEF RemovePod
  <2>3. EndsStopped(stream', w) /\ SaysStopped(stream', w)
    BY <2>1, OwnStop DEF EventsOK
  <2>4. ASSUME NEW v \in Workloads \ pods', v # w
        PROVE  /\ v \notin pods
               /\ EndsStopped(stream, v) => EndsStopped(stream', v)
               /\ SaysStopped(stream, v) => SaysStopped(stream', v)
    BY <2>1, <2>2, <2>4, OtherEvent DEF EventsOK
  <2>5. QED
    BY <2>2, <2>3, <2>4 DEF Scraped
<1>15. ASSUME NEW w \in Workloads, ReplacePod(w) PROVE Scraped'
  <2> DEFINE s == Append(stream, Stopped(w))
  <2>1. stream' = Append(s, Started(w)) /\ s \in Seq(PodEvents)
    BY <1>15, TwoMore DEF ReplacePod, EventsOK
  <2>2. pods' = pods /\ w \in pods
    BY <1>15 DEF ReplacePod
  <2>3. UNCHANGED <<handling, listening, late, current, clashed>>
    BY <1>15 DEF ReplacePod
  <2>4. ASSUME NEW v \in Workloads \ pods
        PROVE  /\ EndsStopped(stream, v) => EndsStopped(stream', v)
               /\ SaysStopped(stream, v) => SaysStopped(stream', v)
    <3>1. v # w /\ v \in Workloads
      BY <2>2
    <3>2. /\ EndsStopped(stream, v) => EndsStopped(s, v)
          /\ SaysStopped(stream, v) => SaysStopped(s, v)
      BY <3>1, OtherEvent DEF EventsOK
    <3> HIDE DEF s
    <3>3. /\ EndsStopped(s, v) => EndsStopped(stream', v)
          /\ SaysStopped(s, v) => SaysStopped(stream', v)
      BY <2>1, <3>1, OtherEvent
    <3>4. QED
      BY <3>2, <3>3
  <2>5. QED
    BY <2>2, <2>3, <2>4 DEF Scraped
<1>16. ASSUME NEW w \in Workloads, HandleSent(w) PROVE Scraped'
  <2>1. UNCHANGED <<pods, stream, listening, current, clashed>> /\ handling = None
    BY <1>16 DEF HandleSent
  <2>2. handling' \in {None, w} /\ (~listening => handling' = None)
    BY <1>16 DEF HandleSent, Handle
  <2>4. handling' = w /\ w \notin pods => late'
    BY <1>16, ConstantsAssumption DEF HandleSent, Handle, Names
  <2>5. late => late'
    BY <1>16, Zenon DEF HandleSent
  <2>6. QED
    BY <2>1, <2>2, <2>4, <2>5 DEF Scraped, Names
<1>17. CASE HandleEvent
  <2> DEFINE e == Head(stream)
  <2>1. UNCHANGED <<pods, listening, late>> /\ stream' = Tail(stream) /\ handling = None
    BY <1>17 DEF HandleEvent
  <2>2. e \in PodEvents /\ stream # <<>>
    BY <1>17, Ends DEF HandleEvent, EventsOK
  <2>3. ASSUME NEW v \in Workloads
        PROVE  /\ EndsStopped(stream, v) => EndsStopped(stream', v)
               /\ SaysStopped(stream, v) /\ e # Stopped(v) => SaysStopped(stream', v)
               /\ EndsStopped(stream, v) /\ e = Started(v) => SaysStopped(stream', v)
    BY <2>1, <2>2, TailStops DEF EventsOK
  <2>4. CASE (~listening \/ (e.kind = "started" /\ e.name \notin pods))
             /\ UNCHANGED <<targets, handling>>
    <3>1. \A v \in Workloads : listening => e # Stopped(v)
      BY <2>4 DEF Stopped
    <3>2. QED
      BY <2>1, <2>3, <2>4, <3>1 DEF Scraped, Names
  <2>5. CASE listening /\ e.kind = "stopped" /\ DeleteTarget(e.name) /\ handling' = handling
    <3>1. e.name \in Workloads /\ e.name \in Names
      BY <2>2 DEF PodEvents, Names
    <3>2. current' = [current EXCEPT ![e.name] = 0]
      BY <2>5 DEF DeleteTarget
    <3>3. ASSUME NEW v \in Workloads
          PROVE  current'[v] # 0 => current[v] # 0 /\ e # Stopped(v)
      BY <3>1, <3>2 DEF TargetsOK, Stopped, Names
    <3>4. QED
      BY <2>1, <2>3, <2>5, <3>2, <3>3 DEF Scraped, Names
  <2>6. CASE listening /\ e.kind = "started" /\ Handle(e.name) /\ UNCHANGED targets
    <3>1. handling' \in {None, e.name}
      BY <2>6 DEF Handle
    <3>2. e = Started(e.name)
      BY <2>2, <2>6 DEF PodEvents, Started
    <3>3. \A v \in Workloads : e # Stopped(v)
      BY <2>6 DEF Stopped
    <3>4. QED
      BY <2>1, <2>3, <2>6, <3>1, <3>2, <3>3 DEF Scraped, Names
  <2>7. QED
    BY <1>17, <2>4, <2>5, <2>6 DEF HandleEvent
<1>18. CASE AddWorkload
  <2>1. UNCHANGED <<pods, stream, listening, late>> /\ handling # None /\ handling' = None
    BY <1>18 DEF AddWorkload
  <2>2. handling \in Workloads /\ AddTarget(handling, 1)
    BY <1>18 DEF AddWorkload, EventsOK
  <2>3. current' = [current EXCEPT ![handling] = 1]
    BY <2>2 DEF AddTarget
  <2>4. ASSUME NEW v \in Workloads
        PROVE  current'[v] # 0 => current[v] # 0 \/ handling = v
    BY <2>2, <2>3 DEF TargetsOK, Names
  <2>5. QED
    BY <2>1, <2>3, <2>4 DEF Scraped, Names
<1>19. CASE Deregister
  BY <1>19, Still DEF Deregister 
<1>20. CASE DeregisterPods
  BY <1>20, Still DEF DeregisterPods
<1>21. CASE DeregisterSystem
  <2>1. DeleteTarget("system") /\ UNCHANGED <<pods, events>>
    BY <1>21 DEF DeregisterSystem
  <2>2. QED
    BY <2>1, ComponentStep DEF Components
<1>22. CASE DeregisterStore
  <2>1. Die \/ UNCHANGED <<targets, pods, events>>
    BY <1>22 DEF DeregisterStore
  <2>2. QED
    BY <2>1, DieScraped, Still
<1>23. CASE UNCHANGED vars
  BY <1>23, Still DEF vars 
<1>24. QED
  BY <1>1, <1>2, <1>3, <1>4, <1>5, <1>6, <1>7, <1>8, <1>9, <1>10, <1>11, <1>12, <1>13,
     <1>14, <1>15, <1>16, <1>17, <1>18, <1>19, <1>20, <1>21, <1>22, <1>23
     DEF Next, Observe
-----------------------------------------------------------------------------
TypeInv == ConfigOK /\ ExporterOK /\ TargetsOK /\ EventsOK /\ FlagsOK

\* The invariant holds at every step.
LEMMA Invariant == Spec => [](TypeInv /\ System /\ Exporter /\ Retention /\ Scraped)
<1>1. Init => TypeInv /\ System /\ Exporter /\ Retention /\ Scraped
  BY Initially DEF TypeInv
<1>2. TypeInv /\ System /\ Exporter /\ Retention /\ Scraped /\ [Next]_vars
        => (TypeInv /\ System /\ Exporter /\ Retention /\ Scraped)'
  BY ConfigInductive, ExporterTyped, TargetsInductive, EventsInductive, FlagsInductive,
     SystemInductive, ExporterInductive, RetentionInductive, ScrapedInductive DEF TypeInv
<1>3. QED
  BY <1>1, <1>2, PTL DEF Spec

\* Every variable stays within its type, for every value of the constants.
THEOREM TypeCorrect == Spec => []TypeOK
<1>1. TypeInv => TypeOK
  BY DEF TypeInv, TypeOK, ConfigOK, ExporterOK, TargetsOK, EventsOK, FlagsOK
<1>2. QED
  BY <1>1, Invariant, PTL

\* After an Update that succeeded, the system's target and node_exporter are as
\* configured (SystemMetrics.Update, ensureNodeExporterState).
THEOREM SystemIsConfigured == Spec => []SystemFollows
<1>1. TypeInv /\ System /\ Exporter => SystemFollows
  <2> SUFFICES ASSUME TypeInv, System, Exporter, pc = "idle", result["system"] = "ok",
                      closing = "no", ~halfway
               PROVE  /\ "system" \notin clashed => current["system"] = Wanted("system")
                      /\ exporter.enabled = (Wanted("system") # 0)
                      /\ exporter.running = (Wanted("system") # 0)
    BY DEF SystemFollows
  <2>1. latest["system"] = Wanted("system") /\ Wanted("system") # None
    BY OfMessage, ConstantsAssumption DEF System, TypeInv, ConfigOK, Wanted, Components
  <2>2. QED
    BY <2>1 DEF System, Exporter
<1>2. QED
  BY <1>1, Invariant, PTL

\* After an Update that succeeded, the store is open with the configured
\* retention (TSDB.Update).
THEOREM StoreIsConfigured == Spec => []RetentionApplied
<1>1. Retention => RetentionApplied
  BY DEF Retention, RetentionApplied
<1>2. QED
  BY <1>1, Invariant, PTL

\* Once the events are handled, no workload without a pod has a target of its own
\* (WorkloadStarted, WorkloadRemoved).
THEOREM TargetsHavePods == Spec => []NoTargetWithoutPod
<1>1. TypeInv /\ Scraped => NoTargetWithoutPod
  <2> SUFFICES ASSUME TypeInv, Scraped, Quiet, ~late, NEW w \in (Workloads \ pods) \ Components
               PROVE  current[w] = 0
    BY DEF NoTargetWithoutPod
  <2>1. ~SaysStopped(stream, w)
    BY DEF Quiet, SaysStopped
  <2>2. QED
    BY <2>1 DEF Scraped
<1>2. QED
  BY <1>1, Invariant, PTL
=============================================================================
