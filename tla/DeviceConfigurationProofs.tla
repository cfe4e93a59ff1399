--------------------- MODULE DeviceConfigurationProofs ---------------------
(***************************************************************************)
(* The safety properties of DeviceConfiguration for any contents, any      *)
(* number of observers and any bounds.  None of them is inductive alone:   *)
(* Inv below says, for each place the consumer goroutine can be in, which  *)
(* observers were handed the message and what the file holds.              *)
(***************************************************************************)
EXTENDS DeviceConfiguration, SequenceTheorems, TLAPS

Handed(o, m) == Deaf(o) \/ held[o] = m

\* Nothing is under way in a process that is not serving yet.
Quiet ==
  proc # "up" =>
    /\ pc = "idle" /\ lastSave = "done"
    /\ closing = "no" /\ ~deregistered /\ ~removed

\* The observers registered so far were given the configuration of the file.
Starting ==
  proc = "starting" =>
    /\ memory = Load(file)
    /\ initial = (file = NoFile)
    /\ \A o \in Observers : o < next => held[o] = memory

\* The observers already called were handed the message, and the one being
\* called is not a deregistered workload manager.
Notifying ==
  /\ pc = "inside" => next \in Observers /\ ~Deaf(next)
  /\ pc \in {"notify", "inside"} =>
       \A o \in Observers : o < next => Handed(o, msg)

\* The file is written when every observer was handed the message; only a
\* deregistration interferes with it.
Saving ==
  /\ pc \in {"open", "write", "swap"} => \A o \in Observers : Handed(o, msg)
  /\ pc = "write" => file = Torn \/ (file = NoFile /\ removed)
  /\ pc = "swap" => file = msg \/ (file = NoFile /\ removed)

\* The observer being called is one, and only a serving process calls them.
TypeInv ==
  /\ TypeOK
  /\ pc = "inside" => next \in Observers
  /\ pc # "idle" => proc = "up"

Inv ==
  /\ TypeInv
  /\ Quiet /\ Starting /\ Notifying /\ Saving
  /\ ObserversHoldMemory /\ DiskMatchesMemory /\ DeregisteredForGood

-----------------------------------------------------------------------------
\* What the worker has without a file is a configuration.
LEMMA DefaultMessageType == DefaultMessage \in Messages
BY ConstantsAssumption DEF DefaultMessage, Messages

\* What Init makes of a file, whole, torn or absent, is a configuration.
LEMMA LoadType ==
  ASSUME NEW f \in Messages \cup {NoFile, Torn}
  PROVE  Load(f) \in Messages
BY DefaultMessageType DEF Load

\* Every step keeps every variable in its type.
LEMMA TypeInductive == TypeInv /\ [Next]_vars => TypeInv'
<1> SUFFICES ASSUME TypeInv, [Next]_vars PROVE TypeInv'
  OBVIOUS
<1> USE DEF TypeInv, TypeOK, queueVars, updateVars, deregisterVars
<1>1. CASE Boot
  BY <1>1, ConstantsAssumption, LoadType DEF Boot
<1>2. CASE RegisterObserver
  BY <1>2, ConstantsAssumption DEF RegisterObserver, Observers
<1>3. CASE Serve
  BY <1>3 DEF Serve
<1>4. ASSUME NEW c \in Contents, Send(c) PROVE TypeInv'
  <2>1. [version |-> sent + 1, content |-> c] \in Messages
    BY <1>4, ConstantsAssumption DEF Send, Messages
  <2>2. QED
    BY <1>4, <2>1 DEF Send
<1>5. ASSUME NEW m \in spawned, ReachChannel(m) PROVE TypeInv'
  <2>1. m \in Messages
    OBVIOUS
  <2>2. Append(blocked, m) \in Seq(Messages)
    BY <2>1, AppendProperties
  <2>3. QED
    BY <1>5, <2>2 DEF ReachChannel
<1>6. CASE Receive
  <2>1. Head(blocked) \in Messages /\ Tail(blocked) \in Seq(Messages)
    BY <1>6, HeadTailProperties DEF Receive
  <2>2. QED
    BY <1>6, <2>1, ConstantsAssumption DEF Receive
<1>7. CASE BeginObserver
  BY <1>7 DEF BeginObserver
<1>8. CASE SkipDeregistered
  BY <1>8, ConstantsAssumption DEF SkipDeregistered, Observers
<1>9. CASE EndObserver
  BY <1>9, ConstantsAssumption DEF EndObserver, Observers
<1>10. CASE FinishObservers
  BY <1>10 DEF FinishObservers
<1>11. CASE OpenFile
  BY <1>11 DEF OpenFile
<1>12. CASE WriteFile
  BY <1>12 DEF WriteFile
<1>13. CASE Swap
  BY <1>13 DEF Swap
<1>14. CASE FailSave
  BY <1>14 DEF FailSave
<1>15. CASE Disconnect
  BY <1>15 DEF Disconnect
<1>16. CASE DeregisterWorkloads
  BY <1>16, ConstantsAssumption DEF DeregisterWorkloads, Observers
<1>17. CASE DeregisterConfig
  <2>1. /\ file' \in Messages \cup {NoFile, Torn}
        /\ removed' \in BOOLEAN
        /\ faults' \in Nat
    <3>1. CASE file' = NoFile /\ removed' = TRUE /\ UNCHANGED faults
      BY <3>1
    <3>2. CASE faults' = faults + 1 /\ UNCHANGED <<file, removed>>
      BY <3>2
    <3>3. QED
      BY <1>17, <3>1, <3>2 DEF DeregisterConfig
  <2>2. closing' = "others"
    BY <1>17 DEF DeregisterConfig
  <2>3. UNCHANGED <<proc, queueVars, updateVars, held, memory, initial, lastSave,
                    deregistered>>
    BY <1>17 DEF DeregisterConfig
  <2>4. QED
    BY <2>1, <2>2, <2>3
<1>18. CASE DeregisterOthers
  BY <1>18 DEF DeregisterOthers
<1>19. CASE Crash
  <2>1. blocked' \in Seq(Messages)
    <3>1. blocked' = <<>>
      BY <1>19 DEF Crash
    <3>2. QED
      BY <3>1, EmptySeq
  <2>2. held' \in [Observers -> Messages \cup {Nothing}]
    BY <1>19 DEF Crash
  <2>3. memory' \in Messages /\ msg' \in Messages
    BY <1>19, DefaultMessageType DEF Crash
  <2>4. next' \in 1..(NumObservers + 1)
    BY <1>19, ConstantsAssumption DEF Crash
  <2>5. spawned' \in SUBSET Messages
    BY <1>19 DEF Crash
  <2>6. /\ proc' = "down" /\ pc' = "idle" /\ lastSave' = "done" /\ closing' = "no"
        /\ initial' = TRUE /\ deregistered' = FALSE /\ removed' = FALSE
        /\ faults' = faults + 1 /\ sent' = sent /\ file' = file
    BY <1>19 DEF Crash
  <2>7. TypeOK'
    <3>1. proc' \in {"down", "starting", "up"}
      BY <2>6
    <3>2. pc' \in {"idle", "notify", "inside", "open", "write", "swap"}
      BY <2>6
    <3>3. /\ lastSave' \in {"done", "refused", "torn"}
          /\ closing' \in {"no", "workloads", "config", "others"}
      BY <2>6
    <3>4. initial' \in BOOLEAN /\ deregistered' \in BOOLEAN /\ removed' \in BOOLEAN
      BY <2>6
    <3>5. faults' \in Nat /\ sent' \in Nat /\ file' \in Messages \cup {NoFile, Torn}
      BY <2>6
    <3>6. QED
      BY <2>1, <2>2, <2>3, <2>4, <2>5, <3>1, <3>2, <3>3, <3>4, <3>5
  <2>8. QED
    BY <2>6, <2>7 DEF TypeInv
<1>20. CASE UNCHANGED vars
  BY <1>20 DEF vars
<1>21. QED
  BY <1>1, <1>2, <1>3, <1>4, <1>5, <1>6, <1>7, <1>8, <1>9, <1>10, <1>11, <1>12,
     <1>13, <1>14, <1>15, <1>16, <1>17, <1>18, <1>19, <1>20
     DEF Next, Startup, Update, Deregister

\* The types hold of a machine that never ran the worker.
LEMMA TypeInitially == Init => TypeInv
<1> SUFFICES ASSUME Init PROVE TypeInv
  OBVIOUS
<1>1. blocked \in Seq(Messages)
  <2>1. blocked = <<>>
    BY DEF Init
  <2>2. QED
    BY <2>1, EmptySeq
<1>2. held \in [Observers -> Messages \cup {Nothing}]
  BY DEF Init
<1>3. memory \in Messages /\ msg \in Messages
  BY DefaultMessageType DEF Init
<1>4. next \in 1..(NumObservers + 1)
  BY ConstantsAssumption DEF Init
<1>5. QED
  BY <1>1, <1>2, <1>3, <1>4 DEF Init, TypeInv, TypeOK

\* The state variables always have the types TypeOK states.
THEOREM TypeCorrect == Spec => []TypeOK
<1>1. TypeInv => TypeOK
  BY DEF TypeInv
<1>2. QED
  BY <1>1, TypeInitially, TypeInductive, PTL DEF Spec
-----------------------------------------------------------------------------
\* Each step keeps the invariant; the steps that hand a message over, save it
\* or deregister are the ones that disturb it.
LEMMA Inductive == Inv /\ [Next]_vars => Inv'
<1> SUFFICES ASSUME Inv, [Next]_vars PROVE Inv'
  OBVIOUS
<1> USE SpecialValuesAssumption DEF Quiet, Starting, Notifying, Saving, Handed, Deaf,
      ObserversHoldMemory, DiskMatchesMemory, DeregisteredForGood,
      queueVars, updateVars, deregisterVars
<1>t. TypeInv /\ TypeInv'
  BY TypeInductive DEF Inv
<1>1. CASE Boot
  BY <1>1, <1>t, ConstantsAssumption DEF Boot, Inv, TypeInv, TypeOK, Observers
<1>2. CASE RegisterObserver
  BY <1>2, <1>t, ConstantsAssumption DEF RegisterObserver, Inv, TypeInv, TypeOK, Observers
<1>3. CASE Serve
  <2>1. \A o \in Observers : held[o] = memory
    BY <1>3, ConstantsAssumption DEF Serve, Inv, Observers
  <2>2. memory = Load(file) /\ initial = (file = NoFile)
    BY <1>3 DEF Serve, Inv
  <2>3. ObserversHoldMemory'
    BY <1>3, <2>1 DEF Serve
  <2>4. DiskMatchesMemory'
    BY <1>3, <2>2 DEF Serve, Load
  <2>5. QED
    BY <1>3, <1>t, <2>3, <2>4 DEF Serve, Inv, TypeInv
<1>4. ASSUME NEW c \in Contents, Send(c) PROVE Inv'
  BY <1>4, <1>t, ConstantsAssumption DEF Send, Inv, TypeInv, TypeOK, Observers
<1>5. ASSUME NEW m \in spawned, ReachChannel(m) PROVE Inv'
  BY <1>5, <1>t, ConstantsAssumption DEF ReachChannel, Inv, TypeInv, TypeOK, Observers
<1>6. CASE Receive
  BY <1>6, <1>t, ConstantsAssumption DEF Receive, Inv, TypeInv, TypeOK, Observers
<1>7. CASE BeginObserver
  BY <1>7, <1>t, ConstantsAssumption DEF BeginObserver, Inv, TypeInv, TypeOK, Observers
<1>8. CASE SkipDeregistered
  BY <1>8, <1>t, ConstantsAssumption DEF SkipDeregistered, Inv, TypeInv, TypeOK, Observers
<1>9. CASE EndObserver
  BY <1>9, <1>t, ConstantsAssumption DEF EndObserver, Inv, TypeInv, TypeOK, Observers
<1>10. CASE FinishObservers
  BY <1>10, <1>t, ConstantsAssumption DEF FinishObservers, Inv, TypeInv, TypeOK, Observers
<1>11. CASE OpenFile
  BY <1>11, <1>t, ConstantsAssumption DEF OpenFile, Inv, TypeInv, TypeOK, Observers
<1>12. CASE WriteFile
  BY <1>12, <1>t, ConstantsAssumption DEF WriteFile, Inv, TypeInv, TypeOK, Observers
<1>13. CASE Swap
  BY <1>13, <1>t, ConstantsAssumption DEF Swap, Inv, TypeInv, TypeOK, Observers
<1>14. CASE FailSave
  BY <1>14, <1>t, ConstantsAssumption DEF FailSave, Inv, TypeInv, TypeOK, Observers
<1>15. CASE Disconnect
  BY <1>15, <1>t, ConstantsAssumption DEF Disconnect, Inv, TypeInv, TypeOK, Observers
<1>16. CASE DeregisterWorkloads
  BY <1>16, <1>t, ConstantsAssumption
     DEF DeregisterWorkloads, ManagementLockHeld, Inv, TypeInv, TypeOK, Observers
<1>17. CASE DeregisterConfig
  BY <1>17, <1>t, ConstantsAssumption DEF DeregisterConfig, Inv, TypeInv, TypeOK, Observers
<1>18. CASE DeregisterOthers
  BY <1>18, <1>t, ConstantsAssumption DEF DeregisterOthers, Inv, TypeInv, TypeOK, Observers
<1>19. CASE Crash
  BY <1>19, <1>t, ConstantsAssumption DEF Crash, Inv, TypeInv, TypeOK, Observers
<1>20. CASE UNCHANGED vars
  BY <1>20, <1>t DEF vars, Inv
<1>21. QED
  BY <1>1, <1>2, <1>3, <1>4, <1>5, <1>6, <1>7, <1>8, <1>9, <1>10, <1>11, <1>12,
     <1>13, <1>14, <1>15, <1>16, <1>17, <1>18, <1>19, <1>20
     DEF Next, Startup, Update, Deregister

\* So does the strengthening.
LEMMA Initially == Init => Inv
BY TypeInitially DEF Init, Inv, Quiet, Starting, Notifying, Saving,
   ObserversHoldMemory, DiskMatchesMemory, DeregisteredForGood

\* It holds at every step of the server, the manager and a crash.
LEMMA Invariance == Spec => []Inv
BY Initially, Inductive, PTL DEF Spec

\* A resting worker's observers hold the configuration the manager reports.
THEOREM ObserversAgree == Spec => []ObserversHoldMemory
<1>1. Inv => ObserversHoldMemory
  BY DEF Inv
<1>2. QED
  BY <1>1, Invariance, PTL

\* What device-config.json holds is what a restart may start from.
THEOREM DiskAgrees == Spec => []DiskMatchesMemory
<1>1. Inv => DiskMatchesMemory
  BY DEF Inv
<1>2. QED
  BY <1>1, Invariance, PTL

\* A deregistered workload manager is handed no configuration.
THEOREM DeregistrationHolds == Spec => []DeregisteredForGood
<1>1. Inv => DeregisteredForGood
  BY DEF Inv
<1>2. QED
  BY <1>1, Invariance, PTL

\* The file takes a configuration only in WriteFile, and Saving says that every
\* observer was handed it by then.
THEOREM SavesAreHanded == Spec => SavedAfterHanded
<1> DEFINE Saved == file' # file /\ file' \notin {NoFile, Torn} =>
                     \A o \in Observers : Deaf(o) \/ held[o] = file'
<1>1. Inv /\ [Next]_vars => [Saved]_vars
  <2> SUFFICES ASSUME Inv, [Next]_vars, file' # file, file' \notin {NoFile, Torn}
               PROVE  \A o \in Observers : Deaf(o) \/ held[o] = file'
    OBVIOUS
  <2> USE DEF queueVars, updateVars, deregisterVars
  <2>1. WriteFile
    BY DEF Next, Startup, Boot, RegisterObserver, Serve, Send, ReachChannel, Update,
       Receive, BeginObserver, SkipDeregistered, EndObserver, FinishObservers, OpenFile,
       Swap, FailSave, Disconnect, Deregister, DeregisterWorkloads, DeregisterConfig,
       DeregisterOthers, Crash, vars
  <2>2. pc = "write" /\ file' = msg
    BY <2>1 DEF WriteFile
  <2>3. QED
    BY <2>2 DEF Inv, Saving, Handed
<1>2. QED
  BY <1>1, Invariance, PTL DEF Spec, SavedAfterHanded

-----------------------------------------------------------------------------
\* What every observer was handed, all observers of the service were.
LEMMA HandedIsHandedToAll ==
  ASSUME NEW m, \A o \in Observers : Handed(o, m)
  PROVE  Service!HandedToAll(m)
BY DEF Service!HandedToAll, Handed, Deaf

\* Every step is one of ConfigurationService, or one it does not see.
LEMMA ServiceStep == Inv /\ [Next]_vars => [Service!Next]_(Service!vars)
<1> SUFFICES ASSUME Inv, [Next]_vars PROVE [Service!Next]_(Service!vars)
  OBVIOUS
<1> USE DEF queueVars, updateVars, deregisterVars
<1>t. TypeOK /\ SpecialValuesAssumption
  BY SpecialValuesAssumption DEF Inv, TypeInv
<1>u. ASSUME UNCHANGED <<proc, held, deregistered, memory, file>>
      PROVE  UNCHANGED Service!vars
  BY <1>u DEF Service!vars, Load
<1>1. CASE Boot
  <2>1. Service!Start
    BY <1>1 DEF Boot, Service!Start, Load
  <2>2. QED
    BY <2>1 DEF Service!Next
<1>2. CASE RegisterObserver
  <2>1. memory \in Messages /\ next \in Observers
    BY <1>2, <1>t DEF TypeOK, RegisterObserver
  <2>2. Service!Hand(next, memory)
    BY <1>2 DEF RegisterObserver, Service!Hand, Inv, Quiet, Load
  <2>3. QED
    BY <2>1, <2>2 DEF Service!Next
<1>3. CASE EndObserver
  <2>1. msg \in Messages /\ next \in Observers
    BY <1>3, <1>t DEF TypeOK, EndObserver, Inv, Notifying
  <2>2. Service!Hand(next, msg)
    BY <1>3 DEF EndObserver, Service!Hand, Inv, Notifying, Deaf, Load
  <2>3. QED
    BY <2>1, <2>2 DEF Service!Next
<1>4. CASE OpenFile
  <2>1. Service!Lose
    BY <1>4 DEF OpenFile, Service!Lose, Load
  <2>2. QED
    BY <2>1 DEF Service!Next
<1>5. CASE WriteFile
  <2>1. CASE file = Torn
    <3>1. msg \in Messages /\ Load(msg) = msg
      BY <1>t DEF TypeOK, SpecialValuesAssumption, Load
    <3>2. Service!HandedToAll(msg)
      BY <1>5, HandedIsHandedToAll DEF WriteFile, Inv, Saving
    <3>3. Service!Save(msg)
      BY <1>5, <2>1, <3>1, <3>2 DEF WriteFile, Service!Save
    <3>4. QED
      BY <3>1, <3>3 DEF Service!Next
  <2>2. CASE file # Torn
    BY <1>5, <1>u, <2>2 DEF WriteFile
  <2>3. QED
    BY <2>1, <2>2
<1>6. CASE Swap
  <2>1. msg \in Messages
    BY <1>t DEF TypeOK
  <2>2. Service!HandedToAll(msg)
    BY <1>6, HandedIsHandedToAll DEF Swap, Inv, Saving
  <2>3. Load(file) \in {msg, DefaultMessage}
    BY <1>6 DEF Swap, Inv, Saving, Load
  <2>4. Service!Adopt(msg)
    BY <1>6, <2>2, <2>3 DEF Swap, Service!Adopt, Load
  <2>5. QED
    BY <2>1, <2>4 DEF Service!Next
<1>7. CASE DeregisterWorkloads
  <2>1. Service!Excuse(WorkloadManager)
    BY <1>7 DEF DeregisterWorkloads, Service!Excuse, Load
  <2>2. QED
    BY <2>1, ConstantsAssumption DEF Service!Next, Observers
<1>8. CASE DeregisterConfig
  <2>1. CASE file' = NoFile
    <3>1. Service!Lose
      BY <1>8, <2>1 DEF DeregisterConfig, Service!Lose, Load
    <3>2. QED
      BY <3>1 DEF Service!Next
  <2>2. CASE UNCHANGED file
    BY <1>8, <1>u, <2>2 DEF DeregisterConfig
  <2>3. QED
    BY <1>8, <2>1, <2>2 DEF DeregisterConfig
<1>9. CASE Crash
  <2>1. Service!Stop
    BY <1>9 DEF Crash, Service!Stop, Load
  <2>2. QED
    BY <2>1 DEF Service!Next
<1>10. CASE Serve
  BY <1>10 DEF Serve, Service!vars, Load
<1>11. ASSUME NEW c \in Contents, Send(c) PROVE UNCHANGED Service!vars
  BY <1>11, <1>u DEF Send
<1>12. ASSUME NEW m \in spawned, ReachChannel(m) PROVE UNCHANGED Service!vars
  BY <1>12, <1>u DEF ReachChannel
<1>13. CASE Receive \/ BeginObserver \/ SkipDeregistered \/ FinishObservers
  BY <1>13, <1>u DEF Receive, BeginObserver, SkipDeregistered, FinishObservers
<1>14. CASE FailSave \/ Disconnect \/ DeregisterOthers
  BY <1>14, <1>u DEF FailSave, Disconnect, DeregisterOthers
<1>15. CASE UNCHANGED vars
  BY <1>15, <1>u DEF vars
<1>16. QED
  BY <1>1, <1>2, <1>3, <1>4, <1>5, <1>6, <1>7, <1>8, <1>9, <1>10, <1>11, <1>12,
     <1>13, <1>14, <1>15
     DEF Next, Startup, Update, Deregister

\* The manager implements the service: Inv says that what is saved or adopted
\* was handed to every observer, which is what the abstract steps require.
THEOREM Refinement == Spec => ImplementsService
<1>1. Init => Service!Init
  BY DEF Init, Service!Init, Load
<1>2. QED
  BY <1>1, ServiceStep, Invariance, PTL DEF Spec, ImplementsService, Service!Spec
=============================================================================
