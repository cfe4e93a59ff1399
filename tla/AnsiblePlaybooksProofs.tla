----------------------- MODULE AnsiblePlaybooksProofs -----------------------
(***************************************************************************)
(* What holds of the playbook executions for any playbooks and answers,    *)
(* and any number of messages, runners and faults: the types; that what    *)
(* ran when main called WaitPlaybookCompletion has ended when that         *)
(* returns; and that what completed is not run again.                      *)
(***************************************************************************)
EXTENDS AnsiblePlaybooks, TLAPS

\* The parts of TypeOK, kept one by one.
HandlerOK ==
  /\ proc \in {"load", "pending", "up"}
  /\ hpc \in {"idle", "check", "add", "start", "wait", "events"}
  /\ batch \in Seq(Names)
  /\ message \in 0..MaxMessages /\ tmpFile \in 0..MaxMessages
  /\ runs \in 0..MaxRuns /\ current \in 0..runs
  /\ faults \in 0..MaxFaults

RunnersOK ==
  /\ rpc \in [Runs -> {"none", "check", "begin", "run", "update", "results", "remove",
                       "signal", "gone"}]
  /\ name \in [Runs -> Names \cup {None}] /\ path \in [Runs -> 0..MaxMessages]
  /\ outcome \in [Runs -> {"none", "ok", "error", "unparsed"}]
  /\ \A e \in Runs : IF e <= runs THEN name[e] \in Names /\ path[e] \in Messages
                                 ELSE rpc[e] = "none"

MappingOK ==
  /\ entries \subseteq 1..runs /\ savedEntries \subseteq 1..runs
  /\ toRun \subseteq entries
  /\ owner \in [Messages -> Names \cup {None}]
  /\ savedOwner \in [Messages -> Names \cup {None}]
  /\ status \in [Names -> Statuses] /\ savedStatus \in [Names -> Statuses]
  /\ copy \in [Messages -> Names \cup {Path, None}]

HistoryOK ==
  /\ done \subseteq Names /\ again \in BOOLEAN /\ left \subseteq Runs
  /\ waiter \in {"no", "waiting", "returned"} /\ covered \subseteq Runs

\* The handler has a playbook in hand, for which a runner is left, and counts
\* in the WaitGroup while it waits.
InHand ==
  /\ hpc # "idle" => batch # <<>> /\ message \in Messages
  /\ hpc \in {"idle", "check", "add"} => runs + Len(batch) <= MaxRuns
  /\ hpc \in {"start", "wait", "events"} =>
       runs + Len(batch) <= MaxRuns + 1 /\ current \in 1..runs
  /\ wg = IF hpc \in {"wait", "events"} THEN 1 ELSE 0
  /\ proc # "up" => hpc = "idle"

\* Only the runner that is waited for is active, and those left behind; the next
\* one has not begun.
OneActive ==
  /\ \A e \in Runs : Active(e) => e \in left \/ (hpc \in {"wait", "events"} /\ e = current)
  /\ hpc = "start" => rpc[current] = "none"

\* A wait that has not returned has a runner to wait for; what it covers has
\* begun, and has ended when it returned.
Waited ==
  /\ waiter = "waiting" => wg = 1
  /\ \A e \in covered : rpc[e] # "none"
  /\ WaitCoversRuns

\* Every runner came with a message of its own.
Distinct == \A e, f \in 1..runs : e # f => path[e] # path[f]

\* The mapping, in memory and on disk, knows what completed.
Recorded ==
  \A n \in done :
    /\ savedStatus[n] \in Final /\ \E e \in savedEntries : savedOwner[path[e]] = n
    /\ proc # "load" =>
         status[n] \in Final /\ \E e \in entries : owner[path[e]] = n

\* Nothing in hand or active has completed before; what has ended is recorded
\* under its own path.
Fresh ==
  /\ hpc = "add" => Head(batch) \notin done
  /\ \A e \in Runs : Active(e) \/ (hpc = "start" /\ e = current) =>
       e \in entries /\ owner[path[e]] = name[e]
  /\ \A e \in Runs :
       rpc[e] \in {"check", "begin", "run", "update"} \/ (hpc = "start" /\ e = current) =>
         name[e] \notin done
  /\ \A e \in Runs : rpc[e] \in {"results", "remove"} => status[name[e]] \in Final

Once == left = {} /\ Distinct => Recorded /\ Fresh /\ ~again

TypeInv == HandlerOK /\ RunnersOK /\ MappingOK /\ HistoryOK /\ InHand

-----------------------------------------------------------------------------
\* Add has a playbook in hand, and a runner for it.
LEMMA Room ==
  ASSUME HandlerOK, InHand, Add
  PROVE  /\ Len(batch) \in Nat /\ Len(batch) > 0
         /\ runs < MaxRuns /\ Head(batch) \in Names /\ message \in Messages
<1>1. Len(batch) \in Nat /\ Len(batch) > 0
  BY DEF HandlerOK, InHand, Add, At
<1>2. runs < MaxRuns /\ Head(batch) \in Names /\ message \in Messages
  BY <1>1, ConstantsAssumption DEF HandlerOK, InHand, Add, At
<1>3. QED
  BY <1>1, <1>2

\* The invariant holds before the worker starts.
LEMMA Initially == Init => TypeInv /\ OneActive /\ Waited /\ Once
<1> SUFFICES ASSUME Init PROVE TypeInv /\ OneActive /\ Waited /\ Once
  OBVIOUS
<1> USE ConstantsAssumption DEF Init
<1>1. HandlerOK
  BY DEF HandlerOK
<1>2. RunnersOK
  BY DEF RunnersOK
<1>3. MappingOK
  BY DEF MappingOK, Statuses
<1>4. HistoryOK
  BY DEF HistoryOK
<1>5. InHand
  BY DEF InHand
<1>6. OneActive /\ Waited
  BY DEF OneActive, Waited, WaitCoversRuns, Active
<1>7. Once
  BY DEF Once, Recorded, Fresh, Active
<1>8. QED
  BY <1>1, <1>2, <1>3, <1>4, <1>5, <1>6, <1>7 DEF TypeInv

\* Every step keeps the types of the handler.
LEMMA HandlerInductive == HandlerOK /\ InHand /\ [Next]_vars => HandlerOK'
<1> SUFFICES ASSUME HandlerOK, InHand, [Next]_vars PROVE HandlerOK'
  OBVIOUS
<1> USE ConstantsAssumption DEF HandlerOK, InHand, Messages, handler, runners, mapping,
         saved, history, waiting
<1>1. CASE Load
  BY <1>1 DEF Load
<1>2. ASSUME NEW e \in Runs, RunPending(e) PROVE HandlerOK'
  BY <1>2 DEF RunPending
<1>3. CASE Serve
  BY <1>3 DEF Serve
<1>4. ASSUME NEW b \in Batches, Push(b) PROVE HandlerOK'
  BY <1>4 DEF Push, At
<1>5. CASE PushNothing
  BY <1>5 DEF PushNothing, vars
<1>6. CASE Check
  BY <1>6 DEF Check, At, Return, Fault
<1>7. CASE Add
  <2>1. Len(batch) \in Nat /\ Len(batch) > 0
    BY <1>7, Room
  <2>2. runs < MaxRuns /\ Head(batch) \in Names /\ message \in Messages
    BY <1>7, Room
  <2>3. CASE UNCHANGED <<batch, tmpFile, faults>> /\ hpc' = "start" /\ current' = runs + 1
    BY <1>7, <2>2, <2>3 DEF Add, At
  <2>4. CASE Return /\ Fault
    BY <1>7, <2>1, <2>2, <2>4 DEF Add, At, Return, Fault
  <2>5. QED
    BY <1>7, <2>3, <2>4 DEF Add
<1>8. CASE Start
  BY <1>8 DEF Start, At
<1>9. CASE EventsSent
  BY <1>9 DEF EventsSent, At
<1>10. CASE Timeout
  BY <1>10 DEF Timeout, At, Return, Done
<1>11. ASSUME NEW e \in Runs, CheckRunner(e) PROVE HandlerOK'
  BY <1>11 DEF CheckRunner, Runner, Go
<1>12. ASSUME NEW e \in Runs, Begin(e) PROVE HandlerOK'
  BY <1>12 DEF Begin, Runner, Go
<1>13. ASSUME NEW e \in Runs, UpdateStatus(e) PROVE HandlerOK'
  BY <1>13 DEF UpdateStatus, Runner, Go
<1>14. ASSUME NEW e \in Runs, SendResults(e) PROVE HandlerOK'
  BY <1>14 DEF SendResults, Runner, Go, Waits
<1>15. ASSUME NEW e \in Runs, Remove(e) PROVE HandlerOK'
  BY <1>15 DEF Remove, Runner, Go, Persist, Fault
<1>16. ASSUME NEW e \in Runs, Signal(e) PROVE HandlerOK'
  BY <1>16 DEF Signal, Runner, Go, Waits, Return, Done
<1>17. ASSUME NEW e \in Runs, Finish(e) PROVE HandlerOK'
  BY <1>17 DEF Finish, Runner, Go
<1>18. CASE Crash
  BY <1>18 DEF Crash, Fault
<1>19. CASE UNCHANGED vars
  BY <1>19 DEF vars
<1>20. CASE CallWait
  BY <1>20 DEF CallWait
<1>21. QED
  BY <1>1, <1>2, <1>3, <1>4, <1>5, <1>6, <1>7, <1>8, <1>9, <1>10, <1>11, <1>12, <1>13,
     <1>14, <1>15, <1>16, <1>17, <1>18, <1>19, <1>20
     DEF Next, Handle, Execute

\* Every step keeps the types of the runners.
LEMMA RunnersInductive == HandlerOK /\ RunnersOK /\ InHand /\ [Next]_vars => RunnersOK'
<1> SUFFICES ASSUME HandlerOK, RunnersOK, InHand, [Next]_vars PROVE RunnersOK'
  OBVIOUS
<1> USE ConstantsAssumption DEF HandlerOK, RunnersOK, InHand, Messages, Runs, handler,
         runners, mapping, saved, history, waiting
<1>1. CASE Load
  BY <1>1 DEF Load
<1>2. ASSUME NEW e \in Runs, RunPending(e) PROVE RunnersOK'
  BY <1>2 DEF RunPending
<1>3. CASE Serve
  BY <1>3 DEF Serve
<1>4. ASSUME NEW b \in Batches, Push(b) PROVE RunnersOK'
  BY <1>4 DEF Push, At
<1>5. CASE PushNothing
  BY <1>5 DEF PushNothing, vars
<1>6. CASE Check
  BY <1>6 DEF Check, At, Return, Fault
<1>7. CASE Add
  BY <1>7 DEF Add, At, Return, Fault, Persist
<1>8. CASE Start
  BY <1>8 DEF Start, At
<1>9. CASE EventsSent
  BY <1>9 DEF EventsSent, At
<1>10. CASE Timeout
  BY <1>10 DEF Timeout, At, Return, Done
<1>11. ASSUME NEW e \in Runs, CheckRunner(e) PROVE RunnersOK'
  BY <1>11 DEF CheckRunner, Runner, Go
<1>12. ASSUME NEW e \in Runs, Begin(e) PROVE RunnersOK'
  BY <1>12 DEF Begin, Runner, Go
<1>13. ASSUME NEW e \in Runs, UpdateStatus(e) PROVE RunnersOK'
  BY <1>13 DEF UpdateStatus, Runner, Go
<1>14. ASSUME NEW e \in Runs, SendResults(e) PROVE RunnersOK'
  BY <1>14 DEF SendResults, Runner, Go, Waits
<1>15. ASSUME NEW e \in Runs, Remove(e) PROVE RunnersOK'
  BY <1>15 DEF Remove, Runner, Go, Persist, Fault
<1>16. ASSUME NEW e \in Runs, Signal(e) PROVE RunnersOK'
  BY <1>16 DEF Signal, Runner, Go, Waits, Return, Done
<1>17. ASSUME NEW e \in Runs, Finish(e) PROVE RunnersOK'
  BY <1>17 DEF Finish, Runner, Go
<1>18. CASE Crash
  BY <1>18 DEF Crash, Fault
<1>19. CASE UNCHANGED vars
  BY <1>19 DEF vars
<1>20. CASE CallWait
  BY <1>20 DEF CallWait
<1>21. QED
  BY <1>1, <1>2, <1>3, <1>4, <1>5, <1>6, <1>7, <1>8, <1>9, <1>10, <1>11, <1>12, <1>13,
     <1>14, <1>15, <1>16, <1>17, <1>18, <1>19, <1>20
     DEF Next, Handle, Execute

\* Every step keeps the types of the mapping.
LEMMA MappingInductive == HandlerOK /\ MappingOK /\ InHand /\ [Next]_vars => MappingOK'
<1> SUFFICES ASSUME HandlerOK, MappingOK, InHand, [Next]_vars PROVE MappingOK'
  OBVIOUS
<1> USE ConstantsAssumption DEF HandlerOK, MappingOK, InHand, Messages, Statuses, Final,
         handler, runners, mapping, saved, history, waiting
<1>1. CASE Load
  BY <1>1 DEF Load
<1>2. ASSUME NEW e \in Runs, RunPending(e) PROVE MappingOK'
  BY <1>2 DEF RunPending
<1>3. CASE Serve
  BY <1>3 DEF Serve
<1>4. ASSUME NEW b \in Batches, Push(b) PROVE MappingOK'
  BY <1>4 DEF Push, At
<1>5. CASE PushNothing
  BY <1>5 DEF PushNothing, vars
<1>6. CASE Check
  BY <1>6 DEF Check, At, Return, Fault
<1>7. CASE Add
  <2>1. Len(batch) \in Nat /\ Len(batch) > 0
    BY <1>7, Room
  <2>2. runs < MaxRuns /\ Head(batch) \in Names /\ message \in Messages
    BY <1>7, Room
  <2>3. entries' \subseteq 1..runs' /\ toRun' \subseteq entries'
    BY <1>7, <2>2 DEF Add
  <2>4. owner' \in [Messages -> Names \cup {None}] /\ status' \in [Names -> Statuses]
        /\ copy' \in [Messages -> Names \cup {Path, None}]
    BY <1>7, <2>2 DEF Add
  <2>5. CASE Persist
    BY <2>3, <2>4, <2>5 DEF Persist
  <2>6. CASE UNCHANGED saved
    <3>1. savedEntries' \subseteq 1..runs'
      BY <1>7, <2>2, <2>6 DEF Add
    <3>2. QED
      BY <3>1, <2>3, <2>4, <2>6
  <2>7. QED
    BY <1>7, <2>5, <2>6 DEF Add
<1>8. CASE Start
  BY <1>8 DEF Start, At
<1>9. CASE EventsSent
  BY <1>9 DEF EventsSent, At
<1>10. CASE Timeout
  BY <1>10 DEF Timeout, At, Return, Done
<1>11. ASSUME NEW e \in Runs, CheckRunner(e) PROVE MappingOK'
  BY <1>11 DEF CheckRunner, Runner, Go
<1>12. ASSUME NEW e \in Runs, Begin(e) PROVE MappingOK'
  BY <1>12 DEF Begin, Runner, Go
<1>13. ASSUME NEW e \in Runs, UpdateStatus(e) PROVE MappingOK'
  BY <1>13 DEF UpdateStatus, Runner, Go
<1>14. ASSUME NEW e \in Runs, SendResults(e) PROVE MappingOK'
  BY <1>14 DEF SendResults, Runner, Go, Waits
<1>15. ASSUME NEW e \in Runs, Remove(e) PROVE MappingOK'
  BY <1>15 DEF Remove, Runner, Go, Persist, Fault
<1>16. ASSUME NEW e \in Runs, Signal(e) PROVE MappingOK'
  BY <1>16 DEF Signal, Runner, Go, Waits, Return, Done
<1>17. ASSUME NEW e \in Runs, Finish(e) PROVE MappingOK'
  BY <1>17 DEF Finish, Runner, Go
<1>18. CASE Crash
  BY <1>18 DEF Crash, Fault
<1>19. CASE UNCHANGED vars
  BY <1>19 DEF vars
<1>20. CASE CallWait
  BY <1>20 DEF CallWait
<1>21. QED
  BY <1>1, <1>2, <1>3, <1>4, <1>5, <1>6, <1>7, <1>8, <1>9, <1>10, <1>11, <1>12, <1>13,
     <1>14, <1>15, <1>16, <1>17, <1>18, <1>19, <1>20
     DEF Next, Handle, Execute

\* Every step keeps the types of the history.
LEMMA HistoryInductive == HandlerOK /\ RunnersOK /\ HistoryOK /\ InHand /\ [Next]_vars => HistoryOK'
<1> SUFFICES ASSUME HandlerOK, RunnersOK, HistoryOK, InHand, [Next]_vars PROVE HistoryOK'
  OBVIOUS
<1> USE DEF HandlerOK, HistoryOK, RunnersOK, Runs, handler, runners, mapping, saved, history, waiting
<1>1. CASE Load
  BY <1>1 DEF Load
<1>2. ASSUME NEW e \in Runs, RunPending(e) PROVE HistoryOK'
  BY <1>2 DEF RunPending
<1>3. CASE Serve
  BY <1>3 DEF Serve
<1>4. ASSUME NEW b \in Batches, Push(b) PROVE HistoryOK'
  BY <1>4 DEF Push, At
<1>5. CASE PushNothing
  BY <1>5 DEF PushNothing, vars
<1>6. CASE Check
  BY <1>6 DEF Check, At, Return, Fault
<1>7. CASE Add
  BY <1>7 DEF Add, At, Return, Fault, Persist
<1>8. CASE Start
  BY <1>8 DEF Start, At
<1>9. CASE EventsSent
  BY <1>9 DEF EventsSent, At
<1>10. CASE Timeout
  <2>1. current \in 1..runs /\ runs \in 0..MaxRuns
    BY <1>10 DEF Timeout, At, InHand
  <2>1a. current \in Runs
    BY <2>1, ConstantsAssumption
  <2>2. QED
    BY <1>10, <2>1a DEF Timeout, At, Return, Done
<1>11. ASSUME NEW e \in Runs, CheckRunner(e) PROVE HistoryOK'
  BY <1>11 DEF CheckRunner, Runner, Go
<1>12. ASSUME NEW e \in Runs, Begin(e) PROVE HistoryOK'
  BY <1>12 DEF Begin, Runner, Go
<1>13. ASSUME NEW e \in Runs, UpdateStatus(e) PROVE HistoryOK'
  BY <1>13 DEF UpdateStatus, Runner, Go
<1>14. ASSUME NEW e \in Runs, SendResults(e) PROVE HistoryOK'
  BY <1>14 DEF SendResults, Runner, Go, Waits
<1>15. ASSUME NEW e \in Runs, Remove(e) PROVE HistoryOK'
  BY <1>15 DEF Remove, Runner, Go, Persist, Fault
<1>16. ASSUME NEW e \in Runs, Signal(e) PROVE HistoryOK'
  BY <1>16 DEF Signal, Runner, Go, Waits, Return, Done
<1>17. ASSUME NEW e \in Runs, Finish(e) PROVE HistoryOK'
  BY <1>17 DEF Finish, Runner, Go
<1>18. CASE Crash
  BY <1>18 DEF Crash, Fault
<1>19. CASE UNCHANGED vars
  BY <1>19 DEF vars
<1>20. CASE CallWait
  BY <1>20 DEF CallWait
<1>21. QED
  BY <1>1, <1>2, <1>3, <1>4, <1>5, <1>6, <1>7, <1>8, <1>9, <1>10, <1>11, <1>12, <1>13,
     <1>14, <1>15, <1>16, <1>17, <1>18, <1>19, <1>20
     DEF Next, Handle, Execute

\* Every step keeps the handler in step with the WaitGroup.
LEMMA InHandInductive == HandlerOK /\ InHand /\ [Next]_vars => InHand'
<1> SUFFICES ASSUME HandlerOK, InHand, [Next]_vars PROVE InHand'
  OBVIOUS
<1> USE ConstantsAssumption DEF HandlerOK, InHand, Messages, handler, runners, mapping,
         saved, history, waiting
<1>1. CASE Load
  BY <1>1 DEF Load
<1>2. ASSUME NEW e \in Runs, RunPending(e) PROVE InHand'
  BY <1>2 DEF RunPending
<1>3. CASE Serve
  BY <1>3 DEF Serve
<1>4. ASSUME NEW b \in Batches, Push(b) PROVE InHand'
  BY <1>4 DEF Push, At
<1>5. CASE PushNothing
  BY <1>5 DEF PushNothing, vars
<1>6. CASE Check
  BY <1>6 DEF Check, At, Return, Fault
<1>7. CASE Add
  BY <1>7 DEF Add, At, Return, Fault, Persist
<1>8. CASE Start
  BY <1>8 DEF Start, At
<1>9. CASE EventsSent
  BY <1>9 DEF EventsSent, At
<1>10. CASE Timeout
  BY <1>10 DEF Timeout, At, Return, Done
<1>11. ASSUME NEW e \in Runs, CheckRunner(e) PROVE InHand'
  BY <1>11 DEF CheckRunner, Runner, Go
<1>12. ASSUME NEW e \in Runs, Begin(e) PROVE InHand'
  BY <1>12 DEF Begin, Runner, Go
<1>13. ASSUME NEW e \in Runs, UpdateStatus(e) PROVE InHand'
  BY <1>13 DEF UpdateStatus, Runner, Go
<1>14. ASSUME NEW e \in Runs, SendResults(e) PROVE InHand'
  BY <1>14 DEF SendResults, Runner, Go, Waits
<1>15. ASSUME NEW e \in Runs, Remove(e) PROVE InHand'
  BY <1>15 DEF Remove, Runner, Go, Persist, Fault
<1>16. ASSUME NEW e \in Runs, Signal(e) PROVE InHand'
  BY <1>16 DEF Signal, Runner, Go, Waits, Return, Done
<1>17. ASSUME NEW e \in Runs, Finish(e) PROVE InHand'
  BY <1>17 DEF Finish, Runner, Go
<1>18. CASE Crash
  BY <1>18 DEF Crash, Fault
<1>19. CASE UNCHANGED vars
  BY <1>19 DEF vars
<1>20. CASE CallWait
  BY <1>20 DEF CallWait
<1>21. QED
  BY <1>1, <1>2, <1>3, <1>4, <1>5, <1>6, <1>7, <1>8, <1>9, <1>10, <1>11, <1>12, <1>13,
     <1>14, <1>15, <1>16, <1>17, <1>18, <1>19, <1>20
     DEF Next, Handle, Execute

\* Every step keeps to one active runner.
LEMMA OneActiveInductive ==
  HandlerOK /\ RunnersOK /\ InHand /\ OneActive /\ [Next]_vars => OneActive'
<1> SUFFICES ASSUME HandlerOK, RunnersOK, InHand, OneActive, [Next]_vars PROVE OneActive'
  OBVIOUS
<1> USE DEF HandlerOK, RunnersOK, InHand, OneActive, Active, Runs, handler, runners,
         mapping, saved, history, waiting
<1>1. CASE Load
  BY <1>1 DEF Load
<1>2. ASSUME NEW e \in Runs, RunPending(e) PROVE OneActive'
  BY <1>2 DEF RunPending
<1>3. CASE Serve
  BY <1>3 DEF Serve
<1>4. ASSUME NEW b \in Batches, Push(b) PROVE OneActive'
  BY <1>4 DEF Push, At
<1>5. CASE PushNothing
  BY <1>5 DEF PushNothing, vars
<1>6. CASE Check
  BY <1>6 DEF Check, At, Return, Fault
<1>7. CASE Add
  <2>1. runs < MaxRuns
    BY <1>7, Room
  <2>2. rpc' = rpc /\ left' = left /\ hpc = "add"
    BY <1>7 DEF Add, At
  <2>3. rpc[runs + 1] = "none"
    BY <2>1, ConstantsAssumption
  <2>4. hpc' = "start" => current' = runs + 1
    BY <1>7 DEF Add, Return
  <2>5. QED
    BY <2>2, <2>3, <2>4
<1>8. CASE Start
  BY <1>8 DEF Start, At
<1>9. CASE EventsSent
  BY <1>9 DEF EventsSent, At
<1>10. CASE Timeout
  BY <1>10 DEF Timeout, At, Return, Done
<1>11. ASSUME NEW e \in Runs, CheckRunner(e) PROVE OneActive'
  BY <1>11 DEF CheckRunner, Runner, Go
<1>12. ASSUME NEW e \in Runs, Begin(e) PROVE OneActive'
  BY <1>12 DEF Begin, Runner, Go
<1>13. ASSUME NEW e \in Runs, UpdateStatus(e) PROVE OneActive'
  BY <1>13 DEF UpdateStatus, Runner, Go
<1>14. ASSUME NEW e \in Runs, SendResults(e) PROVE OneActive'
  BY <1>14 DEF SendResults, Runner, Go, Waits
<1>15. ASSUME NEW e \in Runs, Remove(e) PROVE OneActive'
  BY <1>15 DEF Remove, Runner, Go, Persist, Fault
<1>16. ASSUME NEW e \in Runs, Signal(e) PROVE OneActive'
  BY <1>16 DEF Signal, Runner, Go, Waits, Return, Done
<1>17. ASSUME NEW e \in Runs, Finish(e) PROVE OneActive'
  BY <1>17 DEF Finish, Runner, Go
<1>18. CASE Crash
  BY <1>18 DEF Crash, Fault
<1>19. CASE UNCHANGED vars
  BY <1>19 DEF vars
<1>20. CASE CallWait
  BY <1>20 DEF CallWait
<1>21. QED
  BY <1>1, <1>2, <1>3, <1>4, <1>5, <1>6, <1>7, <1>8, <1>9, <1>10, <1>11, <1>12, <1>13,
     <1>14, <1>15, <1>16, <1>17, <1>18, <1>19, <1>20
     DEF Next, Handle, Execute

\* Every step keeps what a wait covers.
LEMMA WaitedInductive ==
  HandlerOK /\ RunnersOK /\ HistoryOK /\ InHand /\ OneActive /\ Waited /\ [Next]_vars => Waited'
<1> SUFFICES ASSUME HandlerOK, RunnersOK, HistoryOK, InHand, OneActive, Waited, [Next]_vars PROVE Waited'
  OBVIOUS
<1> USE DEF HandlerOK, RunnersOK, HistoryOK, InHand, OneActive, Waited, WaitCoversRuns, Active, Runs, handler, runners,
         mapping, saved, history, waiting
<1>1. CASE Load
  BY <1>1 DEF Load
<1>2. ASSUME NEW e \in Runs, RunPending(e) PROVE Waited'
  BY <1>2 DEF RunPending
<1>3. CASE Serve
  BY <1>3 DEF Serve
<1>4. ASSUME NEW b \in Batches, Push(b) PROVE Waited'
  BY <1>4 DEF Push, At
<1>5. CASE PushNothing
  BY <1>5 DEF PushNothing, vars
<1>6. CASE Check
  BY <1>6 DEF Check, At, Return, Fault
<1>7. CASE Add
  BY <1>7 DEF Add, At, Return, Fault, Persist
<1>8. CASE Start
  BY <1>8 DEF Start, At
<1>9. CASE EventsSent
  BY <1>9 DEF EventsSent, At
<1>10. CASE Timeout
  BY <1>10 DEF Timeout, At, Return, Done
<1>11. ASSUME NEW e \in Runs, CheckRunner(e) PROVE Waited'
  BY <1>11 DEF CheckRunner, Runner, Go
<1>12. ASSUME NEW e \in Runs, Begin(e) PROVE Waited'
  BY <1>12 DEF Begin, Runner, Go
<1>13. ASSUME NEW e \in Runs, UpdateStatus(e) PROVE Waited'
  BY <1>13 DEF UpdateStatus, Runner, Go
<1>14. ASSUME NEW e \in Runs, SendResults(e) PROVE Waited'
  BY <1>14 DEF SendResults, Runner, Go, Waits
<1>15. ASSUME NEW e \in Runs, Remove(e) PROVE Waited'
  BY <1>15 DEF Remove, Runner, Go, Persist, Fault
<1>16. ASSUME NEW e \in Runs, Signal(e) PROVE Waited'
  BY <1>16 DEF Signal, Runner, Go, Waits, Return, Done
<1>17. ASSUME NEW e \in Runs, Finish(e) PROVE Waited'
  BY <1>17 DEF Finish, Runner, Go
<1>18. CASE Crash
  BY <1>18 DEF Crash, Fault
<1>19. CASE UNCHANGED vars
  BY <1>19 DEF vars
<1>20. CASE CallWait
  BY <1>20 DEF CallWait
<1>21. QED
  BY <1>1, <1>2, <1>3, <1>4, <1>5, <1>6, <1>7, <1>8, <1>9, <1>10, <1>11, <1>12, <1>13,
     <1>14, <1>15, <1>16, <1>17, <1>18, <1>19, <1>20
     DEF Next, Handle, Execute

\* After Add no runner is active, and the new one is about to be.
LEMMA FreshAfterAdd ==
  ASSUME NEW new,
         \A e \in Runs : rpc'[e] \in {"none", "gone"},
         new \in entries' /\ owner'[path'[new]] = name'[new] /\ name'[new] \notin done',
         hpc' # "add" /\ (hpc' = "start" => current' = new)
  PROVE  Fresh'
BY DEF Fresh, Active

\* After Remove one runner is active, which has only the signal left.
LEMMA FreshAfterRemove ==
  ASSUME NEW e,
         \A f \in Runs : rpc'[f] \in {"none", "gone", "signal"} /\ (rpc'[f] = "signal"
           => f = e),
         hpc' # "add" /\ hpc' # "start",
         e \in entries' /\ owner'[path'[e]] = name'[e]
  PROVE  Fresh'
BY DEF Fresh, Active

\* Every step keeps what completed recorded, and does not run it again.
LEMMA OnceInductive ==
  HandlerOK /\ RunnersOK /\ MappingOK /\ HistoryOK /\ InHand /\ OneActive /\ Once /\
    [Next]_vars => Once'
<1> SUFFICES ASSUME HandlerOK, RunnersOK, MappingOK, HistoryOK, InHand, OneActive, Once,
         [Next]_vars PROVE Once'
  OBVIOUS
<1> USE DEF HandlerOK, RunnersOK, MappingOK, HistoryOK, InHand, OneActive, Active, Once,
         Distinct, Recorded, Fresh, Final, Runs, Messages, handler, runners, mapping,
         saved, history, waiting
<1>1. CASE Load
  BY <1>1 DEF Load
<1>2. ASSUME NEW e \in Runs, RunPending(e) PROVE Once'
  BY <1>2 DEF RunPending
<1>3. CASE Serve
  BY <1>3 DEF Serve
<1>4. ASSUME NEW b \in Batches, Push(b) PROVE Once'
  BY <1>4 DEF Push, At
<1>5. CASE PushNothing
  BY <1>5 DEF PushNothing, vars
<1>6. CASE Check
  BY <1>6 DEF Check, At, Return, Fault
<1>7. CASE Add
  <2> SUFFICES ASSUME left' = {}, Distinct' PROVE Recorded' /\ Fresh' /\ ~again'
    OBVIOUS
  <2> DEFINE new == runs + 1
             n == Head(batch)
  <2>1. Len(batch) \in Nat /\ Len(batch) > 0
    BY <1>7, Room
  <2>2. runs < MaxRuns /\ Head(batch) \in Names /\ message \in Messages
    BY <1>7, Room
  <2>3. /\ proc = "up" /\ hpc = "add" /\ proc' = proc /\ runs' = new
        /\ entries' = entries \cup {new} /\ owner' = [owner EXCEPT ![message] = n]
        /\ status' = [status EXCEPT ![n] = "Deploying"]
        /\ name' = [name EXCEPT ![new] = n] /\ path' = [path EXCEPT ![new] = message]
        /\ UNCHANGED <<rpc, done, again, left>>
    BY <1>7 DEF Add, At
  <2>4. new \in Runs /\ (\A e \in 1..runs : e # new /\ e \in Runs)
    BY <2>2, ConstantsAssumption DEF Runs
  <2>5. path'[new] = message /\ name'[new] = n /\ owner'[message] = n
    BY <2>2, <2>3, <2>4
  <2>6. \A e \in 1..runs : path'[e] = path[e] /\ name'[e] = name[e]
    BY <2>3, <2>4
  <2>7. \A e \in 1..runs : path[e] # message
    BY <2>3, <2>4, <2>5, <2>6
  <2>8. Distinct
    BY <2>3, <2>6
  <2>9. Recorded /\ Fresh /\ ~again
    BY <2>3, <2>8
  <2>10. n \notin done /\ (\A e \in Runs : rpc[e] \in {"none", "gone"})
    BY <2>3, <2>9
  <2>11. \A m \in done : status'[m] \in Final /\ \E e \in entries' : owner'[path'[e]] = m
    <3> TAKE m \in done
    <3>1. PICK e \in entries : owner[path[e]] = m
      BY <2>3, <2>9
    <3>2. e \in 1..runs /\ path[e] \in Messages /\ path[e] # message
      BY <2>4, <2>7
    <3>3. owner'[path'[e]] = m
      BY <2>3, <2>6, <3>1, <3>2
    <3>4. status'[m] = status[m] /\ status[m] \in Final
      BY <2>3, <2>9, <2>10
    <3>5. QED
      BY <2>3, <3>3, <3>4
  <2>12. Recorded'
    <3>1. CASE Persist
      <4>1. savedEntries' = entries' /\ savedOwner' = owner'
        BY <3>1 DEF Persist
      <4>2. \A m \in done : savedStatus'[m] = status'[m]
        BY <2>11, <3>1 DEF Persist
      <4>3. QED
        BY <2>3, <2>11, <4>1, <4>2
    <3>2. CASE UNCHANGED saved
      <4>1. \A e \in savedEntries : path'[e] = path[e]
        BY <2>6
      <4>2. QED
        BY <2>3, <2>9, <2>11, <3>2, <4>1
    <3>3. QED
      BY <1>7, <3>1, <3>2 DEF Add
  <2>13. Fresh'
    <3>1. (hpc' = "start" /\ current' = new) \/ hpc' \in {"idle", "check"}
      BY <1>7 DEF Add, Return
    <3>2. \A e \in Runs : rpc'[e] \in {"none", "gone"}
      BY <2>3, <2>10
    <3>3. new \in entries' /\ owner'[path'[new]] = name'[new] /\ name'[new] \notin done'
      BY <2>3, <2>5, <2>10
    <3>4. hpc' # "add" /\ (hpc' = "start" => current' = new)
      BY <3>1
    <3>5. QED
      BY <3>2, <3>3, <3>4, FreshAfterAdd
  <2>14. QED
    BY <2>3, <2>9, <2>12, <2>13
<1>8. CASE Start
  BY <1>8 DEF Start, At
<1>9. CASE EventsSent
  BY <1>9 DEF EventsSent, At
<1>10. CASE Timeout
  BY <1>10 DEF Timeout, At, Return, Done
<1>11. ASSUME NEW e \in Runs, CheckRunner(e) PROVE Once'
  BY <1>11 DEF CheckRunner, Runner, Go
<1>12. ASSUME NEW e \in Runs, Begin(e) PROVE Once'
  BY <1>12 DEF Begin, Runner, Go
<1>13. ASSUME NEW e \in Runs, UpdateStatus(e) PROVE Once'
  BY <1>13 DEF UpdateStatus, Runner, Go
<1>14. ASSUME NEW e \in Runs, SendResults(e) PROVE Once'
  BY <1>14 DEF SendResults, Runner, Go, Waits
<1>15. ASSUME NEW e \in Runs, Remove(e) PROVE Once'
  <2> SUFFICES ASSUME left' = {}, Distinct' PROVE Recorded' /\ Fresh' /\ ~again'
    OBVIOUS
  <2>1. /\ proc = "up" /\ proc' = proc /\ hpc' = hpc
        /\ UNCHANGED <<runs, entries, owner, status, path, name, again, current, batch>>
        /\ rpc[e] = "remove" /\ rpc' = [rpc EXCEPT ![e] = "signal"]
    BY <1>15 DEF Remove, Runner, Go
  <2>2. left = {} /\ Distinct /\ Recorded /\ Fresh /\ ~again
    BY <1>15, <2>1 DEF Remove
  <2>3. /\ hpc \in {"wait", "events"}
        /\ \A f \in Runs : f # e => rpc[f] \in {"none", "gone"}
        /\ e \in entries /\ owner[path[e]] = name[e] /\ status[name[e]] \in Final
    BY <2>1, <2>2
  <2>4. e \in 1..runs /\ name[e] \in Names
    BY <2>3
  <2>5. done' \in {done, done \cup {name[e]}}
    BY <1>15 DEF Remove
  <2>6. \A n \in done' : status[n] \in Final /\ n \in Names /\ \E f \in entries :
          owner[path[f]] = n
    BY <2>1, <2>2, <2>3, <2>4, <2>5
  <2>7. Fresh'
    <3>1. \A f \in Runs : rpc'[f] \in {"none", "gone", "signal"} /\ (rpc'[f] = "signal"
            => f = e)
      BY <2>1, <2>3
    <3>2. hpc' # "add" /\ hpc' # "start"
      BY <2>1, <2>3
    <3>3. e \in entries' /\ owner'[path'[e]] = name'[e]
      BY <2>1, <2>3
    <3>4. QED
      BY <3>1, <3>2, <3>3, FreshAfterRemove
  <2>8. CASE Persist
    <3>1. savedEntries' = entries /\ savedOwner' = owner
      BY <2>1, <2>8 DEF Persist
    <3>2. \A n \in done' : savedStatus'[n] = status[n]
      BY <2>1, <2>6, <2>8 DEF Persist
    <3>3. Recorded'
      BY <2>1, <2>6, <3>1, <3>2
    <3>4. QED
      BY <2>1, <2>2, <2>7, <3>3
  <2>9. CASE UNCHANGED <<saved, done>>
    BY <2>1, <2>2, <2>7, <2>9
  <2>10. QED
    BY <1>15, <2>8, <2>9 DEF Remove
<1>16. ASSUME NEW e \in Runs, Signal(e) PROVE Once'
  BY <1>16 DEF Signal, Runner, Go, Waits, Return, Done
<1>17. ASSUME NEW e \in Runs, Finish(e) PROVE Once'
  BY <1>17 DEF Finish, Runner, Go
<1>18. CASE Crash
  BY <1>18 DEF Crash, Fault
<1>19. CASE UNCHANGED vars
  BY <1>19 DEF vars
<1>20. CASE CallWait
  BY <1>20 DEF CallWait
<1>21. QED
  BY <1>1, <1>2, <1>3, <1>4, <1>5, <1>6, <1>7, <1>8, <1>9, <1>10, <1>11, <1>12, <1>13,
     <1>14, <1>15, <1>16, <1>17, <1>18, <1>19, <1>20
     DEF Next, Handle, Execute
-----------------------------------------------------------------------------
\* It holds at every step of the handler, the runners and a restart.
LEMMA Invariant == Spec => [](TypeInv /\ OneActive /\ Waited /\ Once)
<1>1. Init => TypeInv /\ OneActive /\ Waited /\ Once
  BY Initially
<1>2. TypeInv /\ OneActive /\ Waited /\ Once /\ [Next]_vars => (TypeInv /\ OneActive /\ Waited /\ Once)'
  BY HandlerInductive, RunnersInductive, MappingInductive, HistoryInductive,
     InHandInductive, OneActiveInductive, WaitedInductive, OnceInductive DEF TypeInv
<1>3. QED
  BY <1>1, <1>2, PTL DEF Spec

\* Every variable stays within its type, for every value of the constants.
THEOREM TypeCorrect == Spec => []TypeOK
<1>1. TypeInv => TypeOK
  <2> SUFFICES ASSUME TypeInv PROVE TypeOK
    OBVIOUS
  <2>1. wg \in 0..1
    BY DEF TypeInv, InHand
  <2>2. QED
    BY <2>1 DEF TypeInv, TypeOK, HandlerOK, RunnersOK, MappingOK, HistoryOK
<1>2. QED
  BY <1>1, Invariant, PTL

\* What ran when main called WaitPlaybookCompletion has ended when that returns,
\* unless it was left behind (WaitPlaybookCompletion, HandlePlaybook, execPlaybook).
THEOREM WaitIsEnough == Spec => []WaitCoversRuns
<1>1. Waited => WaitCoversRuns
  BY DEF Waited
<1>2. QED
  BY <1>1, Invariant, PTL

\* A playbook whose completion was persisted is not run again, also after a
\* restart, with the exceptions the property names (HandlePlaybook, mapping).
THEOREM CompletedOnce == Spec => []NotRunAgain
<1>1. Once => NotRunAgain
  BY DEF Once, Distinct, NotRunAgain
<1>2. QED
  BY <1>1, Invariant, PTL
=============================================================================
