-------------------------- MODULE HeartbeatProofs --------------------------
(***************************************************************************)
(* What holds of the heartbeat for any number of tickers, changes of the   *)
(* hardware, events and faults, and whatever the configurations and the    *)
(* answers are: the types; that at most one ticker runs; that an event     *)
(* arrives at most once; that the hardware is known in full before a part  *)
(* of it is sent; and that the operator is not behind the hardware the next*)
(* difference is taken from.                                               *)
(***************************************************************************)
EXTENDS Heartbeat, FiniteSetTheorems, TLAPS

\* The parts of TypeOK, kept one by one.
DataOK ==
  /\ proc \in {"boot", "up", "dead"}
  /\ config \in Configs /\ pending \in Configs
  /\ upc \in {"idle", "called", "stopped", "swap"}
  /\ period \in Nat /\ failures \in Nat
  /\ tickers \in 0..MaxTickers /\ live \subseteq 1..tickers
  /\ made \in 0..MaxEvents
FlagsOK ==
  /\ first \in BOOLEAN /\ repeated \in BOOLEAN
  /\ excused \in BOOLEAN /\ silenced \in BOOLEAN
PushersOK ==
  /\ tick \in [Pushers -> BOOLEAN]
  /\ pc \in [Pushers -> {"wait", "read", "complete", "remember", "pop", "send"}]
HardwareOK ==
  /\ hardware \in Hardware
  /\ seen \in [Pushers -> Hardware]
  /\ info \in [Pushers -> [kind : Kinds, value : Hardware]]
  /\ previous \in Hardware \cup {NoHardware}
  /\ operator \in [full : BOOLEAN, value : Hardware \cup {NoHardware}]
EventsOK ==
  /\ carried \in [Pushers -> SUBSET Events]
  /\ queued \subseteq 1..made /\ delivered \subseteq 1..made
  /\ \A p \in Pushers : carried[p] \subseteq 1..made

\* The ticker that runs is the last one, and none does while it is replaced.
Ticking ==
  /\ live \subseteq {tickers}
  /\ upc = "stopped" => live = {}
  /\ proc = "boot" => tickers = 0 /\ upc = "idle"
  /\ upc # "stopped" /\ tickers > 0 /\ ~silenced => live = {tickers}

\* An event is in one place: queued, carried by one push, or delivered.
OnePlace ==
  /\ queued \cap delivered = {}
  /\ \A p \in Pushers : carried[p] \cap (queued \cup delivered) = {}
  /\ \A p, q \in Pushers : p # q => carried[p] \cap carried[q] = {}
  /\ ~repeated

\* Unless excused there is one push at a time, and once the operator was sent
\* the mutable part, or a heartbeat succeeded, it has been sent everything.
Known ==
  ~excused =>
    /\ \A p, q \in Pushers : pc[p] # "wait" /\ pc[q] # "wait" => p = q
    /\ operator.value # NoHardware => operator.full
    /\ ~first => operator.full
    /\ first /\ previous # NoHardware =>
         \E p \in Pushers : pc[p] \in {"pop", "send"} /\ info[p].kind = "full"
    /\ \A p \in Pushers :
         /\ pc[p] \in {"remember", "pop", "send"} /\ info[p].kind \in {"mutable", "same"} =>
              operator.full
         /\ pc[p] \in {"wait", "read"} => info[p] = Nothing
         /\ pc[p] = "remember" /\ first => info[p].kind = "full"

\* The operator is not behind what the next difference will be taken from.
Caught == previous # NoHardware => operator.value # NoHardware /\ operator.value >= previous

\* What a push that nothing disturbs has read, will send, and has remembered:
\* what it sends is what it remembers or newer, or the operator has it.
Base ==
  failures = 0 /\ ~excused =>
    /\ (\A p \in Pushers : pc[p] \notin {"pop", "send"}) => Caught
    /\ \A p \in Pushers :
         /\ pc[p] = "complete" =>
              /\ info[p].value = seen[p] /\ seen[p] <= hardware
              /\ \/ info[p].kind = "mutable"
                 \/ info[p].kind = "same" /\ previous = seen[p]
         /\ pc[p] = "remember" =>
              \/ info[p].kind \in {"mutable", "full"} /\ info[p].value >= seen[p]
              \/ info[p].kind = "same" /\ previous = seen[p]
         /\ pc[p] \in {"pop", "send"} =>
              \/ /\ info[p].kind \in {"mutable", "full"}
                 /\ previous # NoHardware /\ info[p].value >= previous
              \/ info[p].kind \in {"none", "same"} /\ Caught

-----------------------------------------------------------------------------
\* The invariant holds before the first heartbeat.
LEMMA Initially ==
  HeartbeatInit => DataOK /\ FlagsOK /\ PushersOK /\ HardwareOK /\ EventsOK /\ Ticking /\
    OnePlace /\ Known /\ Base
<1> SUFFICES ASSUME HeartbeatInit
             PROVE  DataOK /\ FlagsOK /\ PushersOK /\ HardwareOK /\ EventsOK /\ Ticking
                    /\ OnePlace /\ Known /\ Base
  OBVIOUS
<1> USE HeartbeatAssumption DEF HeartbeatInit, NewHeartbeatService
<1>1. DataOK
  BY DEF DataOK
<1>2. FlagsOK
  BY DEF FlagsOK
<1>3. PushersOK
  BY DEF PushersOK
<1>4. HardwareOK
  BY DEF HardwareOK, Hardware, Nothing, Kinds
<1>5. EventsOK
  BY DEF EventsOK
<1>6. Ticking
  BY DEF Ticking
<1>7. OnePlace
  BY DEF OnePlace
<1>8. Known
  BY DEF Known, Nothing
<1>9. Base
  BY DEF Base, Caught
<1>10. QED
  BY <1>1, <1>2, <1>3, <1>4, <1>5, <1>6, <1>7, <1>8, <1>9

\* Every step keeps the types of the data.
LEMMA DataInductive == DataOK /\ [HeartbeatNext]_heartbeatVars => DataOK'
<1> SUFFICES ASSUME DataOK, [HeartbeatNext]_heartbeatVars PROVE DataOK'
  OBVIOUS
<1> USE HeartbeatAssumption DEF DataOK, fixed, updating, ticking, pushing, memory,
         queue, outside
<1>1. ASSUME NEW c \in Configs, CallUpdate(c) PROVE DataOK'
  BY <1>1 DEF CallUpdate
<1>2. CASE Start
  <2>1. CASE NewTicker /\ period' = config.period /\ UNCHANGED silenced
    BY <1>2, <2>1 DEF Start, NewTicker
  <2>2. CASE UNCHANGED ticking
    BY <1>2, <2>2 DEF Start
  <2>3. QED
    BY <1>2, <2>1, <2>2 DEF Start
<1>3. CASE StopTicker
  BY <1>3 DEF StopTicker
<1>4. CASE RestartTicker
  BY <1>4 DEF RestartTicker, NewTicker
<1>5. CASE Swap
  BY <1>5 DEF Swap
<1>6. CASE Deregister
  BY <1>6 DEF Deregister
<1>7. CASE ChangeHardware
  BY <1>7 DEF ChangeHardware
<1>8. CASE QueueEvent
  BY <1>8 DEF QueueEvent
<1>9. ASSUME NEW p \in Pushers, Tick(p) PROVE DataOK'
  BY <1>9 DEF Tick
<1>10. ASSUME NEW p \in Pushers, BeginPush(p) PROVE DataOK'
  BY <1>10 DEF BeginPush, PusherAt, Go
<1>11. ASSUME NEW p \in Pushers, ReadHardware(p) PROVE DataOK'
  BY <1>11 DEF ReadHardware, PusherAt, Go, Fault
<1>12. ASSUME NEW p \in Pushers, CompleteHardware(p) PROVE DataOK'
  BY <1>12 DEF CompleteHardware, PusherAt, Go, Fault
<1>13. ASSUME NEW p \in Pushers, RememberHardware(p) PROVE DataOK'
  BY <1>13 DEF RememberHardware, PusherAt, Go
<1>14. ASSUME NEW p \in Pushers, RetrieveEvents(p) PROVE DataOK'
  BY <1>14 DEF RetrieveEvents, PusherAt, Go
<1>15. ASSUME NEW p \in Pushers, Send(p) PROVE DataOK'
  BY <1>15 DEF Send, PusherAt, Go, Arrive, Leave, Fail, Succeed, Fault
<1>16. ASSUME NEW p \in Pushers, Unauthorized(p) PROVE DataOK'
  BY <1>16 DEF Unauthorized, PusherAt, Fault
<1>17. CASE Restart
  BY <1>17 DEF Restart, Fault
<1>18. CASE UNCHANGED heartbeatVars
  BY <1>18 DEF heartbeatVars
<1>19. QED
    BY <1>1, <1>2, <1>3, <1>4, <1>5, <1>6, <1>7, <1>8, <1>9, <1>10, <1>11, <1>12,
     <1>13, <1>14, <1>15, <1>16, <1>17, <1>18
     DEF HeartbeatNext, Update, Push

\* Every step keeps the types of the flags.
LEMMA FlagsInductive == FlagsOK /\ [HeartbeatNext]_heartbeatVars => FlagsOK'
<1> SUFFICES ASSUME FlagsOK, [HeartbeatNext]_heartbeatVars PROVE FlagsOK'
  OBVIOUS
<1> USE DEF FlagsOK, fixed, updating, ticking, pushing, memory, queue, outside
<1>1. ASSUME NEW c \in Configs, CallUpdate(c) PROVE FlagsOK'
  BY <1>1 DEF CallUpdate
<1>2. CASE Start
  BY <1>2 DEF Start, NewTicker
<1>3. CASE StopTicker
  BY <1>3 DEF StopTicker
<1>4. CASE RestartTicker
  BY <1>4 DEF RestartTicker, NewTicker
<1>5. CASE Swap
  BY <1>5 DEF Swap
<1>6. CASE Deregister
  BY <1>6 DEF Deregister
<1>7. CASE ChangeHardware
  BY <1>7 DEF ChangeHardware
<1>8. CASE QueueEvent
  BY <1>8 DEF QueueEvent
<1>9. ASSUME NEW p \in Pushers, Tick(p) PROVE FlagsOK'
  BY <1>9 DEF Tick
<1>10. ASSUME NEW p \in Pushers, BeginPush(p) PROVE FlagsOK'
  BY <1>10 DEF BeginPush, PusherAt, Go
<1>11. ASSUME NEW p \in Pushers, ReadHardware(p) PROVE FlagsOK'
  BY <1>11 DEF ReadHardware, PusherAt, Go, Fault
<1>12. ASSUME NEW p \in Pushers, CompleteHardware(p) PROVE FlagsOK'
  BY <1>12 DEF CompleteHardware, PusherAt, Go, Fault
<1>13. ASSUME NEW p \in Pushers, RememberHardware(p) PROVE FlagsOK'
  BY <1>13 DEF RememberHardware, PusherAt, Go
<1>14. ASSUME NEW p \in Pushers, RetrieveEvents(p) PROVE FlagsOK'
  BY <1>14 DEF RetrieveEvents, PusherAt, Go
<1>15. ASSUME NEW p \in Pushers, Send(p) PROVE FlagsOK'
  BY <1>15 DEF Send, PusherAt, Go, Arrive, Leave, Fail, Succeed, Fault
<1>16. ASSUME NEW p \in Pushers, Unauthorized(p) PROVE FlagsOK'
  BY <1>16 DEF Unauthorized, PusherAt, Fault
<1>17. CASE Restart
  <2>1. first' = TRUE /\ silenced' = FALSE /\ repeated' = repeated /\ excused' = excused
    BY <1>17 DEF Restart
  <2>2. QED
    BY <2>1
<1>18. CASE UNCHANGED heartbeatVars
  BY <1>18 DEF heartbeatVars
<1>19. QED
    BY <1>1, <1>2, <1>3, <1>4, <1>5, <1>6, <1>7, <1>8, <1>9, <1>10, <1>11, <1>12,
     <1>13, <1>14, <1>15, <1>16, <1>17, <1>18
     DEF HeartbeatNext, Update, Push

\* Every step keeps the types of the pushers.
LEMMA PushersInductive == PushersOK /\ [HeartbeatNext]_heartbeatVars => PushersOK'
<1> SUFFICES ASSUME PushersOK, [HeartbeatNext]_heartbeatVars PROVE PushersOK'
  OBVIOUS
<1> USE DEF PushersOK, fixed, updating, ticking, pushing, memory, queue, outside
<1>1. ASSUME NEW c \in Configs, CallUpdate(c) PROVE PushersOK'
  BY <1>1 DEF CallUpdate
<1>2. CASE Start
  BY <1>2 DEF Start, NewTicker
<1>3. CASE StopTicker
  BY <1>3 DEF StopTicker
<1>4. CASE RestartTicker
  BY <1>4 DEF RestartTicker, NewTicker
<1>5. CASE Swap
  BY <1>5 DEF Swap
<1>6. CASE Deregister
  BY <1>6 DEF Deregister
<1>7. CASE ChangeHardware
  BY <1>7 DEF ChangeHardware
<1>8. CASE QueueEvent
  BY <1>8 DEF QueueEvent
<1>9. ASSUME NEW p \in Pushers, Tick(p) PROVE PushersOK'
  BY <1>9 DEF Tick
<1>10. ASSUME NEW p \in Pushers, BeginPush(p) PROVE PushersOK'
  BY <1>10 DEF BeginPush, PusherAt, Go
<1>11. ASSUME NEW p \in Pushers, ReadHardware(p) PROVE PushersOK'
  BY <1>11 DEF ReadHardware, PusherAt, Go, Fault
<1>12. ASSUME NEW p \in Pushers, CompleteHardware(p) PROVE PushersOK'
  BY <1>12 DEF CompleteHardware, PusherAt, Go, Fault
<1>13. ASSUME NEW p \in Pushers, RememberHardware(p) PROVE PushersOK'
  BY <1>13 DEF RememberHardware, PusherAt, Go
<1>14. ASSUME NEW p \in Pushers, RetrieveEvents(p) PROVE PushersOK'
  BY <1>14 DEF RetrieveEvents, PusherAt, Go
<1>15. ASSUME NEW p \in Pushers, Send(p) PROVE PushersOK'
  BY <1>15 DEF Send, PusherAt, Go, Arrive, Leave, Fail, Succeed, Fault
<1>16. ASSUME NEW p \in Pushers, Unauthorized(p) PROVE PushersOK'
  BY <1>16 DEF Unauthorized, PusherAt, Fault
<1>17. CASE Restart
  BY <1>17 DEF Restart, Fault
<1>18. CASE UNCHANGED heartbeatVars
  BY <1>18 DEF heartbeatVars
<1>19. QED
    BY <1>1, <1>2, <1>3, <1>4, <1>5, <1>6, <1>7, <1>8, <1>9, <1>10, <1>11, <1>12,
     <1>13, <1>14, <1>15, <1>16, <1>17, <1>18
     DEF HeartbeatNext, Update, Push

\* Every step keeps the types of what is known of the hardware.
LEMMA HardwareInductive == HardwareOK /\ [HeartbeatNext]_heartbeatVars => HardwareOK'
<1> SUFFICES ASSUME HardwareOK, [HeartbeatNext]_heartbeatVars PROVE HardwareOK'
  OBVIOUS
<1> USE HeartbeatAssumption, NoHardwareAssumption DEF HardwareOK, Hardware, Kinds, Nothing,
         fixed, updating, ticking, pushing, memory, queue, outside
<1>1. ASSUME NEW c \in Configs, CallUpdate(c) PROVE HardwareOK'
  BY <1>1 DEF CallUpdate
<1>2. CASE Start
  BY <1>2 DEF Start, NewTicker
<1>3. CASE StopTicker
  BY <1>3 DEF StopTicker
<1>4. CASE RestartTicker
  BY <1>4 DEF RestartTicker, NewTicker
<1>5. CASE Swap
  BY <1>5 DEF Swap
<1>6. CASE Deregister
  BY <1>6 DEF Deregister
<1>7. CASE ChangeHardware
  BY <1>7 DEF ChangeHardware
<1>8. CASE QueueEvent
  BY <1>8 DEF QueueEvent
<1>9. ASSUME NEW p \in Pushers, Tick(p) PROVE HardwareOK'
  BY <1>9 DEF Tick
<1>10. ASSUME NEW p \in Pushers, BeginPush(p) PROVE HardwareOK'
  BY <1>10 DEF BeginPush, PusherAt, Go
<1>11. ASSUME NEW p \in Pushers, ReadHardware(p) PROVE HardwareOK'
  BY <1>11 DEF ReadHardware, PusherAt, Go, Fault
<1>12. ASSUME NEW p \in Pushers, CompleteHardware(p) PROVE HardwareOK'
  BY <1>12 DEF CompleteHardware, PusherAt, Go, Fault
<1>13. ASSUME NEW p \in Pushers, RememberHardware(p) PROVE HardwareOK'
  BY <1>13 DEF RememberHardware, PusherAt, Go
<1>14. ASSUME NEW p \in Pushers, RetrieveEvents(p) PROVE HardwareOK'
  BY <1>14 DEF RetrieveEvents, PusherAt, Go
<1>15. ASSUME NEW p \in Pushers, Send(p) PROVE HardwareOK'
  <2>1. info' = [info EXCEPT ![p] = Nothing] /\ UNCHANGED <<hardware, seen>>
    BY <1>15 DEF Send, Leave, Fail, Succeed
  <2>2. previous' \in {previous, NoHardware}
    BY <1>15, Zenon DEF Send, Fail, Succeed
  <2>3. operator' = operator \/ Arrive(p)
    BY <1>15 DEF Send
  <2>4. (operator.full \/ info[p].kind \in {"immutable", "full"}) \in BOOLEAN
    OBVIOUS
  <2>5. (IF info[p].kind \in {"mutable", "full"} THEN info[p].value ELSE operator.value)
          \in Hardware \cup {NoHardware}
    OBVIOUS
  <2>6. operator' = operator \/ \E f \in BOOLEAN, v \in Hardware \cup {NoHardware} :
                                  operator' = [full |-> f, value |-> v]
    BY <2>3, <2>4, <2>5, Zenon DEF Arrive
  <2>7. QED
    BY <2>1, <2>2, <2>6
<1>16. ASSUME NEW p \in Pushers, Unauthorized(p) PROVE HardwareOK'
  BY <1>16 DEF Unauthorized, PusherAt, Fault
<1>17. CASE Restart
  BY <1>17 DEF Restart, Fault
<1>18. CASE UNCHANGED heartbeatVars
  BY <1>18 DEF heartbeatVars
<1>19. QED
    BY <1>1, <1>2, <1>3, <1>4, <1>5, <1>6, <1>7, <1>8, <1>9, <1>10, <1>11, <1>12,
     <1>13, <1>14, <1>15, <1>16, <1>17, <1>18
     DEF HeartbeatNext, Update, Push

\* Every step keeps the types of the events.
LEMMA EventsInductive == DataOK /\ EventsOK /\ [HeartbeatNext]_heartbeatVars => EventsOK'
<1> SUFFICES ASSUME DataOK, EventsOK, [HeartbeatNext]_heartbeatVars PROVE EventsOK'
  OBVIOUS
<1> USE HeartbeatAssumption DEF DataOK, EventsOK, Events, fixed, updating, ticking,
         pushing, memory, queue, outside
<1>1. ASSUME NEW c \in Configs, CallUpdate(c) PROVE EventsOK'
  BY <1>1 DEF CallUpdate
<1>2. CASE Start
  BY <1>2 DEF Start, NewTicker
<1>3. CASE StopTicker
  BY <1>3 DEF StopTicker
<1>4. CASE RestartTicker
  BY <1>4 DEF RestartTicker, NewTicker
<1>5. CASE Swap
  BY <1>5 DEF Swap
<1>6. CASE Deregister
  BY <1>6 DEF Deregister
<1>7. CASE ChangeHardware
  BY <1>7 DEF ChangeHardware
<1>8. CASE QueueEvent
  BY <1>8 DEF QueueEvent
<1>9. ASSUME NEW p \in Pushers, Tick(p) PROVE EventsOK'
  BY <1>9 DEF Tick
<1>10. ASSUME NEW p \in Pushers, BeginPush(p) PROVE EventsOK'
  BY <1>10 DEF BeginPush, PusherAt, Go
<1>11. ASSUME NEW p \in Pushers, ReadHardware(p) PROVE EventsOK'
  BY <1>11 DEF ReadHardware, PusherAt, Go, Fault
<1>12. ASSUME NEW p \in Pushers, CompleteHardware(p) PROVE EventsOK'
  BY <1>12 DEF CompleteHardware, PusherAt, Go, Fault
<1>13. ASSUME NEW p \in Pushers, RememberHardware(p) PROVE EventsOK'
  BY <1>13 DEF RememberHardware, PusherAt, Go
<1>14. ASSUME NEW p \in Pushers, RetrieveEvents(p) PROVE EventsOK'
  <2>1. carried' = [carried EXCEPT ![p] = queued] /\ queued' = {}
    BY <1>14 DEF RetrieveEvents
  <2>2. UNCHANGED <<made, delivered>>
    BY <1>14 DEF RetrieveEvents
  <2>3. queued \subseteq Events
    OBVIOUS
  <2>4. carried' \in [Pushers -> SUBSET Events]
    BY <2>1, <2>3
  <2>5. \A q \in Pushers : carried'[q] \subseteq 1..made
    BY <2>1
  <2>6. QED
    BY <2>1, <2>2, <2>4, <2>5
<1>15. ASSUME NEW p \in Pushers, Send(p) PROVE EventsOK'
  <2>1. carried' = [carried EXCEPT ![p] = {}]
    BY <1>15 DEF Send, Leave, Fail, Succeed
  <2>2. delivered' \in {delivered, delivered \cup carried[p]}
    BY <1>15, Zenon DEF Send, Arrive
  <2>3. made' = made /\ queued' = queued
    BY <1>15 DEF Send
  <2>4. QED
    BY <2>1, <2>2, <2>3
<1>16. ASSUME NEW p \in Pushers, Unauthorized(p) PROVE EventsOK'
  BY <1>16 DEF Unauthorized, PusherAt, Fault
<1>17. CASE Restart
  BY <1>17 DEF Restart, Fault
<1>18. CASE UNCHANGED heartbeatVars
  BY <1>18 DEF heartbeatVars
<1>19. QED
    BY <1>1, <1>2, <1>3, <1>4, <1>5, <1>6, <1>7, <1>8, <1>9, <1>10, <1>11, <1>12,
     <1>13, <1>14, <1>15, <1>16, <1>17, <1>18
     DEF HeartbeatNext, Update, Push

\* Every step keeps the running ticker the last one.
LEMMA TickingInductive == DataOK /\ Ticking /\ [HeartbeatNext]_heartbeatVars => Ticking'
<1> SUFFICES ASSUME DataOK, Ticking, [HeartbeatNext]_heartbeatVars PROVE Ticking'
  OBVIOUS
<1> USE HeartbeatAssumption DEF DataOK, Ticking, fixed, updating, ticking, pushing,
         memory, queue, outside
<1>1. ASSUME NEW c \in Configs, CallUpdate(c) PROVE Ticking'
  BY <1>1 DEF CallUpdate
<1>2. CASE Start
  <2>1. CASE NewTicker /\ period' = config.period /\ UNCHANGED silenced
    <3>1. tickers = 0 /\ live = {} /\ upc = "idle"
      BY <1>2 DEF Start
    <3>2. tickers' = 1 /\ live' = {1} /\ upc' = "idle" /\ proc' = "up"
      BY <1>2, <2>1, <3>1 DEF Start, NewTicker
    <3>3. QED
      BY <3>2
  <2>2. CASE UNCHANGED ticking
    BY <1>2, <2>2 DEF Start
  <2>3. QED
    BY <1>2, <2>1, <2>2 DEF Start
<1>3. CASE StopTicker
  BY <1>3 DEF StopTicker
<1>4. CASE RestartTicker
  BY <1>4 DEF RestartTicker, NewTicker
<1>5. CASE Swap
  BY <1>5 DEF Swap
<1>6. CASE Deregister
  BY <1>6 DEF Deregister
<1>7. CASE ChangeHardware
  BY <1>7 DEF ChangeHardware
<1>8. CASE QueueEvent
  BY <1>8 DEF QueueEvent
<1>9. ASSUME NEW p \in Pushers, Tick(p) PROVE Ticking'
  BY <1>9 DEF Tick
<1>10. ASSUME NEW p \in Pushers, BeginPush(p) PROVE Ticking'
  BY <1>10 DEF BeginPush, PusherAt, Go
<1>11. ASSUME NEW p \in Pushers, ReadHardware(p) PROVE Ticking'
  BY <1>11 DEF ReadHardware, PusherAt, Go, Fault
<1>12. ASSUME NEW p \in Pushers, CompleteHardware(p) PROVE Ticking'
  BY <1>12 DEF CompleteHardware, PusherAt, Go, Fault
<1>13. ASSUME NEW p \in Pushers, RememberHardware(p) PROVE Ticking'
  BY <1>13 DEF RememberHardware, PusherAt, Go
<1>14. ASSUME NEW p \in Pushers, RetrieveEvents(p) PROVE Ticking'
  BY <1>14 DEF RetrieveEvents, PusherAt, Go
<1>15. ASSUME NEW p \in Pushers, Send(p) PROVE Ticking'
  BY <1>15 DEF Send, PusherAt, Go, Arrive, Leave, Fail, Succeed, Fault
<1>16. ASSUME NEW p \in Pushers, Unauthorized(p) PROVE Ticking'
  BY <1>16 DEF Unauthorized, PusherAt, Fault
<1>17. CASE Restart
  BY <1>17 DEF Restart, Fault
<1>18. CASE UNCHANGED heartbeatVars
  BY <1>18 DEF heartbeatVars
<1>19. QED
    BY <1>1, <1>2, <1>3, <1>4, <1>5, <1>6, <1>7, <1>8, <1>9, <1>10, <1>11, <1>12,
     <1>13, <1>14, <1>15, <1>16, <1>17, <1>18
     DEF HeartbeatNext, Update, Push

\* Every step keeps each event in one place.
LEMMA OnePlaceInductive ==
  DataOK /\ EventsOK /\ OnePlace /\ [HeartbeatNext]_heartbeatVars => OnePlace'
<1> SUFFICES ASSUME DataOK, EventsOK, OnePlace, [HeartbeatNext]_heartbeatVars
             PROVE  OnePlace'
  OBVIOUS
<1> USE HeartbeatAssumption DEF DataOK, EventsOK, Events, OnePlace, fixed, updating,
         ticking, pushing, memory, queue, outside
<1>1. ASSUME NEW c \in Configs, CallUpdate(c) PROVE OnePlace'
  BY <1>1 DEF CallUpdate
<1>2. CASE Start
  BY <1>2 DEF Start, NewTicker
<1>3. CASE StopTicker
  BY <1>3 DEF StopTicker
<1>4. CASE RestartTicker
  BY <1>4 DEF RestartTicker, NewTicker
<1>5. CASE Swap
  BY <1>5 DEF Swap
<1>6. CASE Deregister
  BY <1>6 DEF Deregister
<1>7. CASE ChangeHardware
  BY <1>7 DEF ChangeHardware
<1>8. CASE QueueEvent
  BY <1>8 DEF QueueEvent
<1>9. ASSUME NEW p \in Pushers, Tick(p) PROVE OnePlace'
  BY <1>9 DEF Tick
<1>10. ASSUME NEW p \in Pushers, BeginPush(p) PROVE OnePlace'
  BY <1>10 DEF BeginPush, PusherAt, Go
<1>11. ASSUME NEW p \in Pushers, ReadHardware(p) PROVE OnePlace'
  BY <1>11 DEF ReadHardware, PusherAt, Go, Fault
<1>12. ASSUME NEW p \in Pushers, CompleteHardware(p) PROVE OnePlace'
  BY <1>12 DEF CompleteHardware, PusherAt, Go, Fault
<1>13. ASSUME NEW p \in Pushers, RememberHardware(p) PROVE OnePlace'
  BY <1>13 DEF RememberHardware, PusherAt, Go
<1>14. ASSUME NEW p \in Pushers, RetrieveEvents(p) PROVE OnePlace'
  <2>1. carried' = [carried EXCEPT ![p] = queued] /\ queued' = {}
    BY <1>14 DEF RetrieveEvents
  <2>2. UNCHANGED <<made, delivered, repeated>>
    BY <1>14 DEF RetrieveEvents
  <2>3. \A q \in Pushers : carried'[q] = IF q = p THEN queued ELSE carried[q]
    BY <2>1
  <2>4. \A q \in Pushers : carried'[q] \cap (queued' \cup delivered') = {}
    BY <2>1, <2>2, <2>3
  <2>5. \A q, r \in Pushers : q # r => carried'[q] \cap carried'[r] = {}
    BY <2>3
  <2>6. QED
    BY <2>1, <2>2, <2>4, <2>5
<1>15. ASSUME NEW p \in Pushers, Send(p) PROVE OnePlace'
  <2>1. carried' = [carried EXCEPT ![p] = {}]
    BY <1>15 DEF Send, Leave, Fail, Succeed
  <2>2. delivered' \in {delivered, delivered \cup carried[p]}
    BY <1>15, Zenon DEF Send, Arrive
  <2>3. made' = made /\ queued' = queued
    BY <1>15 DEF Send
  <2>4. repeated' = (repeated \/ carried[p] \cap delivered # {}) \/ repeated' = repeated
    BY <1>15, Zenon DEF Send, Arrive
  <2>5. carried[p] \cap delivered = {} /\ ~repeated
    OBVIOUS
  <2>6. ~repeated'
    BY <2>4, <2>5, Zenon
  <2>7. QED
    BY <2>1, <2>2, <2>3, <2>6
<1>16. ASSUME NEW p \in Pushers, Unauthorized(p) PROVE OnePlace'
  BY <1>16 DEF Unauthorized, PusherAt, Fault
<1>17. CASE Restart
  BY <1>17 DEF Restart, Fault
<1>18. CASE UNCHANGED heartbeatVars
  BY <1>18 DEF heartbeatVars
<1>19. QED
    BY <1>1, <1>2, <1>3, <1>4, <1>5, <1>6, <1>7, <1>8, <1>9, <1>10, <1>11, <1>12,
     <1>13, <1>14, <1>15, <1>16, <1>17, <1>18
     DEF HeartbeatNext, Update, Push

\* Every step keeps what the operator knows.
LEMMA KnownInductive ==
  FlagsOK /\ PushersOK /\ HardwareOK /\ Known /\ [HeartbeatNext]_heartbeatVars => Known'
<1> SUFFICES ASSUME FlagsOK, PushersOK, HardwareOK, Known, [HeartbeatNext]_heartbeatVars
             PROVE  Known'
  OBVIOUS
<1> USE NoHardwareAssumption DEF FlagsOK, PushersOK, HardwareOK, Known, Kinds, Nothing, fixed,
         updating, ticking, pushing, memory, queue, outside
<1>1. ASSUME NEW c \in Configs, CallUpdate(c) PROVE Known'
  BY <1>1 DEF CallUpdate
<1>2. CASE Start
  BY <1>2 DEF Start, NewTicker
<1>3. CASE StopTicker
  BY <1>3 DEF StopTicker
<1>4. CASE RestartTicker
  BY <1>4 DEF RestartTicker, NewTicker
<1>5. CASE Swap
  BY <1>5 DEF Swap
<1>6. CASE Deregister
  BY <1>6 DEF Deregister
<1>7. CASE ChangeHardware
  BY <1>7 DEF ChangeHardware
<1>8. CASE QueueEvent
  BY <1>8 DEF QueueEvent
<1>9. ASSUME NEW p \in Pushers, Tick(p) PROVE Known'
  BY <1>9 DEF Tick
<1>10. ASSUME NEW p \in Pushers, BeginPush(p) PROVE Known'
  BY <1>10 DEF BeginPush, PusherAt, Go
<1>11. ASSUME NEW p \in Pushers, ReadHardware(p) PROVE Known'
  BY <1>11 DEF ReadHardware, PusherAt, Go, Fault
<1>12. ASSUME NEW p \in Pushers, CompleteHardware(p) PROVE Known'
  BY <1>12 DEF CompleteHardware, PusherAt, Go, Fault
<1>13. ASSUME NEW p \in Pushers, RememberHardware(p) PROVE Known'
  BY <1>13 DEF RememberHardware, PusherAt, Go
<1>14. ASSUME NEW p \in Pushers, RetrieveEvents(p) PROVE Known'
  BY <1>14 DEF RetrieveEvents, PusherAt, Go
<1>15. ASSUME NEW p \in Pushers, Send(p) PROVE Known'
  BY <1>15 DEF Send, PusherAt, Go, Arrive, Leave, Fail, Succeed, Fault
<1>16. ASSUME NEW p \in Pushers, Unauthorized(p) PROVE Known'
  BY <1>16 DEF Unauthorized, PusherAt, Fault
<1>17. CASE Restart
  BY <1>17 DEF Restart, Fault
<1>18. CASE UNCHANGED heartbeatVars
  BY <1>18 DEF heartbeatVars
<1>19. QED
    BY <1>1, <1>2, <1>3, <1>4, <1>5, <1>6, <1>7, <1>8, <1>9, <1>10, <1>11, <1>12,
     <1>13, <1>14, <1>15, <1>16, <1>17, <1>18
     DEF HeartbeatNext, Update, Push

\* Every step keeps the base of the differences.
LEMMA BaseInductive ==
  DataOK /\ FlagsOK /\ PushersOK /\ HardwareOK /\ Known /\ Base /\ [HeartbeatNext]_heartbeatVars => Base'
<1> SUFFICES ASSUME DataOK, FlagsOK, PushersOK, HardwareOK, Known, Base, [HeartbeatNext]_heartbeatVars
             PROVE  Base'
  OBVIOUS
<1> USE HeartbeatAssumption, NoHardwareAssumption
     DEF DataOK, Hardware, FlagsOK, PushersOK, HardwareOK, Known, Base, Caught, Kinds,
         Nothing, fixed, updating, ticking, pushing, memory, queue, outside
<1>1. ASSUME NEW c \in Configs, CallUpdate(c) PROVE Base'
  BY <1>1 DEF CallUpdate
<1>2. CASE Start
  BY <1>2 DEF Start, NewTicker
<1>3. CASE StopTicker
  BY <1>3 DEF StopTicker
<1>4. CASE RestartTicker
  BY <1>4 DEF RestartTicker, NewTicker
<1>5. CASE Swap
  BY <1>5 DEF Swap
<1>6. CASE Deregister
  BY <1>6 DEF Deregister
<1>7. CASE ChangeHardware
  BY <1>7 DEF ChangeHardware
<1>8. CASE QueueEvent
  BY <1>8 DEF QueueEvent
<1>9. ASSUME NEW p \in Pushers, Tick(p) PROVE Base'
  BY <1>9 DEF Tick
<1>10. ASSUME NEW p \in Pushers, BeginPush(p) PROVE Base'
  BY <1>10 DEF BeginPush, PusherAt, Go
<1>11. ASSUME NEW p \in Pushers, ReadHardware(p) PROVE Base'
  BY <1>11 DEF ReadHardware, PusherAt, Go, Fault
<1>12. ASSUME NEW p \in Pushers, CompleteHardware(p) PROVE Base'
  BY <1>12 DEF CompleteHardware, PusherAt, Go, Fault
<1>13. ASSUME NEW p \in Pushers, RememberHardware(p) PROVE Base'
  BY <1>13 DEF RememberHardware, PusherAt, Go
<1>14. ASSUME NEW p \in Pushers, RetrieveEvents(p) PROVE Base'
  BY <1>14 DEF RetrieveEvents, PusherAt, Go
<1>15. ASSUME NEW p \in Pushers, Send(p) PROVE Base'
  BY <1>15 DEF Send, PusherAt, Go, Arrive, Leave, Fail, Succeed, Fault
<1>16. ASSUME NEW p \in Pushers, Unauthorized(p) PROVE Base'
  BY <1>16 DEF Unauthorized, PusherAt, Fault
<1>17. CASE Restart
  BY <1>17 DEF Restart, Fault
<1>18. CASE UNCHANGED heartbeatVars
  BY <1>18 DEF heartbeatVars
<1>19. QED
    BY <1>1, <1>2, <1>3, <1>4, <1>5, <1>6, <1>7, <1>8, <1>9, <1>10, <1>11, <1>12,
     <1>13, <1>14, <1>15, <1>16, <1>17, <1>18
     DEF HeartbeatNext, Update, Push
-----------------------------------------------------------------------------
\* Every variable stays within its type, for every value of the constants.
THEOREM TypeCorrect == HeartbeatSpec => []HeartbeatTypeOK
<1>1. HeartbeatInit => DataOK /\ FlagsOK /\ PushersOK /\ HardwareOK /\ EventsOK
  BY Initially
<1>2. DataOK /\ FlagsOK /\ PushersOK /\ HardwareOK /\ EventsOK /\ [HeartbeatNext]_heartbeatVars
        => (DataOK /\ FlagsOK /\ PushersOK /\ HardwareOK /\ EventsOK)'
  BY DataInductive, FlagsInductive, PushersInductive, HardwareInductive, EventsInductive
<1>3. DataOK /\ FlagsOK /\ PushersOK /\ HardwareOK /\ EventsOK => HeartbeatTypeOK
  BY DEF HeartbeatTypeOK, DataOK, FlagsOK, PushersOK, HardwareOK, EventsOK
<1>4. QED
  BY <1>1, <1>2, <1>3, PTL DEF HeartbeatSpec

\* At most one ticker runs, and one does unless it is replaced, was never
\* started or was stopped for good (stopTicker, initTicker, Update).
THEOREM TickerIsOne == HeartbeatSpec => []OneTicker
<1>1. DataOK /\ Ticking => OneTicker
  <2> SUFFICES ASSUME DataOK, Ticking PROVE OneTicker
    OBVIOUS
  <2>1. live = {} \/ live = {tickers}
    BY DEF Ticking
  <2>2. Cardinality(live) \in {0, 1}
    BY <2>1, FS_EmptySet, FS_Singleton
  <2>3. QED
    BY <2>2 DEF OneTicker, Ticking
<1>2. HeartbeatInit => DataOK /\ Ticking
  BY Initially
<1>3. DataOK /\ Ticking /\ [HeartbeatNext]_heartbeatVars => (DataOK /\ Ticking)'
  BY DataInductive, TickingInductive
<1>4. QED
  BY <1>1, <1>2, <1>3, PTL DEF HeartbeatSpec

\* No event is delivered twice, whatever pushes overlap, fail or go unanswered
\* (RetrieveInfo, PopEvents).
THEOREM EventsDelivered == HeartbeatSpec => []EventsAtMostOnce
<1>1. HeartbeatInit => DataOK /\ EventsOK /\ OnePlace
  BY Initially
<1>2. DataOK /\ EventsOK /\ OnePlace /\ [HeartbeatNext]_heartbeatVars
        => (DataOK /\ EventsOK /\ OnePlace)'
  BY DataInductive, EventsInductive, OnePlaceInductive
<1>3. OnePlace => EventsAtMostOnce
  BY DEF OnePlace, EventsAtMostOnce
<1>4. QED
  BY <1>1, <1>2, <1>3, PTL DEF HeartbeatSpec

\* Unless it is excused, the operator knows the whole hardware before it is
\* sent a part of it (buildHardwareInfo, pushInformation).
THEOREM HardwareKnown == HeartbeatSpec => []FullFirst
<1>1. HeartbeatInit => FlagsOK /\ PushersOK /\ HardwareOK /\ Known
  BY Initially
<1>2. FlagsOK /\ PushersOK /\ HardwareOK /\ Known /\ [HeartbeatNext]_heartbeatVars
        => (FlagsOK /\ PushersOK /\ HardwareOK /\ Known)'
  BY FlagsInductive, PushersInductive, HardwareInductive, KnownInductive
<1>3. Known => FullFirst
  BY DEF Known, FullFirst
<1>4. QED
  BY <1>1, <1>2, <1>3, PTL DEF HeartbeatSpec

\* Unless a push failed or two overlapped, the operator is not behind the
\* hardware the next difference is taken from (buildHardwareInfo,
\* getMutableHardwareInfoDelta).
THEOREM DifferencesHold == HeartbeatSpec => []DeltaBase
<1>1. HeartbeatInit => DataOK /\ FlagsOK /\ PushersOK /\ HardwareOK /\ Known /\ Base
  BY Initially
<1>2. DataOK /\ FlagsOK /\ PushersOK /\ HardwareOK /\ Known /\ Base /\ [HeartbeatNext]_heartbeatVars
        => (DataOK /\ FlagsOK /\ PushersOK /\ HardwareOK /\ Known /\ Base)'
  BY DataInductive, FlagsInductive, PushersInductive, HardwareInductive, KnownInductive,
     BaseInductive
<1>3. Base => DeltaBase
  BY DEF Base, Caught, DeltaBase
<1>4. QED
  BY <1>1, <1>2, <1>3, PTL DEF HeartbeatSpec
=============================================================================
