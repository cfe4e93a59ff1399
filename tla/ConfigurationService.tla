------------------------ MODULE ConfigurationService ------------------------
(***************************************************************************)
(* What the configuration manager promises, without its goroutines, its    *)
(* channel and its file: the worker runs on one configuration; another one *)
(* becomes durable, and then current, only when every observer was handed  *)
(* it; and a restart comes back with the durable one, which an interrupted *)
(* or failed save, or a deregistration, turns into the default one.        *)
(***************************************************************************)
CONSTANTS
  Observers,
  Messages,
  Default,  \* the configuration of a worker that has none
  Nothing   \* an observer that was handed none

VARIABLES
  running, \* the process runs
  handed,  \* per observer, the configuration it was handed last
  excused, \* the observers that take no configuration any more
  current, \* the configuration the worker reports
  durable  \* the one a restart starts with

vars == <<running, handed, excused, current, durable>>

Init ==
  /\ running = FALSE
  /\ handed = [o \in Observers |-> Nothing]
  /\ excused = {}
  /\ current = Default /\ durable = Default

HandedToAll(m) == \A o \in Observers \ excused : handed[o] = m

Start ==
  /\ ~running
  /\ running' = TRUE
  /\ current' = durable
  /\ UNCHANGED <<handed, excused, durable>>

Hand(o, m) ==
  /\ running /\ o \notin excused
  /\ handed' = [handed EXCEPT ![o] = m]
  /\ UNCHANGED <<running, excused, current, durable>>

Excuse(o) ==
  /\ running
  /\ excused' = excused \cup {o}
  /\ handed' = [handed EXCEPT ![o] = Nothing]
  /\ UNCHANGED <<running, current, durable>>

Save(m) ==
  /\ running
  /\ HandedToAll(m)
  /\ durable' = m
  /\ UNCHANGED <<running, handed, excused, current>>

\* A save begins, or the worker is deregistered.
Lose ==
  /\ running
  /\ durable' = Default
  /\ UNCHANGED <<running, handed, excused, current>>

\* What becomes current is durable, unless a deregistration came between.
Adopt(m) ==
  /\ running
  /\ HandedToAll(m)
  /\ durable \in {m, Default}
  /\ current' = m
  /\ UNCHANGED <<running, handed, excused, durable>>

Stop ==
  /\ running
  /\ running' = FALSE
  /\ handed' = [o \in Observers |-> Nothing]
  /\ excused' = {}
  /\ current' = Default
  /\ UNCHANGED durable

Next ==
  \/ Start \/ Stop \/ Lose
  \/ \E o \in Observers : Excuse(o)
  \/ \E m \in Messages :
       Save(m) \/ Adopt(m) \/ \E o \in Observers : Hand(o, m)

Spec == Init /\ [][Next]_vars
=============================================================================
