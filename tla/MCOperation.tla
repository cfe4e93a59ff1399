---------------------------- MODULE MCOperation ----------------------------
(* The device at work: its workloads, and the heartbeat that tells of it.   *)
(* They share no state but the queue of events, which Heartbeat models, so  *)
(* a behaviour is about one of them, chosen at the start, and the other     *)
(* stays as it begins.                                                      *)
EXTENDS MCWorkloadManager, MCHeartbeat

VARIABLE part

OperationInit ==
  /\ part \in {"workloads", "heartbeat"}
  /\ Init /\ HeartbeatInit
  /\ part = "workloads" => config = CHOOSE c \in Configs : TRUE
  /\ part = "heartbeat" => setting = CHOOSE s \in Settings : TRUE

\* A step of one part.
Only(p) ==
  /\ part = p /\ UNCHANGED part
  /\ p = "workloads" => UNCHANGED heartbeatVars
  /\ p = "heartbeat" => UNCHANGED vars

OperationNext ==
  \/ Only("workloads") /\ Next
  \/ Only("heartbeat") /\ HeartbeatNext

OperationSpec == OperationInit /\ [][OperationNext]_<<part, vars, heartbeatVars>>
=============================================================================
