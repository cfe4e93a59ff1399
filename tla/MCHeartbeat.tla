---------------------------- MODULE MCHeartbeat ----------------------------
(* Heartbeat with two periods, one of them in scope delta, and a            *)
(* configuration that leaves the hardware out.                              *)
EXTENDS Heartbeat
MCConfigs ==
  {[period |-> 1, scope |-> "full", include |-> TRUE],
   [period |-> 2, scope |-> "delta", include |-> TRUE],
   [period |-> 2, scope |-> "full", include |-> FALSE]}
=============================================================================
