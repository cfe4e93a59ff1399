----------------------------- MODULE MCMetrics -----------------------------
(* Metrics with a workload that has a name of its own and one that is named *)
(* like the target of the system.                                          *)
EXTENDS Metrics

CONSTANT w

MCWorkloads == {w, "system"}

Msg(system, transfer, retention, workloads, metered) ==
  [intervals |-> [system |-> system, transfer |-> transfer], retention |-> retention,
   workloads |-> workloads, metered |-> metered]

MCDefault == Msg(1, 1, 0, {}, {})

MCMessages ==
  {MCDefault, Msg(0, 0, 1, {w, "system"}, {w, "system"}), Msg(2, 2, 0, {}, {})}
=============================================================================
