SPECIFICATION Spec
CONSTANTS
  w = w
  None = None
  Workloads <- MCWorkloads
  Messages <- MCMessages
  Default <- MCDefault
  MaxEvents = 2
  MaxFaults = 2
INVARIANTS
  NoTargetWithoutPod
  SystemFollows
  RetentionApplied
