SPECIFICATION OperationSpec
CONSTANTS
  a = a
  b = b
  s1 = s1
  s2 = s2
  t1 = t1
  t2 = t2
  Workloads = {a, b}
  Specs = {s1, s2}
  SelfUpdating = {}
  Auths = {t1, t2}
  NoAuth = NoAuth
  None = None
  Torn = Torn
  MaxUpdates = 3
  Settings <- MCSettings
  Configs <- MCConfigs
  Answers = {"ok", "lost", "unanswered", "rejected", "unauthorized", "unread"}
  NoHardware = NoHardware
  MaxTickers = 2
  MaxChanges = 1
  MaxEvents = 1
  MaxFaults = 1
SYMMETRY MCSymmetry
INVARIANTS
  TypeOK
  MappingFindsPod
  Converges
  OneFailureOneWorkload
  StalePlainRemoved
  StopStopsAll
  DeregisterLeavesNothing
  OneTicker
  EventsAtMostOnce
  FullFirst
  DeltaBase
