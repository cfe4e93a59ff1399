SPECIFICATION LifecycleSpec
CONSTANTS
  Keys = {k1, k2, k3, k4, k5}
  Unreadable = Unreadable
  MaxFailures = 4
  unknown = unknown
  noOs = noOs
  empty = empty
  NumCommits = 3
  Unknown = unknown
  NoOs = noOs
  Empty = empty
  MaxUpdates = 4
  MaxFaults = 2
  MaxRestarts = 1
  MaxPlaybooks = 1
INVARIANTS
  PairOnDisk
  RegisteredHasCert
  StoppedOnlyForUpgrade
  RebootAfterDrain
PROPERTIES
  EventuallyRegistered
  AcceptedRebootEnds
