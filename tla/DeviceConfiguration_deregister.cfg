SPECIFICATION Spec
CONSTANTS
  c1 = c1
  c2 = c2
  default = default
  Contents <- MCContents
  Default = default
  NumObservers = 2
  WorkloadManager = 2
  NoFile = NoFile
  Torn = Torn
  Nothing = Nothing
  MaxSends = 2
  MaxFaults = 0
INVARIANTS
  FileGoneAfterDeregister
