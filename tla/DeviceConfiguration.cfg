SPECIFICATION Spec
CONSTANTS
  c1 = c1
  c2 = c2
  default = default
  Contents <- MCContents
  Default = default
  NumObservers = 3
  WorkloadManager = 2
  NoFile = NoFile
  Torn = Torn
  Nothing = Nothing
  MaxSends = 3
  MaxFaults = 2
INVARIANTS
  ObserversHoldMemory
  DiskMatchesMemory
  DeregisteredForGood
PROPERTIES
  EveryMessageIsTaken
  ImplementsService
