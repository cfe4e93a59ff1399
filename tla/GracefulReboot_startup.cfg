SPECIFICATION Spec
CONSTANTS
  unknown = unknown
  noOs = noOs
  empty = empty
  NumCommits = 2
  Unknown = unknown
  NoOs = noOs
  Empty = empty
  MaxUpdates = 1
  MaxFaults = 1
  MaxRestarts = 1
  MaxPlaybooks = 0
CHECK_DEADLOCK FALSE
PROPERTIES
  UpdateEnds
