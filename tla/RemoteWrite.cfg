SPECIFICATION LoopSpec
CONSTANTS
  NumSeries = 2
  RangeDuration = 1
  NumSamples = 2
  NumTries = 2
  Receivers = {r1}
  NoReceiver = NoReceiver
  Torn = Torn
  MaxTime = 4
  MaxSamples = 3
  MaxBlocks = 1
  MaxFaults = 2
INVARIANTS
  NothingSkipped
  NoDuplicates
  RunsWhileEnabled
  RequestsAsCut
PROPERTY ImplementsRemoteWrite
