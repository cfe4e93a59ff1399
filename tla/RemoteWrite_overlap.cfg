SPECIFICATION Spec
CONSTANTS
  NumSeries = 1
  RangeDuration = 1
  NumSamples = 2
  NumTries = 1
  Receivers = {r1}
  NoReceiver = NoReceiver
  Torn = Torn
  MaxTime = 8
  MaxSamples = 4
  MaxBlocks = 1
  MaxFaults = 0
INVARIANT EverythingSent
