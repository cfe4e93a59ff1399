SPECIFICATION Spec
CONSTANTS
  a = a
  b = b
  Path = Path
  None = None
  Names <- MCNames
  Batches <- MCBatches
  MaxMessages = 2
  MaxRuns = 3
  MaxFaults = 2
INVARIANTS
  NotRunAgain
  WaitCoversRuns
PROPERTIES
  HandlerReturns
