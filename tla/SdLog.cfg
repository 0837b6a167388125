SPECIFICATION FairSpec
CONSTANTS
  MaxRecs = 2
  SegRecs = 1
  PageMax = 1
  QueueLen = 1
  MaxCuts = 1
  MaxFaults = 2
  MaxAsks = 1
INVARIANT LogInv
PROPERTY CatchesUp
