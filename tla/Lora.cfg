SPECIFICATION LoraFairSpec
CONSTANTS
  Frames = {"f", "g"}
  Costs = {1, 2}
  Budget = 4
  Share = 3
  Day = 2
  Base = 1
  RingSize = 3
  Downlinks = 1
  SilentMax = 3
  MaxHangs = 1
  MaxChanges = 1
INVARIANT AirtimeKept
PROPERTIES MarkedWasOnAir NewsGetsOut
