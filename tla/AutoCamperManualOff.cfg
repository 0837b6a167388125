SPECIFICATION Spec
CONSTANTS
  MaxFails = 2
  MaxDrives = 1
  MaxOwner = 1
  MaxToggles = 0
  MaxReboots = 0
  MaxLostSaves = 0
INVARIANT ManualOffSticks
