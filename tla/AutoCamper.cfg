SPECIFICATION FairSpec
CONSTANTS
  MaxFails = 2
  MaxDrives = 2
  MaxOwner = 1
  MaxToggles = 1
  MaxReboots = 1
  MaxLostSaves = 1
INVARIANT CamperInv
PROPERTY DebtSettles
