SPECIFICATION OwnerSpec
CONSTANTS
  Deadline = 6
  PullTime = 2
  FollowDelay = 2
  Plans <- MCPlans
  Nets = {"home", "camp"}
  StartFails = FALSE
  MaxCuts = 2
  WakePulse = 1
  HaltPulse = 2
  HoldMax = 3
  MinGap = 3
  GuardTime = 2
  ParkTimes = {0, 1, 4}
  Keys = {"a", "b", "c"}
  Payloads = {1, 2}
  MaxRecords = 2
  MaxRots = 1
INVARIANTS CtlInv WifiInv BondInv
PROPERTIES FrameInPlace PortSpec BusyEnds WifiReached HaltIsEarned ParkedHalts
