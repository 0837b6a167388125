SPECIFICATION MCSpec
CONSTANTS
  Commands = {"c"}
  Starts = {"s", "t"}
  Presses = {"p", "q"}
  SettleTicks = 1
  MaxFaults = 1
INVARIANT RoofInv
PROPERTIES RadioGoesOn MovesEnd
