SPECIFICATION HouseSpec
CONSTANTS
    Levels = {1, 2}
    Nights = {FALSE, TRUE}
    Faults = {"none", "battery"}
    Panel = {"cont"}
    Units = {a, b}
    None = None
    Tanks <- SomeTanks
    Latch = 1
    Settle = 1
    Reread = 2
    MaxFaults = 1
    MaxReboots = 1
SYMMETRY EitherUnit
INVARIANTS SettledIsStopped WaterInv
PROPERTIES OnlyStopsAfterOff OffIsTaken StartRetry
