CONSTANTS
    BackoffMin = 1
    BackoffMax = 1
    Cooldown = 1
    StableTime = 1
    ConnectTimeout = 1
    EncTimeout = 1
    ArmDelay = 2
    RestPolls = {1}
    ViewerTime = 0
    InputTime = 0
    Units = {u1}
    NoUnit = NoUnit
    u1 = u1
    Modes = {"hold", "quiet", "off"}
    Holds = TRUE
    Resyncs = FALSE
    Order <- MCOrder2
    Values <- MCValues
SPECIFICATION Spec
INVARIANTS
    SessionInv
    LinkInOrder
