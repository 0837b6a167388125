CONSTANTS
    Units = {u1, u2}
    None = None
    Resets = FALSE
    MaxAttempts = 2
    Patience = 1
    QueueLength = 8
SPECIFICATION PairFairSpec
INVARIANTS
    FlowIsClean
PROPERTIES
    FlowEnds
