CONSTANTS
    Units = {u1, u2}
    None = None
    Peers = {u1, u2}
    NoPeer = NoPeer
    Ids = {a, b, c}
    OpQ = 2
    MaxGen = 4
    Resets = TRUE
    Images = {"v1", "v2", "bad"}
    Healthy = {"v1", "v2"}
    Channels = {"stable", "latest"}
    Releases <- TwoReleases
    First = "v1"
    Stable = "stable"
    Torn = "torn"
SPECIFICATION NimbleSpec
INVARIANTS
    GattInv
    RadioKnown
    OtaInv
PROPERTIES
    NoRequestOnDying
    OpEnds
    ContractSpec
    WorkingBondKept
    DeferredEnds
    UpdateEnds
