CONSTANTS
    Tenants = {npu0}
    Nobody = Nobody
    Absent = Absent
    MaxLevel = 2
    SafeLevel = 1
    InterveneHold = 2
    ReleaseHold = 3
    MinDwell = 1
    SpaceDwell = 2
    SpaceAfter = 2
    PromoteAfter = 4
    SymDecide = 3
    LeaseS = 3
    MaxSleep = 2
    ExternalBase = FALSE
    LossyPosts = TRUE
SPECIFICATION FairSpec
PROPERTIES
    DeadLoopLetsGo
    CalmIsReleased
