CONSTANTS
    Tenants = {npu0, npu1}
    Nobody = Nobody
    Absent = Absent
    MaxLevel = 3
    SafeLevel = 1
    InterveneHold = 2
    ReleaseHold = 3
    MinDwell = 1
    SpaceDwell = 2
    SpaceAfter = 3
    PromoteAfter = 6
    SymDecide = 3
    LeaseS = 3
    MaxSleep = 2
    ExternalBase = FALSE
    LossyPosts = FALSE
SPECIFICATION Spec
INVARIANTS
    TypeOK
    SpaceBeforeRelocation
    RestIsOff
PROPERTIES
    NoSwing
