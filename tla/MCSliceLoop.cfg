CONSTANTS
    Tenants = {npu0}
    Contracts = {10, 20}
    Lo = 5
    One = 10
    Hi = 15
    UpHold = 2
    DownHold = 3
    LeaseS = 3
    MaxSleep = 2
    MinShare = 10
    MaxShare = 20
SPECIFICATION FairSpec
INVARIANTS
    HeldIsApplied
PROPERTIES
    Pace
    ShortIsRaised
