CONSTANTS
    Tenants = {t1, t2}
    NoTenant = NoTenant
    Files = {f}
SPECIFICATION FairSpec
INVARIANTS
    MakeBeforeBreak
    PrimeIsBooked
    GateIsTakenOff
PROPERTIES
    SwapEnds
