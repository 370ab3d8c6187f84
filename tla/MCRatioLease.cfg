CONSTANTS
    Tenants = {gpu0, gpu1}
    Callers = {http}
    Feeder = feeder
    Ratios = {4, 10}
    DefaultLease = 1
    Leases = {1}
    NotANumber = NaN
    Horizon = 1
    MaxClock = 2
SPECIFICATION FairSpec
INVARIANTS
    TypeOK
    NoInheritedLease
    OffContractIsAccountedFor
PROPERTIES
    FeederEndsOnlyExpired
    LoanComesHome
    KeepsPromise
