CONSTANTS
    Tenants = {t1, t2}
    Pool = 4
    Ratios = {1, 4}
    EvalTicks = 2
    Hold = 2
    Dwell = 3
    Workloads = {w1, w2, w3}
    Grid = 4
    Fine = 5
    Requests = {0, 1, 2, 4, 5, 7, 9, 13, 20, 21}
    Insisted = {0, 3}
    PairRequests = {0, 5, 7, 13, 20}
SPECIFICATION MCSpec
SYMMETRY Names
INVARIANTS
    TypeOK
    ExtrasFit
    LedgerTypeOK
    ContractsAreServed
    PairsFit
    EngineIsExact
PROPERTIES
    HungerIsEarned
    NoSwing
    TimeIsNotOversold
