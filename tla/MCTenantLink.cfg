CONSTANTS
    t1 = t1
    t2 = t2
    t3 = t3
    Tenants = {t1, t2, t3}
    Armable = {t1, t2}
    Threads = {http, swap}
    Http = http
    Nobody = Nobody
SPECIFICATION MCSpec
INVARIANTS
    GateFollowsFlag
    OneStrayBudget
    AskedIsRemembered
PROPERTIES
    ArmedIsFed
