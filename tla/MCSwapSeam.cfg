CONSTANTS
    Tenants = {t1, t2}
    NoTenant = NoTenant
    Files = {f}
SPECIFICATION Spec
INVARIANTS
    SeamIsFirstStep
