CONSTANTS
    Ids = {a, b, c}
    NoId = NoId
    MaxTenants = 2
    Shares = {1}
    Physical = 1
    Threshold = 2
    Absent = Absent
    HalfWord = 2
SPECIFICATION Spec
SYMMETRY Names
INVARIANTS
    TypeOK
    OneSlotPerTenant
    CountIsLastSlot
PROPERTIES
    SlotsAreNotTaken
