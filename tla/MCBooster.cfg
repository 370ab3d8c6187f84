CONSTANTS
    Names = {npu0}
    Watchers = {w1, w2}
    Nobody = Nobody
    MaxPods = 2
    MaxPending = 1
    MaxLate = 1
SPECIFICATION MCSpec
INVARIANTS
    TypeOK
PROPERTIES
    SparedUntilSeenAndDead
    ReclaimIsWhole
    DeadIsReclaimed
