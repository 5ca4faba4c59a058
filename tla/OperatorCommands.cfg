CONSTANTS
    Process = {p1, p2}
    Families <- AllFamilies
    Trial = {t1}
    Work = {w1}
    Evidence = {e1}
    Calibration = {c1}
    Annotations <- SomeAnnotations
    MaxEffects = 3
    Expiry = {1}
    MaxClock = 1
    MaxNonce = 1
    MaxRevocations = 1
    None = None
SPECIFICATION CommandSpec
SYMMETRY Symmetry
INVARIANTS OneEffectPerGrant ReductionIsTotal SlotsFollowCommands
CHECK_DEADLOCK FALSE
