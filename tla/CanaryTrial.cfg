\* Two trials over three exposure units, a window of all of them.
CONSTANTS
    u1 = u1
    u2 = u2
    u3 = u3
    Unit = {u1, u2, u3}
    Trial = {t1, t2}
    ArmOf <- Arms
    Key = {k1}
    Fact <- Facts
    Horizon = 3
    MinComparable = 1
    HardLimit = 0
    Benefit <- Half
    Expiry = 1
    MaxClock = 1
    MaxRevision = 1
    MaxRestarts = 1
    MaxDisabled = 1
    MaxOpen = 1
    None = None
SPECIFICATION Spec
SYMMETRY Symmetry
INVARIANTS ExposureIsOfItsArm PassedOnEvidence
PROPERTIES ExposuresEndWithTheTrial
CHECK_DEADLOCK FALSE
