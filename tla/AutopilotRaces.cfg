\* One candidate, two hooks at once, an operator's move and one crash.
CONSTANTS
    Candidate = {c1}
    Older = {g1}
    Message = {m1, m2, m3}
    FirstMessage = m1
    Control <- FirstIsControl
    Hook = {h1, h2}
    Report <- WellOrHard
    Minimum = 1
    Horizon = 2
    HardVeto = 0
    Margin <- HalfMargin
    Look = 1
    MonitorHorizon = 1
    MonitorVeto = 0
    MonitorMargin <- NoMargin
    Changes = {}
    MaxPolicy = 1
    MaxManual = 1
    MaxCrash = 1
    NoVersion = NoVersion
    NoRow = NoRow
    NoSelection = NoSelection
    Idle = Idle
SPECIFICATION Spec
SYMMETRY Symmetry
INVARIANTS EvidenceCountedOnce MonitoredWasInstalled PromotionWasEarned KeptOrUndoneOnEvidence
PROPERTIES ImplementsGuidancePointer
CHECK_DEADLOCK FALSE
