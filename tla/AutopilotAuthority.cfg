\* One candidate and hook, authority and the switch that change, a crash and fair calls.
CONSTANTS
    Candidate = {c1}
    Older = {}
    Message = {m1, m2, m3}
    FirstMessage = m1
    Control <- FirstIsControl
    Hook = {h1}
    Report <- WellOrBadly
    Minimum = 1
    Horizon = 2
    HardVeto = 0
    Margin <- NoMargin
    Look = 1
    MonitorHorizon = 1
    MonitorVeto = 0
    MonitorMargin <- NoMargin
    Changes = {"provision", "switch", "withdraw", "scope", "expiry"}
    MaxPolicy = 2
    MaxManual = 0
    MaxCrash = 1
    NoVersion = NoVersion
    NoRow = NoRow
    NoSelection = NoSelection
    Idle = Idle
SPECIFICATION FairSpec
PROPERTIES AutomationMovesUnderAuthority InterruptedMovesResolve
CHECK_DEADLOCK FALSE
