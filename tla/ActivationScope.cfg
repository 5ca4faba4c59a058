\* Two trials of one candidate profile, over three transitions.
CONSTANTS
    Profile = {null, better}
    NullProfile = {null}
    Trial = {t1, t2}
    Calibration = {c1}
    Automatic = {c1}
    SoftRollback = {c1}
    SignalSets <- PassOrStop
    MaxRevision = 3
    NoScope = NoScope
    NoTrial = NoTrial
    NoOccupant = NoOccupant
    NoCalibration = NoCalibration
SPECIFICATION Spec
SYMMETRY TrialSymmetry
INVARIANTS RunsUnderItsRevision EventsExplainSlots RollbackUndoesActivation ActivationWasEarned
PROPERTIES NothingIsDisplaced ImplementsExclusiveOperations
CHECK_DEADLOCK FALSE
