\* Two commands by two owners, two failures (crashes or power losses), one deletion; another
\* run may cut over first.
CONSTANTS
    r1 = r1
    r2 = r2
    r3 = r3
    r4 = r4
    r5 = r5
    r6 = r6
    Row = {r1, r2, r3, r4, r5, r6}
    Content <- Contents
    Process = {p1, p2}
    Owner = {o1, o2}
    Session = {s1}
    Challenge = {c1}
    Deleter = {d1}
    MaxClock = 1
    Kind = {"export"}
    MaxCommands = 2
    MaxCrashes = 2
    MaxRevision = 1
    None = None
SPECIFICATION Spec
SYMMETRY Symmetry
INVARIANTS CheckpointsAreTrue SelectedIsVerified DeletedKeyStaysDeleted
PROPERTIES AuthorityMovesForward
CHECK_DEADLOCK FALSE
