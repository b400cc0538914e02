SPECIFICATION Spec
CONSTANTS
    Symbols = {s1}
    Writers = {w1}
    DialTurns = TRUE
    Faults = {"read", "arm"}
    Armings = {"none", "ahead", "paused"}
    MaxFailures = 1
    MaxWrites = 2
    MaxRestarts = 1
INVARIANTS
    TypeOK
    PausedStaysOut
    RotationKept
    SoldLeavesNoTrack
CONSTRAINT
    LastWriteAlone
