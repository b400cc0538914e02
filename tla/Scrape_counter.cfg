SPECIFICATION Spec
CONSTANTS
    Symbols = {s1}
    Writers = {w1}
    DialTurns = TRUE
    Faults = {}
    Armings = {"none", "due", "ahead"}
    MaxFailures = 1
    MaxWrites = 1
    MaxRestarts = 0
INVARIANT
    FailureStateGone
