SPECIFICATION FairSpec
CONSTANTS
    Symbols = {s1}
    Writers = {w1}
    DialTurns = TRUE
    Faults = {"replay", "arm"}
    Armings = {"none", "due", "ahead", "paused"}
    MaxFailures = 0
    MaxWrites = 1
    MaxRestarts = 0
PROPERTIES
    HeldIsScraped
    DepartedLeaves
