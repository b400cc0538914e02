SPECIFICATION Spec
CONSTANTS
    None = None
    Shut = Shut
    Creating = Creating
    Empty = Empty
    Unpriced = Unpriced
    n1 = n1
    g1 = g1
    MaxFlights = 1
    Surfaces = {"reducing", "bounding", "removing", "composing", "pricing", "naming", "charging", "importing", "dropping", "repeating", "proposing", "leaving", "reading", "inspecting"}
INVARIANTS TypeOK PageIsAsAsked ButtonIsJudged ScreenIsSent
    FiguresAgree SelectionIsOfTheSheet
PROPERTIES RemovalIsOfTheSeen SentIsAsSaid TypedPriceIsKept EveryImportSays
CHECK_DEADLOCK FALSE
