SPECIFICATION Spec
CONSTANTS
    None = None
    Shut = Shut
    Creating = Creating
    Empty = Empty
    Unpriced = Unpriced
    n1 = n1
    g1 = g1
    MaxFlights = 2
    Surfaces = {"importing"}
INVARIANT ForecastIsOfHeld
CHECK_DEADLOCK FALSE
