SPECIFICATION Spec
CONSTANTS
    None = None
    Shut = Shut
    Creating = Creating
    Declined = Declined
    Absent = Absent
    Surfaces = {"viewing", "declaring", "correcting", "closing", "modelling"}
INVARIANTS AccountsHold
PROPERTIES AccountWritesKeep
CHECK_DEADLOCK FALSE
