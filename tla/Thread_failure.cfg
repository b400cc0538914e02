SPECIFICATION Spec
CONSTANTS
    None = None
    OffPage = OffPage
    Failed = Failed
    Unread = Unread
    Later = Later
    Sixes = Sixes
    Sevens = Sevens
    Outstanding = Outstanding
    Blank = Blank
    Garbage = Garbage
    k1 = k1
    k2 = k2
    lanAddress = lanAddress
    Surfaces = {"giving"}
INVARIANT FailureIsOfItsThread
CHECK_DEADLOCK FALSE
