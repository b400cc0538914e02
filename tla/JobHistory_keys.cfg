SPECIFICATION FairSpec
CONSTANTS
    Symbols = {s1}
    Jobs = {j1}
    Armings = {}
    NoArming = NoArming
    SLOTS = 2
    RECENT = 1
    MaxHour = 1
    MaxPasses = 2
INVARIANTS
    TypeOK
    PassesKept
PROPERTY
    EventuallyStored
