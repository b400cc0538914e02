SPECIFICATION MCFairSpec
CONSTANTS
    Symbols = {s1, s2}
    Writers = {w1}
    Nobody = Nobody
    FirstDay = 1
    MaxDay = 2
    MaxWrites = 2
    MaxFailures = 1
INVARIANTS
    TypeOK
    SkipIsExact
    CacheIsExact
    WriteIsServed
PROPERTY
    EventuallyExact
