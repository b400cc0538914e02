SPECIFICATION Spec
CONSTANTS
    Symbols = {s1}
    Jobs = {}
    Armings = {a1, a2}
    NoArming = NoArming
    SLOTS = 2
    RECENT = 2
    MaxHour = 2
    MaxPasses = 3
SYMMETRY ArmingsAlike
INVARIANTS
    SlotsRecoverable
    ArmingRecoverable
    ForgottenStaysForgotten
PROPERTY
    KeepsPromise
