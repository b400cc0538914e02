SPECIFICATION Spec
CONSTANTS
    None = None
    OffPage = OffPage
    Failed = Failed
    Unread = Unread
    Later = Later
    Sixes = Sixes
    Sevens = Sevens
    Outstanding = Outstanding
    Blank = Blank
    Garbage = Garbage
    k1 = k1
    k2 = k2
    lanAddress = lanAddress
    Surfaces = {"chatting", "reopening", "forgetting", "giving", "events", "fact", "confirming", "chips", "arranging", "rereading", "dragging", "unlocking", "securing", "painting", "applying", "following", "switching", "dialling", "connecting", "testing"}
INVARIANTS TypeOK FailureIsItsOwn CardIsTheServers CardsAreDrawnOnce SessionsHold SettingsAreStored
PROPERTIES QuestionIsCarried ScreenIsAsked FileIsKept LayoutIsAsDrawn
CHECK_DEADLOCK FALSE
