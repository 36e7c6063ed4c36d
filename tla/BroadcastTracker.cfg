SPECIFICATION Spec
CONSTANTS
    Calls = {0, 1}
    IDBits = {0}
    ConfirmWindow = 2
    ConfirmCount = 2
    MidJoinDelay = 2
    KHCloseDelay = 2
    Keep = 2
    Messages <- MCMessages
    Gaps = {1, 2}
    MaxPos = 5
INVARIANTS
    TrackerWellFormed
    WindowsDisjoint
    TimersExpire
PROPERTIES
    StrictNeedsCRC
    HistoryIsFrozen
