SPECIFICATION Spec
CONSTANTS
    Calls = {0}
    IDBits = {0}
    ConfirmWindow = 2
    ConfirmCount = 2
    MidJoinDelay = 2
    KHCloseDelay = 2
    Keep = 4
    Stations = {1, 2}
    AirSlots <- MCStartSlots
    Ring = 1
    Win = 1
    MinSlots = 2
    SeedWindow = 3
    VoiceCap = 8
    CfgSeed = 0
    Pins = {}
    MaxRequests = 0
    SlotsPerChunk = 2
    AcquireSlots = 2
    ResetAfter = 2
    AbandonAfter = 3
    LongestBroadcast = 6
    MaxPos = 12
INVARIANT
    NewBroadcastKept
CHECK_DEADLOCK FALSE
