SPECIFICATION DecoderSpec
CONSTANTS
    Calls = {0}
    IDBits = {0}
    ConfirmWindow = 2
    ConfirmCount = 2
    MidJoinDelay = 2
    KHCloseDelay = 2
    Keep = 4
    Stations = {1}
    AirSlots <- MCAirSlots
    Ring = 1
    Win = 1
    MinSlots = 2
    SeedWindow = 3
    VoiceCap = 1
    MaxPos = 6
CHECK_DEADLOCK FALSE
INVARIANTS
    EndedComplete
    VoiceInItsWindow
    StartsAccounted
PROPERTIES
    VoiceConserved
