SPECIFICATION Spec
CHECK_DEADLOCK FALSE
CONSTANTS
    Seeds = {0, 1, 2}
    Top = 2
    MinSlots = 2
    ScoreCACs = 2
    PerFeed = 1
    Window = 3
    MinScore = 6
    WeightCap = 4
    MaxNoise = 2
    MaxChanges = 1
    FeedSlots = 2
    Rings = 3
    SlotLen = 4
    Jitter = {0, 1}
    GapFill = 3
    ActiveSlots = 5
    SettleFrames = 1
    MinSightings = 2
    LastSlot = 8
    SoundFill = 2
    BatchFrames = 3
    MaxRepeat = 2
    MaxEntries = 7
INVARIANTS
    VotesAgree
    SoundInTime
    SeedIsHeard
    DamageCorrected
    SlotsTrusted
    FramesLaidOut
    WordFound
    MessagesRead
PROPERTIES
    SearchEnds
