SPECIFICATION Spec
CONSTANTS
    Calls = {1}
    MidJoinFrames = 3
    SilenceClose = 1
    LongestBroadcast = 3
    BatchSFs = 2
    SFsPerFrame = 1
    ChunkFrames = 2
    Overlap = 1
    Lag = 1
    MaxTime = 8
    RingMax = 7
    TailLen = 1
    RecordMax = 5
CHECK_DEADLOCK FALSE
INVARIANTS
    BroadcastsInOrder
    VoiceKept
    RecorderInv
