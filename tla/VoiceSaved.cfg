SPECIFICATION Spec
CONSTANTS
    Calls = {0, 1}
    MidJoinFrames = 2
    SilenceClose = 1
    LongestBroadcast = 3
    BatchSFs = 2
    SFsPerFrame = 1
    ChunkFrames = 2
    Overlap = 1
    Lag = 1
    MaxTime = 6
    RingMax = 6
    TailLen = 1
    RecordMax = 5
INVARIANTS
    EveryBroadcastSaved
CHECK_DEADLOCK FALSE
