SPECIFICATION Spec
CONSTANTS
    Calls = {1}
    MidJoinFrames = 2
    SilenceClose = 1
    LongestBroadcast = 3
    BatchSFs = 2
    SFsPerFrame = 0
    ChunkFrames = 2
    Overlap = 1
    Lag = 1
    MaxTime = 8
    RingMax = 6
    TailLen = 1
    RecordMax = 5
INVARIANTS
    EveryBroadcastRecorded
CHECK_DEADLOCK FALSE
