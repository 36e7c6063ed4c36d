\* Two windows, batches of two bursts, a ring of one; Stop at any moment.
SPECIFICATION FairSpec
CONSTANTS
    Seeds = {5}
    AudioCap = 1
    IqCap = 2
    BatchLen = 2
    RingLen = 1
    TailLen = 1
    RecordMax = 3
    FlushLen = 1
    MaxChunks = 2
    MaxWindows = 2
    MaxBursts = 2
\* A program that is stuck is what StopEnds excludes.
CHECK_DEADLOCK FALSE
INVARIANTS
    VoiceReachesFile
    SidecarComplete
    
PROPERTIES
    StopEnds
