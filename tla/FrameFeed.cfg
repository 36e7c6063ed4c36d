SPECIFICATION FairSpec
CONSTANTS
    Frame = 4
    BlockSec = 16
    AcquireSec = 8
    OverlapSec = 8
    NFrames = 7
    Control = {1, 5}
    Phases = {0, 1}
    Starts = {2}
    Chunks = {6, 16}
    End = 30
    MaxFaults = 2
    MaxPins = 1
    Period = 4
    MaxGap = 2
    Times <- MCTimes
    Voices <- MCVoices
CHECK_DEADLOCK FALSE
INVARIANTS
    FramesInv
    FramesAccounted
    TimeKept
PROPERTIES
    FeedsEnd
