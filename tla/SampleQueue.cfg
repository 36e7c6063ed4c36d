\* A queue of two, six chunks, either source and either program.  The program
\* may stop.
SPECIFICATION FairSpec
CONSTANTS
    Cap = 2
    MaxChunks = 6
CHECK_DEADLOCK FALSE
INVARIANTS
    LossIsShown
PROPERTIES
    FifoSpec
    StopEnds
