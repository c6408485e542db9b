CONSTANTS
    NumFrames = 3
    FrameSize <- MCFrameSize
    HdrLen = 2
    ChunkMax = 3
SPECIFICATION FairSpec
PROPERTY ReceiverStops
CHECK_DEADLOCK FALSE
