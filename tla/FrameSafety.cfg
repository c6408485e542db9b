CONSTANTS
    NumFrames = 3
    FrameSize <- MCFrameSize
    HdrLen = 2
    ChunkMax = 3
SPECIFICATION FairSpec
INVARIANTS TypeOK StreamAligned
PROPERTY FramesDelivered
