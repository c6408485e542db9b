\* Five puts through a window of two: the Driver blocks on the tx slot wait,
\* batches of one and of several handles occur, the store completes out of
\* order. Under the fairness of the threads and of a working store the
\* session also always reaches the statistics.
CONSTANTS
    NumMessages = 5
    MaxPendingOps = 2
SPECIFICATION FairSpec
INVARIANTS
    TypeOK
    PermitBounds
    StoreWindow
    LedgerPairs
    LedgerCompleteAtStats
    LatencyWithinTimespan
PROPERTIES
    StampsWrittenOnce
    WindowRefinement
    Termination
