\* num_messages = -1 passes main()'s int() parse unchecked: poll_results
\* waits for a put that never comes and main() hangs in the join. The hang is
\* the violation sought, so deadlock is reported through SessionEnds.
CONSTANTS
    NumMessages <- MCNegativeMessages
    MaxPendingOps = 2
SPECIFICATION FairSpec
PROPERTIES
    SessionEnds
CHECK_DEADLOCK FALSE
