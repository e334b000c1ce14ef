SPECIFICATION FairSpec
CONSTANTS
    MaxFiles = 2
    MaxReports = 1
INVARIANTS
    TypeOK
    WritersUnraced
    NothingLostOrReordered
    QueuedRequestsLive
    StreamAliveUntilClosed
PROPERTIES
    WaiterWakes
    QueuedIsWritten
\* A channel's process may end, or render without logging any more.
CHECK_DEADLOCK FALSE
