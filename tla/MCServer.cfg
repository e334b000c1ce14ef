SPECIFICATION FairSpec
CONSTANTS
    NumChannels = 2
    MaxChunks = 2
INVARIANTS
    TypeOK
    HostOutlivesProcess
    NoHandleLeak
PROPERTIES
    HandlesCloseOnce
    ForwardedOrCut
    StopsWithoutWork
    Supervised
\* The server's process ends when uv_run returns.
CHECK_DEADLOCK FALSE
