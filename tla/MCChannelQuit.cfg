SPECIFICATION Spec
CONSTANTS
    MaxFiles = 2
    MaxReports = 2
INVARIANT StreamAlive
\* A channel's process may end, or render without logging any more.
CHECK_DEADLOCK FALSE
