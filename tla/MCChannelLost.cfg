SPECIFICATION FairSpec
CONSTANTS
    MaxFiles = 2
    MaxReports = 2
PROPERTY SignalIsHeard
\* A channel's process may end, or render without logging any more.
CHECK_DEADLOCK FALSE
