SPECIFICATION FairSpec
CONSTANTS
    MaxFiles = 2
    MaxReports = 0
INVARIANTS
    RelayedInOrder
PROPERTIES
    ChannelIsChild
    LineArrives
\* Both processes may end, or wait for what never comes.
CHECK_DEADLOCK FALSE
