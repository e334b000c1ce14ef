SPECIFICATION FairSpec
CONSTANTS
    Platforms = {"x11", "raspi", "win32"}
    MaxFiles = 3
    Second = 2
    MaxGap = 2
    Wrap = 10
INVARIANTS
    TypeOK
    ObjectsReleased
PROPERTIES
    ClosedWindowEnds
    FadeInComes
\* Channel::run returns, or the process crashes.
CHECK_DEADLOCK FALSE
