SPECIFICATION Spec
CONSTANTS
    Names = {n1, n2}
    NoName = NoName
    Default = default
    Sizes = {s1, s2}
    DefaultSize = s1
    MaxBlocks = 2
    MaxEdits = 0
    MaxFaults = 0
INVARIANT CorrespondingBlock
\* Every process ends its set-up.
CHECK_DEADLOCK FALSE
