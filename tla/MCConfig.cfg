SPECIFICATION Spec
CONSTANTS
    Names = {n1, n2}
    NoName = NoName
    Default = default
    Sizes = {s1, s2}
    DefaultSize = s1
    MaxBlocks = 2
    MaxEdits = 1
    MaxFaults = 1
INVARIANTS
    TypeOK
    OwnBlock
    ChannelsConfigured
    GeneratedIsUsable
    NamedBlock
    PartialIsTransient
\* Every process ends its set-up.
CHECK_DEADLOCK FALSE
