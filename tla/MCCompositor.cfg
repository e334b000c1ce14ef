SPECIFICATION FairSpec
CONSTANTS
    Durations = {2, 4, 6}
    Scale = 144
    MaxGap = 2
    MaxBack = 2
    MaxLayers = 2
    MaxAdds = 2
INVARIANTS
    TypeOK
    ExpiredRemoved
    OpacityInRange
PROPERTIES
    FadeInEndsOpaque
    EffectsEnd
