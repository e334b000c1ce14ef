SPECIFICATION FairSpec
CONSTANTS
    Nodes = {n1, n2}
    n1 = n1
    n2 = n2
    Texts <- MCTexts
    Randoms <- MCRandoms
    Foreign <- MCForeign
INVARIANTS
    TypeOK
    HeardWasSent
    PrintsBack
    MadeIdsAreVersion4
PROPERTIES
    RequestReleased
\* Nothing is left to do once all nodes are open and the air is silent.
CHECK_DEADLOCK FALSE
