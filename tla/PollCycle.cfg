CONSTANTS
    extended = extended
    Provisioning = provisioning
    Optional <- MCOptional
    Limit = 1
    UnreachableLimit = 2
    MaxMoves = 2
SPECIFICATION FairSpec
INVARIANTS LossIsShown
PROPERTIES ValuesKept KeepsPromise 
