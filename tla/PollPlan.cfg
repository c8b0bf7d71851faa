CONSTANTS
    N = 4
    Core = {1}
    Always = {1}
    FiveG = {3}
    e1 = e1
    e2 = e2
    f1 = f1
    f2 = f2
    Entities = {e1, e2}
    Spellings <- MCSpellings
    Behind <- MCBehind
    Firmwares = {f1, f2}
    None = None
    Gives <- MCGives
    FullEvery = 2
    Rotation = 2
    StrikeLimit = 1
    Requests = {"diagnostics download"}
    MaxMoves = 1
SPECIFICATION FairSpec
INVARIANTS AnsweredHere
PROPERTIES OwedUntilServed ValueFound
