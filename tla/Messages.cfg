CONSTANTS
    Received = {1, 2}
    Numbers = 2
    SentId <- MCSentId
    PageSent = {}
    PageDraft = {5}
    Date <- MCDate
    Keeps = {1}
    Passes = 1
    MaxMoves = 2
SPECIFICATION Spec
INVARIANTS ReportsOwed DeletesKeep SendsAreTold
