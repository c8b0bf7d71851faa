CONSTANTS
    Slots = {1, 2}
    Stored <- MCStored
    Apns = {"a", "b"}
    None = None
    Network = "a"
    Intervals = {30, 60}
    DefaultInterval = 60
    MaxMoves = 2
SPECIFICATION FairSettingsSpec
INVARIANTS RefusalsStand
PROPERTIES FieldsKept Settles
CHECK_DEADLOCK FALSE
