CONSTANTS
    Writers = {w1}
    Retried = {w1}
    Guarded = {}
    Poll = poll
    Unloads = {unload}
    NoTask = NoTask
    Implements = FALSE
    MaxLogins = 1
SPECIFICATION FairSpec
PROPERTIES CallsReturn
