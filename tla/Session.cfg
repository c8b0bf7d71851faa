CONSTANTS
    Writers = {w1, w2}
    Retried = {w1}
    Guarded = {w2}
    Poll = poll
    Unloads = {}
    NoTask = NoTask
    Implements = TRUE
    MaxLogins = 2
SPECIFICATION Spec
INVARIANTS LatestLogin CarriedOnce
