SPECIFICATION ClientSpec
CONSTANTS
    None = None
    Nil = Nil
    Routers <- MCRouters
    MAX_LOGIN_COUNT = 3
    MaxOther = 1
    MaxLost = 1
    MaxClash = 1
    Firmwares = {1, 2, 3}
    Web <- MCWeb
    MaxOutages = 1
    MaxUpdates = 1
    MaxDrops = 1
    MaxRestarts = 1
 
PROPERTIES FirstFormIsSafe FailuresAreTold LogsInAgain FactsAreKept ProfileIsLearned
CHECK_DEADLOCK FALSE
