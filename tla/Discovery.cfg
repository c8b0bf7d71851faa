CONSTANTS
    Core = {"s", "t", "f"}
    Extended = {"e", "g"}
    Sentinels = {"s", "t"}
    Contract = {"s", "t"}
    ConstantFree = {"f"}
    Names = {"h", "q", "r", "p"}
    Declining = {"q"}
    Devices <- MCDevices
    ChunkSize = 2
    CanaryCount = 1
    FallbackEvery = 1
    ReloginLimit = 1
    MaxRounds = 2
    MaxTaken = 2
SPECIFICATION FairSpec
  
PROPERTIES Ends
CHECK_DEADLOCK FALSE
