CONSTANTS
    Start = 200
    Boots = {0, 190}
    Gaps = {3, 200}
    RebootMargin = 1
    MinInterval = 2
    MinAccumulated = 120
    MarginFloor = 10
    WriteInterval = 40
    SaveDelay = 2
    MaxTicks = 3
    MaxEvents = 2
SPECIFICATION UptimeSpec
INVARIANTS InstantKept 
PROPERTIES NeverBack
CHECK_DEADLOCK FALSE
