CONSTANTS
    None = None
    h1 = h1
    h2 = h2
    s1 = s1
    s2 = s2
    reconfigure = reconfigure
    options_form = options_form
    Hosts = {h1, h2}
    Secrets <- MCSecrets
    Intervals = {30, 180}
    Flows <- MCFlows
    SelfReloading <- MCSelfReloading
    Entered <- MCEntered
    Created <- MCCreated
    Edits = 3
SPECIFICATION EntryFairSpec
INVARIANTS RunsOnWhatIsProved 
PROPERTIES EditsTakeEffect
CHECK_DEADLOCK FALSE
