SPECIFICATION FairSpec
CONSTANTS
    Commands = {"data", "reboot"}
    Checks = {c1, c2}
    MaxWindows = 1
    MaxStrikes = 1
    Cap <- MCCap
    Hold = 1
    ProbeFast = 1
    CheckInterval = 1
    FollowupDelay = 1
INVARIANTS WindowWatched ClosedOnEvidence
PROPERTIES ClosingPollCountsNothing WindowCloses FollowupFetches UnloadQuiesces
