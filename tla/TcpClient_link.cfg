SPECIFICATION FairSpec
CONSTANTS
    InitialDelay = 1
    MaxDelay = 5
    MaxRetries = 4
    ReqUnits = 2
    MaxUnread = 1
    Fds = {3, 4}
INVARIANTS FdOwned AttemptSpacing
PROPERTIES DeadLinkNoticed ReconnectsOrGivesUp
