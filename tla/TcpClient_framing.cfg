SPECIFICATION Spec
CONSTANTS
    InitialDelay = 1
    MaxDelay = 2
    MaxRetries = 2
    ReqUnits = 2
    MaxUnread = 1
    Fds = {3}
INVARIANT RequestsWhole
