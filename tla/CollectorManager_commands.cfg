SPECIFICATION FairSpec
CONSTANTS
    Kinds <- OneKind
    Main = main
    Poller = poller
    Api = {}
    MaxCmds = 2
    MaxFails = 0
    Batch = 2
PROPERTIES CommandsRun
CHECK_DEADLOCK FALSE
