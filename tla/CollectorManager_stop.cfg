SPECIFICATION FairSpec
CONSTANTS
    Kinds <- ThreeKinds
    Main = main
    Poller = poller
    Api = {api1}
    MaxCmds = 1
    MaxFails = 1
    Batch = 1
INVARIANTS OneStopper
PROPERTIES StopCompletes StoppedLoopsEnd
CHECK_DEADLOCK FALSE
