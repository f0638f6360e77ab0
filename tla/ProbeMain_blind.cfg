SPECIFICATION Spec
CONSTANTS
    Lens = {3, 5}
    Boxes <- MCBoxes
    MetricLen = 0
    EnvPorts = {0, 9105, 70000}
    OutSize = 12
    SendRoom = 9
    MaxEvents = 2
    RoundLimit = 3
    MaxShown = 1
    Quarter = 2
    Period = 2
    Limit = 4
INVARIANT NeverBlind
CHECK_DEADLOCK FALSE
