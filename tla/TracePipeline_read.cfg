SPECIFICATION Spec
CONSTANTS
    Threads = {"t1", "t2"}
    Pids = {"t1", "t2"}
    Wakeups = {1, 2, 3}
    MapEntries = 1
    Ports = {53, 80, 3306, 6379}
    RingSlots = 2
    MaxCalls = 3
    MaxPoints = 3
    TopN = 1
INVARIANTS TypeOK  StartsAccounted NoResidue PortsExact WakeupOnce WakeupLossWindow
PROPERTIES WakeupSettled
CHECK_DEADLOCK FALSE
