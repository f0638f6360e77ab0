SPECIFICATION Spec
CONSTANTS
    Frames <- MCFrames
    Shapes <- MCShapes
    NameMax = 3
    MaxPackets = 4
    MaxTime = 3
    MaxSources = 2
    MaxPorts = 3
    MaxBw = 2
    ScanPorts = 2
    SpikeRate = 100
    BitsScale = 1
    Word = 128
INVARIANTS TypeOK  ParsersAgree   BandwidthAccounted
CHECK_DEADLOCK FALSE
