SPECIFICATION FairSpec
CONSTANTS
    p1 = p1
    p2 = p2
    p3 = p3
    q1 = q1
    ZeroKey = zero
    ProcKeys <- OneProc
    PacketKeys <- OnePacket
    Segments <- AllSegments
    MaxFlows = 1
    MaxQueue = 1
    MaxBatch = 1
    MaxAge = 1
    SeqMod = 4
    AckSlots = 2
INVARIANTS ExpectedSeen MisjudgedOnlyOnReuse
PROPERTY IdleFlowReclaimed
