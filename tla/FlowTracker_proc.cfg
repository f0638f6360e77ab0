SPECIFICATION Spec
CONSTANTS
    p1 = p1
    p2 = p2
    p3 = p3
    q1 = q1
    ZeroKey = zero
    ProcKeys <- ThreeProc
    PacketKeys <- NoKeys
    Segments <- NoSegments
    MaxFlows = 2
    MaxQueue = 1
    MaxBatch = 2
    MaxAge = 1
    SeqMod = 4
    AckSlots = 2
INVARIANTS TypeOK NoDuplicateFlow BytesBounded
PROPERTY LiveFlowKept
