--------------------------- MODULE MCFlowTracker ---------------------------
(* Small instances of FlowTracker for TLC.                                 *)
EXTENDS FlowTracker

CONSTANTS p1, p2, p3, q1

Data(q, n) == [syn |-> FALSE, ack |-> TRUE, seq |-> q, len |-> n]
Syn(q)     == [syn |-> TRUE, ack |-> FALSE, seq |-> q, len |-> 0]
PureAckOf(q) == [syn |-> FALSE, ack |-> TRUE, seq |-> q, len |-> 0]
Rst        == [syn |-> FALSE, ack |-> FALSE, seq |-> 1, len |-> 0]

NoKeys    == {}
ThreeProc == {p1, p2, p3}
OneProc   == {p1}
OnePacket == {q1}

NoSegments  == {}
\* every kind of segment, with sequence numbers up to the wrap at 4
AllSegments == {Syn(0), Syn(3), Rst, PureAckOf(2)}
                 \cup {Data(q, n) : q \in 1 .. 3, n \in 1 .. 2}
=============================================================================
