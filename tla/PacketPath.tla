----------------------------- MODULE PacketPath -----------------------------
(***************************************************************************)
(* What main does with one frame from the packet socket: it is parsed,     *)
(* classified, searched for DNS and HTTP, counted in the flow tracker,     *)
(* parsed again for its sequence number, and given to the anomaly          *)
(* detector.  The tracker's records are FlowTracker's; here it is the      *)
(* event it makes.                                                         *)
(***************************************************************************)
EXTENDS PacketParser, Anomaly

CONSTANTS
    Frames,     \* the frames that can arrive at any time
    Shapes,     \* more frames, of which one may come first: the parsers keep
                \* no state, so one of each shows all they can do
    NameMax,    \* 255, the characters of a DNS name that are kept
    MaxPackets, \* bound on the frames
    MaxTime     \* bound on the clock

\* What fits the receive buffer, and a 16-bit port.
FrameLen == 1 .. 2048
Port == 0 .. 65535

ASSUME PacketPathAssumption ==
    /\ NameMax \in Nat /\ MaxPackets \in Nat /\ MaxTime \in Nat \ {0}
    /\ Frames # {}
    /\ \A f \in Frames \cup Shapes :
          /\ f.len \in FrameLen /\ f.sport \in Port /\ f.dport \in Port
          /\ f.ihl \in 0 .. 15 /\ f.doff \in 0 .. 15 /\ f.vlan \in BOOLEAN
          /\ f.bytes \in Seq(0 .. 255)

VARIABLES
    now, packets,
    last,    \* the frame handled last and what was made of it
    hits,    \* history: source -> the ports above 0 it went to
    carried  \* history: flow -> bytes of its packets that raised no alarm

vars == <<detector, now, packets, last, hits, carried>>

Nothing ==
    [frame |-> CHOOSE f \in Frames : TRUE, pkt |-> Unparsed(0),
     seq |-> [ok |-> FALSE, at |-> 0, payload_len |-> 0],
     dns |-> NoDns, flow |-> Kind("none", "none", "none"),
     event |-> Kind("none", "none", "none"), verdict |-> "none",
     tracked |-> FALSE]

Init ==
    /\ anomaly_detector_create
    /\ now = 1 /\ packets = 0 /\ last = Nothing
    /\ hits = <<>> /\ carried = <<>>

\* The DNS and HTTP searches of main.
Dns(f, pkt) ==
    LET at == DnsOffset(f, pkt) IN
    IF at = 0 THEN NoDns
    ELSE parse_dns_payload(f.bytes, f.len - at, pkt.src_port = PORT_DNS,
                           f.questions, NameMax)

Http(f, pkt) ==
    LET at == HttpOffset(f, pkt) IN
    IF at = 0 THEN "none"
    ELSE parse_http_payload(f.len - at, pkt.src_port = PORT_HTTP, f.status)

\* The flow event main fills in for itself.
Enriched(f, pkt) ==
    LET flow == packet_to_flow_event(pkt) IN
    IF Dns(f, pkt).kind # "none" THEN [flow EXCEPT !.details = Dns(f, pkt).kind]
    ELSE IF Http(f, pkt) # "none"
    THEN [flow EXCEPT !.details = Http(f, pkt), !.service = "HTTP"]
    ELSE flow

\* The event flow_tracker_update_single makes of the same packet.
flow_tracker_update_single(pkt) ==
    Kind("network", "flow", IF IS_MULTICAST(pkt.dst_ip) THEN "IPTV" ELSE "none")

Key(f, pkt) == <<f.src, f.dst, pkt.src_port, pkt.dst_port>>

\* A frame packet_parse_raw does not understand is passed over.
Unknown(f) ==
    /\ packets < MaxPackets /\ ~packet_parse_raw(f).ok
    /\ packets' = packets + 1
    /\ last' = [Nothing EXCEPT !.frame = f, !.pkt = packet_parse_raw(f)]
    /\ UNCHANGED <<detector, now, hits, carried>>

Packet(f) ==
    /\ packets < MaxPackets
    /\ \E pkt \in {packet_parse_raw(f)}, ts \in now .. MaxTime,
          verdict \in {"none", "scan", "spike", "drop"} :
          /\ pkt.ok
          /\ now' = ts
          /\ anomaly_check_flow([src |-> f.src, dst |-> f.dst,
                sport |-> pkt.src_port, dport |-> pkt.dst_port,
                flags |-> pkt.tcp_flags, bytes |-> f.len], ts, verdict)
          /\ last' = [frame |-> f, pkt |-> pkt,
                      seq |-> extract_tcp_seq_num(f, pkt), dns |-> Dns(f, pkt),
                      flow |-> Enriched(f, pkt),
                      event |-> flow_tracker_update_single(pkt),
                      verdict |-> verdict, tracked |-> f.src \in DOMAIN sources']
          /\ hits' = Insert(hits, f.src,
                (IF f.src \in DOMAIN hits THEN hits[f.src] ELSE {})
                   \cup ({pkt.dst_port} \ {0}))
          /\ carried' =
                IF verdict \in {"scan", "spike"} THEN carried
                ELSE Insert(carried, Key(f, pkt), f.len +
                        (IF Key(f, pkt) \in DOMAIN carried
                         THEN carried[Key(f, pkt)] ELSE 0))
    /\ packets' = packets + 1

Next ==
    \E f \in Frames \cup (IF packets = 0 THEN Shapes ELSE {}) :
       Unknown(f) \/ Packet(f)

Spec == Init /\ [][Next]_vars

-----------------------------------------------------------------------------

(* The detector's tables keep to their sizes and its counters to the       *)
(* packets; times are times that were read.                                *)
TypeOK ==
    /\ Cardinality(DOMAIN sources) <= MaxSources
    /\ \A s \in DOMAIN sources : Cardinality(sources[s]) <= MaxPorts
    /\ Cardinality(DOMAIN bw_records) <= MaxBw
    /\ \A k \in DOMAIN bw_records : bw_records[k].time \in 0 .. now
    /\ now \in 1 .. MaxTime /\ packets \in 0 .. MaxPackets
    /\ counts.spike + counts.scan + counts.drop \in 0 .. packets
    /\ last.frame \in Frames \cup Shapes

(* No parser looks behind the end of the frame, with or without a VLAN     *)
(* tag, whatever ihl says and wherever the frame was cut.                  *)
ReadsInside == last.pkt.reads <= last.frame.len

(* The two parsers that look for the TCP header, packet_parse_raw for the  *)
(* ports and extract_tcp_seq_num for the sequence number, look at the same *)
(* place, and the second one never fails when the first one did not.       *)
ParsersAgree ==
    last.pkt.ok /\ last.pkt.protocol = "tcp" =>
       /\ last.seq.ok /\ last.seq.at = last.pkt.at
       /\ last.seq.payload_len <= last.frame.len - last.seq.at

(* A query whose name is complete is reported with the length of its name, *)
(* cut at 255 characters, and with the type that stands behind the name;   *)
(* no query with more characters than have arrived.                        *)
DnsNameExact ==
    /\ last.dns.name > 0 => last.dns.name < Len(last.frame.bytes)
    /\ \A labels \in {<<1>>, <<2>>, <<1, 1>>, <<1, 2>>} :
          LET name == Encoded(labels)
              size == Len(name) - 2
          IN  /\ last.dns.kind = "dns_query"
              /\ Len(last.frame.bytes) >= Len(name)
              /\ SubSeq(last.frame.bytes, 1, Len(name)) = name
              => /\ last.dns.name = (IF size < NameMax THEN size ELSE NameMax)
                 /\ last.dns.typed = IF Len(last.frame.bytes) >= Len(name) + 2
                                     THEN Len(name) + 1 ELSE 0

(* A scan is only reported for a source that went to as many ports as the  *)
(* threshold asks for, and every source in the table that did is reported  *)
(* on the packet that takes it there.                                      *)
ScanExact ==
    /\ last.verdict = "scan" =>
          Cardinality(hits[last.frame.src]) >= ScanPorts
    /\ \A s \in DOMAIN sources :
          Cardinality(hits[s]) >= ScanPorts => counts.scan > 0

(* The bytes of a flow in the table are the bytes of exactly those packets *)
(* of it that were reported as neither scan nor spike.                     *)
BandwidthAccounted ==
    \A k \in DOMAIN bw_records :
       bw_records[k].bytes = IF k \in DOMAIN carried THEN carried[k] ELSE 0
=============================================================================
