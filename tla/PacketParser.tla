---------------------------- MODULE PacketParser ----------------------------
(***************************************************************************)
(* The userspace packet parsers of the C probe: packet_parse_raw and       *)
(* packet_to_flow_event (src/packet_parser.c), extract_tcp_seq_num and the *)
(* places where main looks for a DNS or HTTP payload (src/main.c).         *)
(*                                                                         *)
(* A frame is a record: its length, whether it has a VLAN tag, its         *)
(* EtherType and protocol, ihl and the TCP data offset in words, whether   *)
(* it is a later fragment, addresses, ports and flags.  An address is the  *)
(* pair of its first and its last octet; of an IPv6 address, those of the  *)
(* 32 bits it is folded to.  Offsets and sizes are the real ones.          *)
(* packet_parse_raw also says how many bytes of the frame it looks at.     *)
(***************************************************************************)
EXTENDS Integers, Sequences

Larger(a, b) == IF a > b THEN a ELSE b

PORT_DNS   == 53
PORT_HTTP  == 80
PORT_HTTPS == 443

Unparsed(reads) ==
    [ok |-> FALSE, at |-> 0, reads |-> reads, ip_version |-> 0,
     protocol |-> "none", src_ip |-> <<0, 0>>, dst_ip |-> <<0, 0>>,
     src_port |-> 0, dst_port |-> 0, tcp_flags |-> {}]

\* 802.1Q puts four bytes before the EtherType.
EthOffset(f) == IF f.vlan THEN 18 ELSE 14

\* The fixed part of the transport header that is copied; 0: none is.
HeaderRead(version, proto) ==
    CASE proto = "tcp" -> 20
      [] proto = "udp" -> 8
      [] proto = "icmp" /\ version = 4 -> 8
      [] OTHER -> 0

IpHeader(version) == IF version = 4 THEN 20 ELSE 40

\* PSH and URG are only looked for in IPv4.
FlagsRead(version, flags) ==
    IF version = 4 THEN flags ELSE flags \ {"psh", "urg"}

TransportUnchecked(f, version, at) ==
    LET need == HeaderRead(version, f.proto) IN
    [ok |-> TRUE, at |-> at, reads |-> at + need, ip_version |-> version,
     protocol |-> f.proto, src_ip |-> f.src, dst_ip |-> f.dst,
     src_port |-> IF f.proto \in {"tcp", "udp"} THEN f.sport ELSE 0,
     dst_port |-> IF need > 0 THEN f.dport ELSE 0,
     tcp_flags |-> IF f.proto = "tcp" THEN FlagsRead(version, f.flags) ELSE {}]

\* The transport part, the same for both versions: an ICMP message has no
\* source port and its type for a destination port.
Transport(f, version, at) ==
    LET need == HeaderRead(version, f.proto)
        ip   == EthOffset(f) + IpHeader(version)
    IN
    IF f.len < at + need THEN Unparsed(ip)
    ELSE [ok |-> TRUE, at |-> at, reads |-> Larger(ip, at + need),
          ip_version |-> version, protocol |-> f.proto,
          src_ip |-> f.src, dst_ip |-> f.dst,
          src_port |-> IF f.proto \in {"tcp", "udp"} THEN f.sport ELSE 0,
          dst_port |-> IF need > 0 THEN f.dport ELSE 0,
          tcp_flags |-> IF f.proto = "tcp" THEN FlagsRead(version, f.flags)
                        ELSE {}]

packet_parse_raw(f) ==
    LET eth == EthOffset(f) IN
    CASE f.len < 14 -> Unparsed(0)
      [] f.len >= 14 /\ f.vlan /\ f.len < 18 -> Unparsed(14)
      [] f.len >= eth /\ f.type = "ipv4" ->
            IF f.len < eth + IpHeader(4) THEN Unparsed(eth)
            ELSE IF f.fragment THEN Unparsed(eth + IpHeader(4))
            ELSE Transport(f, 4, eth + 4 * f.ihl)
      [] f.len >= eth /\ f.type = "ipv6" ->
            IF f.len < eth + IpHeader(6) THEN Unparsed(eth)
            ELSE Transport(f, 6, eth + IpHeader(6))
      [] OTHER -> Unparsed(eth)

-----------------------------------------------------------------------------
(* The second look at a TCP segment, for the retransmission check.         *)

TcpOffsetFixedHeader(f, pkt) ==
    EthOffset(f) + (IF pkt.ip_version = 6 THEN 40 ELSE 20)

TcpOffset(f, pkt) ==
    EthOffset(f) + (IF pkt.ip_version = 6 THEN 40 ELSE 4 * f.ihl)

extract_tcp_seq_num(f, pkt) ==
    LET at   == TcpOffset(f, pkt)
        body == at + 4 * f.doff
    IN  IF pkt.protocol # "tcp" \/ f.len < at + 20
        THEN [ok |-> FALSE, at |-> 0, payload_len |-> 0]
        ELSE [ok |-> TRUE, at |-> at,
              payload_len |-> IF body < f.len THEN f.len - body ELSE 0]

-----------------------------------------------------------------------------
(* Where main takes a DNS message and an HTTP message to begin; 0 if it    *)
(* does not look for one.                                                  *)

DnsOffset(f, pkt) ==
    LET at == EthOffset(f) + 20 + 8 IN
    IF /\ pkt.protocol = "udp" /\ PORT_DNS \in {pkt.src_port, pkt.dst_port}
       /\ f.len > 42 /\ f.len > at
    THEN at ELSE 0

HttpOffset(f, pkt) ==
    LET tcp == EthOffset(f) + (IF pkt.ip_version = 6 THEN 40 ELSE 20)
        at  == tcp + 4 * f.doff
    IN  IF /\ pkt.protocol = "tcp" /\ PORT_HTTP \in {pkt.src_port, pkt.dst_port}
           /\ f.len > 54 /\ f.len >= tcp + 20 /\ f.len > at
        THEN at ELSE 0

-----------------------------------------------------------------------------
(* packet_to_flow_event: what kind of event a packet is.                   *)

\* IS_MULTICAST masks the top byte of an address in network order, which on
\* a little-endian machine is its last octet.
IS_MULTICAST(ip) == ip[2] \in 224 .. 239

Kind(category, event, service) ==
    [category |-> category, event_type |-> event, service |-> service,
     details |-> "none"]

packet_to_flow_event(pkt) ==
    LET ports   == {pkt.src_port, pkt.dst_port}
        service == IF /\ pkt.protocol = "tcp"
                      /\ ports \cap {PORT_HTTP, PORT_HTTPS} # {}
                   THEN "HTTP" ELSE "none"
    IN  IF pkt.protocol = "udp" /\ PORT_DNS \in ports
        THEN IF pkt.dst_port = PORT_DNS THEN Kind("dns", "dns_query", "DNS")
             ELSE Kind("dns", "dns_reply", "DNS")
        ELSE IF pkt.protocol = "icmp"
        THEN IF pkt.dst_port = 8 THEN Kind("icmp", "icmp_echo", "ping")
             ELSE Kind("icmp", "none", "none")
        ELSE IF IS_MULTICAST(pkt.dst_ip) THEN Kind("iptv", "none", "IPTV")
        ELSE IF "syn" \in pkt.tcp_flags THEN Kind("none", "connect", service)
        ELSE IF pkt.tcp_flags \cap {"fin", "rst"} # {}
        THEN Kind("none", "disconnect", service)
        ELSE Kind("network", "flow", service)

-----------------------------------------------------------------------------
(* parse_dns_payload and parse_http_payload.  The bytes of a DNS message   *)
(* are the ones behind its header, as the parser sees them; name[] keeps   *)
(* nameMax of them.                                                        *)

DnsLabelUnchecked(w, bytes, nameMax) ==
    LET last  == Len(bytes)
        label == bytes[w.at]
        full  == w.name + label + (IF w.name > 0 THEN 1 ELSE 0)
    IN  IF w.stop \/ w.at > last \/ label = 0
        THEN [w EXCEPT !.stop = TRUE]
        ELSE IF label >= 192
        THEN [w EXCEPT !.jumped = TRUE, !.stop = TRUE]
        ELSE [w EXCEPT !.at = w.at + 1 + label,
                       !.name = IF full < nameMax THEN full ELSE nameMax]

\* One turn of the loop over the labels of a name.  It ends at the end of the
\* name, a compression pointer, or a label longer than what is left.
DnsLabel(w, bytes, nameMax) ==
    LET last  == Len(bytes)
        label == bytes[w.at]
        full  == w.name + label + (IF w.name > 0 THEN 1 ELSE 0)
    IN  IF w.stop \/ w.at > last \/ label = 0
        THEN [w EXCEPT !.stop = TRUE]
        ELSE IF label >= 192
        THEN [w EXCEPT !.jumped = TRUE, !.stop = TRUE]
        ELSE IF w.at + label > last
        THEN [w EXCEPT !.at = w.at + 1, !.stop = TRUE]
        ELSE [w EXCEPT !.at = w.at + 1 + label,
                       !.name = IF full < nameMax THEN full ELSE nameMax]

DnsStart == [at |-> 1, name |-> 0, jumped |-> FALSE, stop |-> FALSE]

\* The whole loop: a turn takes a byte or ends it, so that there are no more
\* turns than bytes, and one.
DnsWalk(bytes, nameMax) ==
    LET turns == Len(bytes) + 1
        walk[k \in 0 .. turns] ==
            IF k = 0 THEN DnsStart ELSE DnsLabel(walk[k - 1], bytes, nameMax)
    IN  walk[turns]

\* For the properties: a DNS name of these labels, as it is encoded.
Encoded(labels) ==
    LET text[k \in 0 .. Len(labels)] ==
            IF k = 0 THEN <<>>
            ELSE text[k - 1] \o <<labels[k]>> \o [i \in 1 .. labels[k] |-> 97]
    IN  text[Len(labels)] \o <<0>>

\* typed is where the query type is read, 0 if it is not.
NoDns == [kind |-> "none", name |-> 0, typed |-> 0]

parse_dns_payload(bytes, len, reply, questions, nameMax) ==
    LET w == DnsWalk(bytes, nameMax) IN
    IF len < 12 THEN NoDns
    ELSE IF reply THEN [NoDns EXCEPT !.kind = "dns_reply"]
    ELSE IF ~questions THEN NoDns
    ELSE [kind |-> "dns_query", name |-> w.name,
          typed |-> IF ~w.jumped /\ w.at + 2 <= Len(bytes) THEN w.at + 1 ELSE 0]

\* A request is whatever goes to port 80, a response begins with HTTP.
parse_http_payload(len, response, status) ==
    IF len < 10 THEN "none"
    ELSE IF ~response THEN "http_req"
    ELSE IF status THEN "http_resp" ELSE "none"
=============================================================================
