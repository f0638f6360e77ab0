---------------------------- MODULE MCPacketPath ----------------------------
(***************************************************************************)
(* Frames for PacketPath: every shape of header cut at and around every    *)
(* length a parser compares with, DNS questions, and traffic of several    *)
(* sources.                                                                *)
(***************************************************************************)
EXTENDS PacketPath

Plain ==
    [len |-> 60, vlan |-> FALSE, type |-> "ipv4", ihl |-> 5, fragment |-> FALSE,
     proto |-> "tcp", src |-> <<10, 1>>, dst |-> <<10, 2>>, sport |-> 9,
     dport |-> 1, doff |-> 5, flags |-> {}, bytes |-> <<>>, questions |-> TRUE,
     status |-> TRUE]

Cuts == {13, 14, 17, 18, 33, 34, 37, 38, 41, 42, 45, 46, 53, 54, 57, 58, 61,
         62, 65, 66, 73, 74, 77, 78}

\* ihl may claim less than a header, or options.
Cut ==
    {[Plain EXCEPT !.len = l, !.vlan = v, !.ihl = i] :
        l \in Cuts, v \in BOOLEAN, i \in {0, 5, 6}}

Headers ==
    {[Plain EXCEPT !.len = l, !.type = t, !.vlan = v, !.proto = p] :
        l \in Cuts, t \in {"ipv4", "ipv6", "arp"}, v \in BOOLEAN,
        p \in {"tcp", "udp", "icmp"}}

\* A later fragment, and a protocol without a rule of its own.
Other ==
    {[Plain EXCEPT !.fragment = TRUE],
     [Plain EXCEPT !.type = "ipv6", !.proto = "icmp6"]}

Questions == {<<>>, <<0>>, <<1, 97, 0>>, <<1, 97, 0, 0, 1>>,
              <<1, 97, 2, 97, 97, 0, 0, 1>>, <<1, 97, 1, 97, 0, 0, 1>>,
              <<192, 12, 0, 1>>, <<1, 97, 192, 12>>, <<5, 97>>, <<2, 97, 97>>}

Asked ==
    {[Plain EXCEPT !.proto = "udp", !.dport = 53, !.bytes = b, !.vlan = v,
                   !.questions = q, !.len = (IF v THEN 58 ELSE 54) + Len(b)] :
        b \in Questions, v \in BOOLEAN, q \in BOOLEAN}

Answered ==
    {[Plain EXCEPT !.proto = "udp", !.sport = 53, !.len = 60],
     [Plain EXCEPT !.sport = 80, !.len = 70],
     [Plain EXCEPT !.sport = 80, !.len = 70, !.status = FALSE],
     [Plain EXCEPT !.dport = 80, !.len = 70],
     [Plain EXCEPT !.dport = 80, !.len = 90, !.type = "ipv6"]}

Flagged ==
    {[Plain EXCEPT !.flags = fl, !.dst = a] :
        fl \in {{}, {"rst"}, {"syn"}, {"fin", "ack"}, {"psh"}},
        a \in {<<10, 2>>, <<239, 1>>, <<10, 230>>}}

MCShapes == Cut \cup Headers \cup Other \cup Asked \cup Answered \cup Flagged

MCFrames ==
    {[Plain EXCEPT !.src = s, !.dport = d] :
        s \in {<<10, 1>>, <<10, 3>>, <<10, 4>>}, d \in {1, 2}}
    \cup {[Plain EXCEPT !.dport = 0], [Plain EXCEPT !.flags = {"rst"}]}
=============================================================================
