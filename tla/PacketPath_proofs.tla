-------------------------- MODULE PacketPath_proofs --------------------------
(* Proofs about the parsers and the anomaly detector on the packet path,   *)
(* for any frames, table sizes, thresholds and number of packets.  The     *)
(* lemmas on the loop over a DNS name are Loops_proofs'.                   *)
EXTENDS PacketPath, Loops_proofs, FiniteSetTheorems

\* find_src and find_bw keep every entry, and miss a key only if the table
\* is full.
LEMMA FindOrCreateOne ==
    ASSUME NEW table, NEW key, NEW limit, NEW fresh
    PROVE  LET t == FindOrCreate(table, key, limit, fresh) IN
           /\ \/ t = table
              \/ key \notin DOMAIN table /\ t = Insert(table, key, fresh)
                    /\ ~(Cardinality(DOMAIN table) >= limit)
           /\ key \notin DOMAIN t => t = table /\ Cardinality(DOMAIN table) >= limit
<1>1. CASE key \in DOMAIN table \/ Cardinality(DOMAIN table) >= limit
  BY <1>1 DEF FindOrCreate
<1>2. CASE ~(key \in DOMAIN table \/ Cardinality(DOMAIN table) >= limit)
  <2>1. FindOrCreate(table, key, limit, fresh) = Insert(table, key, fresh)
    BY <1>2 DEF FindOrCreate
  <2>2. key \in DOMAIN Insert(table, key, fresh)
    BY DEF Insert
  <2> QED BY <1>2, <2>1, <2>2
<1> QED BY <1>1, <1>2

-----------------------------------------------------------------------------
(* The table of flows                                                      *)

\* A flow that carried bytes is missing in the table only if the table is
\* full, and then it will never get in.
BwInv ==
    /\ IsFiniteSet(DOMAIN bw_records)
    /\ \A k \in DOMAIN bw_records : bw_records[k].bytes \in Nat
    /\ \A k \in DOMAIN carried \ DOMAIN bw_records :
          Cardinality(DOMAIN bw_records) >= MaxBw
    /\ BandwidthAccounted

CarriedBy(k) == IF k \in DOMAIN carried THEN carried[k] ELSE 0

\* What a packet of flow k does to the table of flows and to the history.
BwStep(k, bytes, ts, alarm) ==
    LET table == FindOrCreate(bw_records, k, MaxBw, [bytes |-> 0, time |-> 0]) IN
    \/ alarm /\ bw_records' \in {bw_records, table} /\ carried' = carried
    \/ /\ ~alarm /\ carried' = Insert(carried, k, bytes + CarriedBy(k))
       /\ bw_records' = IF k \notin DOMAIN table THEN table
                        ELSE Insert(table, k, AddBytes(table[k], bytes, ts))

\* The entry find_bw makes starts where the history of the flow starts.
LEMMA FoundFlow ==
    ASSUME BwInv, NEW k
    PROVE  LET table == FindOrCreate(bw_records, k, MaxBw, [bytes |-> 0, time |-> 0]) IN
           /\ IsFiniteSet(DOMAIN table)
           /\ DOMAIN bw_records \subseteq DOMAIN table
           /\ DOMAIN table \subseteq DOMAIN bw_records \cup {k}
           /\ \A q \in DOMAIN table : table[q].bytes \in Nat /\ table[q].bytes = CarriedBy(q)
           /\ \A q \in DOMAIN carried \ DOMAIN table : Cardinality(DOMAIN table) >= MaxBw
           /\ k \notin DOMAIN table => Cardinality(DOMAIN table) >= MaxBw
<1> DEFINE fresh == [bytes |-> 0, time |-> 0]
           table == FindOrCreate(bw_records, k, MaxBw, fresh)
<1>1. /\ IsFiniteSet(DOMAIN bw_records)
      /\ \A q \in DOMAIN bw_records : /\ bw_records[q].bytes \in Nat
                                      /\ bw_records[q].bytes = CarriedBy(q)
      /\ \A q \in DOMAIN carried \ DOMAIN bw_records :
            Cardinality(DOMAIN bw_records) >= MaxBw
  BY DEF BwInv, BandwidthAccounted, CarriedBy
<1>2. /\ \/ table = bw_records
         \/ k \notin DOMAIN bw_records /\ table = Insert(bw_records, k, fresh)
               /\ ~(Cardinality(DOMAIN bw_records) >= MaxBw)
      /\ k \notin DOMAIN table =>
            table = bw_records /\ Cardinality(DOMAIN bw_records) >= MaxBw
  BY FindOrCreateOne
<1> HIDE DEF table
<1>3. CASE table = bw_records
  BY <1>1, <1>2, <1>3 DEF table
<1>4. CASE /\ k \notin DOMAIN bw_records /\ table = Insert(bw_records, k, fresh)
           /\ ~(Cardinality(DOMAIN bw_records) >= MaxBw)
  <2>1. /\ DOMAIN table = DOMAIN bw_records \cup {k} /\ table[k] = fresh
        /\ \A q \in DOMAIN bw_records \ {k} : table[q] = bw_records[q]
    BY <1>4 DEF Insert
  <2>2. IsFiniteSet(DOMAIN table)
    BY <1>1, <2>1, FS_AddElement
  <2>3. k \notin DOMAIN carried
    BY <1>1, <1>4
  <2>4. table[k].bytes = 0 /\ CarriedBy(k) = 0
    BY <2>1, <2>3 DEF CarriedBy
  <2>5. \A q \in DOMAIN table : table[q].bytes \in Nat /\ table[q].bytes = CarriedBy(q)
    BY <1>1, <2>1, <2>4
  <2>6. DOMAIN carried \ DOMAIN table = {}
    BY <1>1, <1>4, <2>1
  <2> QED BY <2>1, <2>2, <2>5, <2>6 DEF table
<1> QED BY <1>2, <1>3, <1>4

\* Every packet keeps the bytes of the flows accounted for.
LEMMA BwStepKeeps ==
    ASSUME BwInv, NEW k, NEW bytes \in Nat, NEW ts, NEW alarm \in BOOLEAN,
           BwStep(k, bytes, ts, alarm)
    PROVE  BwInv'
<1> DEFINE table == FindOrCreate(bw_records, k, MaxBw, [bytes |-> 0, time |-> 0])
<1>1. /\ IsFiniteSet(DOMAIN table)
      /\ \A q \in DOMAIN table : table[q].bytes \in Nat /\ table[q].bytes = CarriedBy(q)
      /\ \A q \in DOMAIN carried \ DOMAIN table : Cardinality(DOMAIN table) >= MaxBw
      /\ k \notin DOMAIN table => Cardinality(DOMAIN table) >= MaxBw
  BY FoundFlow
<1>2. \/ alarm /\ bw_records' \in {bw_records, table} /\ carried' = carried
      \/ /\ ~alarm /\ carried' = Insert(carried, k, bytes + CarriedBy(k))
         /\ bw_records' = IF k \notin DOMAIN table THEN table
                          ELSE Insert(table, k, AddBytes(table[k], bytes, ts))
  BY DEF BwStep
<1> HIDE DEF table
<1>3. CASE carried' = carried /\ bw_records' = bw_records
  BY <1>3 DEF BwInv, BandwidthAccounted
<1>4. CASE carried' = carried /\ bw_records' = table
  BY <1>1, <1>4 DEF BwInv, BandwidthAccounted, CarriedBy
<1>5. CASE /\ carried' = Insert(carried, k, bytes + CarriedBy(k))
           /\ bw_records' = IF k \notin DOMAIN table THEN table
                            ELSE Insert(table, k, AddBytes(table[k], bytes, ts))
  <2>1. /\ DOMAIN carried' = DOMAIN carried \cup {k}
        /\ carried'[k] = bytes + CarriedBy(k)
        /\ \A q \in DOMAIN carried \ {k} : carried'[q] = carried[q]
    BY <1>5 DEF Insert
  <2>2. CASE k \notin DOMAIN table
    <3>1. bw_records' = table
      BY <1>5, <2>2
    <3>2. \A q \in DOMAIN table : q # k
      BY <2>2
    <3> QED BY <1>1, <2>1, <2>2, <3>1, <3>2 DEF BwInv, BandwidthAccounted, CarriedBy
  <2>3. CASE k \in DOMAIN table
    <3>1. bw_records' = Insert(table, k, AddBytes(table[k], bytes, ts))
      BY <1>5, <2>3
    <3>2. /\ DOMAIN bw_records' = DOMAIN table
          /\ bw_records'[k] = AddBytes(table[k], bytes, ts)
          /\ \A q \in DOMAIN table \ {k} : bw_records'[q] = table[q]
      BY <2>3, <3>1 DEF Insert
    <3>3. bw_records'[k].bytes = table[k].bytes + bytes
      BY <3>2 DEF AddBytes
    <3>4. bw_records'[k].bytes = carried'[k] /\ bw_records'[k].bytes \in Nat
      BY <1>1, <2>1, <2>3, <3>3
    <3>5. \A q \in DOMAIN carried' \ DOMAIN bw_records' : q \in DOMAIN carried \ DOMAIN table
      BY <2>1, <2>3, <3>2
    <3> QED BY <1>1, <2>1, <3>2, <3>4, <3>5 DEF BwInv, BandwidthAccounted, CarriedBy
  <2> QED BY <2>2, <2>3
<1> QED BY <1>2, <1>3, <1>4, <1>5

\* The bytes and the destination port main hands to the detector are numbers.
LEMMA FrameTyped ==
    ASSUME NEW f \in Frames \cup Shapes
    PROVE  f.len \in Nat /\ packet_parse_raw(f).dst_port \in Nat
<1>1. f.len \in Nat /\ f.dport \in Nat
  <2>1. FrameLen \subseteq Nat /\ Port \subseteq Nat
    BY DEF FrameLen, Port
  <2> QED BY <2>1, PacketPathAssumption, ZenonT(30)
<1>2. \A n : Unparsed(n).dst_port = 0
  BY DEF Unparsed
<1>3. \A v, at : Transport(f, v, at).dst_port \in {0, f.dport}
  <2> TAKE v, at
  <2> DEFINE need == HeaderRead(v, f.proto)
             ip == EthOffset(f) + IpHeader(v)
  <2>1. CASE f.len < at + need
    BY <1>2, <2>1 DEF Transport
  <2>2. CASE ~(f.len < at + need)
    BY <2>2 DEF Transport
  <2> QED BY <2>1, <2>2
<1>4. packet_parse_raw(f).dst_port \in {0, f.dport}
  BY <1>2, <1>3 DEF packet_parse_raw
<1> QED BY <1>1, <1>4

\* What a packet does to the table of flows, however it is judged.
LEMMA PacketBw ==
    ASSUME NEW f \in Frames \cup Shapes, Packet(f)
    PROVE  \E alarm \in BOOLEAN :
              \E ts : BwStep(Key(f, packet_parse_raw(f)), f.len, ts, alarm)
<1> DEFINE p == packet_parse_raw(f)
           flow == [src |-> f.src, dst |-> f.dst, sport |-> p.src_port,
                    dport |-> p.dst_port, flags |-> p.tcp_flags, bytes |-> f.len]
           k == Key(f, p)
<1>1. PICK ts \in now .. MaxTime, verdict \in {"none", "scan", "spike", "drop"} :
         /\ anomaly_check_flow(flow, ts, verdict)
         /\ carried' = IF verdict \in {"scan", "spike"} THEN carried
                       ELSE Insert(carried, k, f.len + CarriedBy(k))
  BY DEF Packet, CarriedBy
<1> DEFINE known == FindOrCreate(sources, f.src, MaxSources, {})
           scan == ScanCheck(known, f.src, p.dst_port).scan
           table == FindOrCreate(bw_records, k, MaxBw, [bytes |-> 0, time |-> 0])
           spike == k \in DOMAIN table /\ Rate(table[k], ts) > SpikeRate
<1>2. /\ verdict = IF scan THEN "scan" ELSE IF spike THEN "spike"
                   ELSE IF "rst" \in p.tcp_flags THEN "drop" ELSE "none"
      /\ bw_records' = IF scan THEN bw_records
                       ELSE IF spike \/ k \notin DOMAIN table THEN table
                       ELSE Insert(table, k, AddBytes(table[k], f.len, ts))
  BY <1>1, Zenon DEF anomaly_check_flow, Key
<1> HIDE DEF scan, table, spike, k
<1>3. BwStep(k, f.len, ts, verdict \in {"scan", "spike"})
  <2>1. CASE scan
    BY <1>1, <1>2, <2>1, SMTT(30) DEF BwStep, table
  <2>2. CASE ~scan /\ spike
    BY <1>1, <1>2, <2>2 DEF BwStep, table
  <2>3. CASE ~scan /\ ~spike
    <3>1. verdict \notin {"scan", "spike"}
      BY <1>2, <2>3
    <3> QED BY <1>1, <1>2, <2>3, <3>1 DEF BwStep, table
  <2> QED BY <2>1, <2>2, <2>3, SMTT(30)
<1>4. (verdict \in {"scan", "spike"}) \in BOOLEAN
  OBVIOUS
<1> QED BY <1>3, <1>4, Zenon DEF k

\* Every step keeps the bytes of the flows accounted for.
LEMMA NextBw ==
    ASSUME BwInv, [Next]_vars
    PROVE  BwInv'
<1>1. CASE UNCHANGED vars
  BY <1>1 DEF vars, detector, BwInv, BandwidthAccounted
<1>2. ASSUME NEW f \in Frames \cup Shapes, Unknown(f)
      PROVE  BwInv'
  BY <1>2 DEF Unknown, detector, BwInv, BandwidthAccounted
<1>3. ASSUME NEW f \in Frames \cup Shapes, Packet(f)
      PROVE  BwInv'
  BY <1>3, PacketBw, FrameTyped, BwStepKeeps
<1> QED BY <1>1, <1>2, <1>3 DEF Next

\* The bytes kept for a flow in the table are, at all times, the bytes of its
\* packets that were reported neither as a scan nor as a spike: no packet of
\* a tracked flow is missed, whatever else competes for the table.
THEOREM BytesAccounted == Spec => []BandwidthAccounted
<1>1. Init => BwInv
  <2> SUFFICES ASSUME Init PROVE BwInv
    OBVIOUS
  <2>1. DOMAIN bw_records = {} /\ DOMAIN carried = {}
    BY DEF Init, anomaly_detector_create
  <2> QED BY <2>1, FS_EmptySet DEF BwInv, BandwidthAccounted
<1>2. BwInv /\ [Next]_vars => BwInv'
  BY NextBw
<1>3. BwInv => BandwidthAccounted
  BY SMTT(30) DEF BwInv
<1> QED BY <1>1, <1>2, <1>3, PTL DEF Spec

-----------------------------------------------------------------------------
(* The table of sources                                                    *)

Went(s) == IF s \in DOMAIN hits THEN hits[s] ELSE {}

\* The ports stored for a source are all it went to until there is no room
\* for another; a source is missing only if the table is full.
ScanInv ==
    /\ counts \in [spike : Nat, scan : Nat, drop : Nat]
    /\ \A s \in DOMAIN hits : IsFiniteSet(hits[s])
    /\ \A s \in DOMAIN hits \ DOMAIN sources : Cardinality(DOMAIN sources) >= MaxSources
    /\ \A s \in DOMAIN sources :
          /\ s \in DOMAIN hits
          /\ sources[s] \subseteq hits[s]
          /\ Cardinality(sources[s]) < MaxPorts => sources[s] = hits[s]
    /\ ScanExact

\* What a packet from s to the port does to the sources and the history.
ScanStep(s, port, verdict) ==
    LET known == FindOrCreate(sources, s, MaxSources, {})
        ports == ScanCheck(known, s, port)
    IN  /\ sources' = IF ports.ports = {} THEN known ELSE Insert(known, s, ports.ports)
        /\ ports.scan <=> verdict = "scan"
        /\ hits' = Insert(hits, s, Went(s) \cup ({port} \ {0}))
        /\ counts' = IF verdict = "none" THEN counts
                     ELSE [counts EXCEPT ![verdict] = @ + 1]
        /\ last'.verdict = verdict /\ last'.frame.src = s

\* Within the table, a source's ports before the packet.
LEMMA FoundSource ==
    ASSUME ScanInv, NEW s
    PROVE  LET known == FindOrCreate(sources, s, MaxSources, {}) IN
           /\ DOMAIN sources \subseteq DOMAIN known
           /\ DOMAIN known \subseteq DOMAIN sources \cup {s}
           /\ \A q \in DOMAIN hits \ DOMAIN known : Cardinality(DOMAIN known) >= MaxSources
           /\ s \notin DOMAIN known => Cardinality(DOMAIN known) >= MaxSources
           /\ \A q \in DOMAIN known :
                 /\ q # s => q \in DOMAIN hits
                 /\ known[q] \subseteq Went(q)
                 /\ Cardinality(known[q]) < MaxPorts => known[q] = Went(q)
                 /\ Cardinality(Went(q)) >= ScanPorts => counts.scan > 0
<1> DEFINE known == FindOrCreate(sources, s, MaxSources, {})
<1>1. /\ \/ known = sources
         \/ s \notin DOMAIN sources /\ known = Insert(sources, s, {})
               /\ ~(Cardinality(DOMAIN sources) >= MaxSources)
      /\ s \notin DOMAIN known =>
            known = sources /\ Cardinality(DOMAIN sources) >= MaxSources
  BY FindOrCreateOne
<1>2. /\ \A q \in DOMAIN sources :
            /\ q \in DOMAIN hits
            /\ sources[q] \subseteq Went(q)
            /\ Cardinality(sources[q]) < MaxPorts => sources[q] = Went(q)
            /\ Cardinality(Went(q)) >= ScanPorts => counts.scan > 0
      /\ \A q \in DOMAIN hits \ DOMAIN sources : Cardinality(DOMAIN sources) >= MaxSources
  BY DEF ScanInv, ScanExact, Went
<1> HIDE DEF known
<1>3. CASE known = sources
  BY <1>1, <1>2, <1>3 DEF known
<1>4. CASE /\ s \notin DOMAIN sources /\ known = Insert(sources, s, {})
           /\ ~(Cardinality(DOMAIN sources) >= MaxSources)
  <2>1. /\ DOMAIN known = DOMAIN sources \cup {s} /\ known[s] = {}
        /\ \A q \in DOMAIN sources \ {s} : known[q] = sources[q]
    BY <1>4 DEF Insert
  <2>2. Went(s) = {}
    BY <1>2, <1>4 DEF Went
  <2>3. ~(Cardinality(Went(s)) >= ScanPorts)
    BY <2>2, FS_EmptySet, AnomalyAssumption
  <2>4. DOMAIN hits \ DOMAIN known = {}
    BY <1>2, <1>4, <2>1
  <2>5. \A q \in DOMAIN known : q = s \/ q \in DOMAIN sources \ {s}
    BY <2>1
  <2>6. \A q \in DOMAIN known :
                 /\ q # s => q \in DOMAIN hits
                 /\ known[q] \subseteq Went(q)
                 /\ Cardinality(known[q]) < MaxPorts => known[q] = Went(q)
                 /\ Cardinality(Went(q)) >= ScanPorts => counts.scan > 0
    <3> TAKE q \in DOMAIN known
    <3>1. CASE q = s
      BY <2>1, <2>2, <2>3, <3>1
    <3>2. CASE q # s
      BY <1>2, <2>1, <2>5, <3>2, SMTT(30)
    <3> QED BY <3>1, <3>2
  <2> QED BY <2>1, <2>4, <2>6 DEF known
<1> QED BY <1>1, <1>3, <1>4

\* The ports stored for s after the check, and those it then went to.
Kept(known, s, port) ==
    IF ScanCheck(known, s, port).ports = {} THEN known[s]
    ELSE ScanCheck(known, s, port).ports

With(went, port) == went \cup ({port} \ {0})

\* What the port check gives for a source in the table: the stored ports, all
\* those the source went to unless there is no room for another, and a scan
\* when a new port takes them to the threshold.
LEMMA CheckedPorts ==
    ASSUME NEW known, NEW s \in DOMAIN known, NEW port \in Nat, NEW went,
           IsFiniteSet(went), known[s] \subseteq went,
           Cardinality(known[s]) < MaxPorts => known[s] = went
    PROVE  /\ IsFiniteSet(With(went, port))
           /\ Kept(known, s, port) \subseteq With(went, port)
           /\ Cardinality(Kept(known, s, port)) < MaxPorts =>
                 Kept(known, s, port) = With(went, port)
           /\ ScanCheck(known, s, port).scan \in BOOLEAN
           /\ ScanCheck(known, s, port).scan => Cardinality(With(went, port)) >= ScanPorts
           /\ Cardinality(With(went, port)) >= ScanPorts =>
                 ScanCheck(known, s, port).scan \/ Cardinality(went) >= ScanPorts
<1> DEFINE r == ScanCheck(known, s, port)
           now2 == With(went, port)
           kept == Kept(known, s, port)
           full == IF Cardinality(known[s]) < MaxPorts
                   THEN known[s] \cup {port} ELSE known[s]
<1>1. IsFiniteSet(now2) /\ IsFiniteSet(known[s]) /\ IsFiniteSet({port})
  <2>1. IsFiniteSet({port}) /\ IsFiniteSet({port} \ {0})
    BY FS_Singleton, FS_Subset, Zenon
  <2> QED BY <2>1, FS_Union, FS_Subset, Zenon DEF With
<1>2. Cardinality(now2) \in Nat /\ Cardinality(known[s]) \in Nat /\ Cardinality(went) \in Nat
  BY <1>1, FS_CardinalityType
<1>3. ScanPorts \in Nat /\ MaxPorts \in Nat /\ ScanPorts <= MaxPorts
  BY AnomalyAssumption
<1>4. CASE ~(port > 0 /\ port \notin known[s])
  <2>1. r = [ports |-> {}, scan |-> FALSE]
    BY <1>4 DEF ScanCheck
  <2>2. kept = known[s] /\ r.scan = FALSE
    BY <2>1 DEF Kept
  <2>3. now2 = went
    BY <1>4 DEF With
  <2> QED BY <1>1, <2>2, <2>3, Zenon
<1>5. CASE port > 0 /\ port \notin known[s]
  <2>1. r = [ports |-> full, scan |-> Cardinality(full) >= ScanPorts]
    BY <1>5 DEF ScanCheck
  <2>2. r.ports = full /\ r.scan = (Cardinality(full) >= ScanPorts)
    BY <2>1
  <2>3. now2 = went \cup {port}
    BY <1>5 DEF With
  <2>4. CASE Cardinality(known[s]) < MaxPorts
    <3>1. full = known[s] \cup {port} /\ known[s] = went
      BY <2>4
    <3>2. kept = now2 /\ full = now2
      BY <2>2, <2>3, <3>1 DEF Kept
    <3>3. r.scan = (Cardinality(now2) >= ScanPorts) /\ r.scan \in BOOLEAN
      BY <2>2, <3>2
    <3> HIDE DEF kept, now2, r
    <3>4. /\ IsFiniteSet(now2)
          /\ kept \subseteq now2
          /\ Cardinality(kept) < MaxPorts => kept = now2
          /\ r.scan \in BOOLEAN
          /\ r.scan => Cardinality(now2) >= ScanPorts
          /\ Cardinality(now2) >= ScanPorts => r.scan \/ Cardinality(went) >= ScanPorts
      BY <1>1, <3>2, <3>3, Zenon
    <3> QED BY <3>4 DEF kept, now2, r
  <2>5. CASE ~(Cardinality(known[s]) < MaxPorts)
    <3>1. full = known[s] /\ kept = known[s]
      BY <2>2, <2>5 DEF Kept
    <3>2. Cardinality(full) >= ScanPorts /\ Cardinality(known[s]) >= MaxPorts
      BY <1>2, <1>3, <2>5, <3>1
    <3>3. full \subseteq now2 /\ Cardinality(full) <= Cardinality(now2)
      BY <1>1, <2>3, <3>1, FS_Subset
    <3>4. Cardinality(now2) >= ScanPorts
      BY <1>2, <1>3, <3>1, <3>2, <3>3
    <3>5. r.scan = TRUE
      BY <2>2, <3>2, Zenon
    <3>6. ~(Cardinality(kept) < MaxPorts) /\ kept \subseteq now2
      BY <2>5, <3>1, <3>3
    <3> HIDE DEF kept, now2, r
    <3>7. /\ IsFiniteSet(now2)
          /\ kept \subseteq now2
          /\ Cardinality(kept) < MaxPorts => kept = now2
          /\ r.scan \in BOOLEAN
          /\ r.scan => Cardinality(now2) >= ScanPorts
          /\ Cardinality(now2) >= ScanPorts => r.scan \/ Cardinality(went) >= ScanPorts
      BY <1>1, <3>4, <3>5, <3>6, ZenonT(30)
    <3> QED BY <3>7 DEF kept, now2, r
  <2> QED BY <2>4, <2>5
<1> QED BY <1>4, <1>5

\* Every packet keeps the sources and their ports in step with the history.
LEMMA ScanStepKeeps ==
    ASSUME ScanInv, NEW s, NEW port \in Nat,
           NEW verdict \in {"none", "scan", "spike", "drop"},
           ScanStep(s, port, verdict)
    PROVE  ScanInv'
<1> DEFINE known == FindOrCreate(sources, s, MaxSources, {})
           r == ScanCheck(known, s, port)
           now2 == With(Went(s), port)
           kept == Kept(known, s, port)
<1>1. /\ \A q \in DOMAIN hits \ DOMAIN known : Cardinality(DOMAIN known) >= MaxSources
      /\ s \notin DOMAIN known => Cardinality(DOMAIN known) >= MaxSources
      /\ \A q \in DOMAIN known :
            /\ q # s => q \in DOMAIN hits
            /\ known[q] \subseteq Went(q)
            /\ Cardinality(known[q]) < MaxPorts => known[q] = Went(q)
            /\ Cardinality(Went(q)) >= ScanPorts => counts.scan > 0
  BY FoundSource
<1>2. /\ sources' = IF r.ports = {} THEN known ELSE Insert(known, s, r.ports)
      /\ r.scan <=> verdict = "scan"
      /\ hits' = Insert(hits, s, now2)
      /\ counts' = IF verdict = "none" THEN counts ELSE [counts EXCEPT ![verdict] = @ + 1]
      /\ last'.verdict = verdict /\ last'.frame.src = s
  BY DEF ScanStep, With
<1>3. counts \in [spike : Nat, scan : Nat, drop : Nat]
  BY DEF ScanInv
<1>4. /\ counts' \in [spike : Nat, scan : Nat, drop : Nat]
      /\ counts.scan > 0 => counts'.scan > 0
      /\ verdict = "scan" => counts'.scan > 0
  <2>1. CASE verdict = "none"
    BY <1>2, <1>3, <2>1
  <2>2. CASE verdict = "scan"
    BY <1>2, <1>3, <2>2, SMTT(30)
  <2>3. CASE verdict = "spike"
    BY <1>2, <1>3, <2>3
  <2>4. CASE verdict = "drop"
    BY <1>2, <1>3, <2>4
  <2> QED BY <2>1, <2>2, <2>3, <2>4, SMTT(30)
<1>5. IsFiniteSet(Went(s)) /\ \A q \in DOMAIN hits : IsFiniteSet(hits[q])
  BY FS_EmptySet DEF ScanInv, Went
<1>6. IsFiniteSet(now2)
  <2>1. IsFiniteSet({port} \ {0})
    BY FS_Singleton, FS_Subset, Zenon
  <2> QED BY <1>5, <2>1, FS_Union, Zenon DEF With
<1>7. /\ DOMAIN hits' = DOMAIN hits \cup {s} /\ hits'[s] = now2
      /\ \A q \in DOMAIN hits \ {s} : hits'[q] = hits[q]
  BY <1>2 DEF Insert
<1>8. \A q \in DOMAIN hits' : IsFiniteSet(hits'[q])
  BY <1>5, <1>6, <1>7
<1> HIDE DEF known, now2
<1>9. CASE s \in DOMAIN known
  <2>1. /\ kept \subseteq now2
        /\ Cardinality(kept) < MaxPorts => kept = now2
        /\ r.scan => Cardinality(now2) >= ScanPorts
        /\ Cardinality(now2) >= ScanPorts => r.scan \/ Cardinality(Went(s)) >= ScanPorts
    <3>1. /\ known[s] \subseteq Went(s)
          /\ Cardinality(known[s]) < MaxPorts => known[s] = Went(s)
      BY <1>1, <1>9
    <3> QED BY <1>5, <1>9, <3>1, CheckedPorts DEF now2
  <2> HIDE DEF r
  <2>2. /\ DOMAIN sources' = DOMAIN known /\ sources'[s] = kept
        /\ \A q \in DOMAIN known \ {s} : sources'[q] = known[q]
    BY <1>2, <1>9, Zenon DEF Insert, Kept, r
  <2> HIDE DEF kept
  <2>3. \A q \in DOMAIN hits' \ DOMAIN sources' : Cardinality(DOMAIN sources') >= MaxSources
    BY <1>1, <1>7, <1>9, <2>2
  <2>4. Cardinality(hits'[s]) >= ScanPorts => counts'.scan > 0
    BY <1>1, <1>2, <1>4, <1>7, <1>9, <2>1
  <2>5. \A q \in DOMAIN sources' :
           /\ q \in DOMAIN hits'
           /\ sources'[q] \subseteq hits'[q]
           /\ Cardinality(sources'[q]) < MaxPorts => sources'[q] = hits'[q]
           /\ Cardinality(hits'[q]) >= ScanPorts => counts'.scan > 0
    <3> TAKE q \in DOMAIN sources'
    <3>1. CASE q = s
      BY <1>7, <2>1, <2>2, <2>4, <3>1
    <3>2. CASE q # s
      <4>1. q \in DOMAIN known /\ q \in DOMAIN hits /\ Went(q) = hits'[q]
            /\ sources'[q] = known[q]
        BY <1>1, <1>7, <2>2, <3>2 DEF Went
      <4> QED BY <1>1, <1>4, <1>7, <4>1
    <3> QED BY <3>1, <3>2
  <2>6. last'.verdict = "scan" => Cardinality(hits'[last'.frame.src]) >= ScanPorts
    BY <1>2, <1>7, <2>1
  <2>7. ScanExact'
    BY <2>5, <2>6, SMTT(30) DEF ScanExact
  <2> QED BY <1>4, <1>8, <2>3, <2>5, <2>7, SMTT(30) DEF ScanInv
<1>10. CASE s \notin DOMAIN known
  <2>1. r = [ports |-> {}, scan |-> FALSE]
    BY <1>10 DEF ScanCheck
  <2>2. sources' = known /\ verdict # "scan"
    BY <1>2, <2>1
  <2>3. \A q \in DOMAIN hits' \ DOMAIN sources' : Cardinality(DOMAIN sources') >= MaxSources
    BY <1>1, <1>7, <1>10, <2>2
  <2>4. \A q \in DOMAIN sources' :
           /\ q \in DOMAIN hits'
           /\ sources'[q] \subseteq hits'[q]
           /\ Cardinality(sources'[q]) < MaxPorts => sources'[q] = hits'[q]
           /\ Cardinality(hits'[q]) >= ScanPorts => counts'.scan > 0
    <3> TAKE q \in DOMAIN sources'
    <3>1. q # s /\ q \in DOMAIN known
      BY <1>10, <2>2
    <3>2. q \in DOMAIN hits /\ Went(q) = hits'[q]
      BY <1>1, <1>7, <3>1 DEF Went
    <3> QED BY <1>1, <1>4, <1>7, <2>2, <3>1, <3>2
  <2>5. ScanExact'
    BY <1>2, <2>2, <2>4, SMTT(30) DEF ScanExact
  <2> QED BY <1>4, <1>8, <2>3, <2>4, <2>5, SMTT(30) DEF ScanInv
<1> QED BY <1>9, <1>10

\* What a packet does to the table of sources, however it is judged.
LEMMA PacketScan ==
    ASSUME NEW f \in Frames \cup Shapes, Packet(f)
    PROVE  \E verdict \in {"none", "scan", "spike", "drop"} :
              ScanStep(f.src, packet_parse_raw(f).dst_port, verdict)
<1> DEFINE p == packet_parse_raw(f)
           flow == [src |-> f.src, dst |-> f.dst, sport |-> p.src_port,
                    dport |-> p.dst_port, flags |-> p.tcp_flags, bytes |-> f.len]
<1>1. PICK ts \in now .. MaxTime, verdict \in {"none", "scan", "spike", "drop"} :
         /\ anomaly_check_flow(flow, ts, verdict)
         /\ last' = [frame |-> f, pkt |-> p, seq |-> extract_tcp_seq_num(f, p),
                     dns |-> Dns(f, p), flow |-> Enriched(f, p),
                     event |-> flow_tracker_update_single(p),
                     verdict |-> verdict, tracked |-> f.src \in DOMAIN sources']
         /\ hits' = Insert(hits, f.src, Went(f.src) \cup ({p.dst_port} \ {0}))
  BY SMTT(30) DEF Packet, Went
<1>2. last'.verdict = verdict /\ last'.frame.src = f.src
  BY <1>1, SMTT(30)
<1> DEFINE known == FindOrCreate(sources, f.src, MaxSources, {})
           ports == ScanCheck(known, f.src, p.dst_port)
           key == <<f.src, f.dst, p.src_port, p.dst_port>>
           table == FindOrCreate(bw_records, key, MaxBw, [bytes |-> 0, time |-> 0])
           spike == key \in DOMAIN table /\ Rate(table[key], ts) > SpikeRate
<1>3. /\ sources' = IF ports.ports = {} THEN known ELSE Insert(known, f.src, ports.ports)
      /\ verdict = IF ports.scan THEN "scan" ELSE IF spike THEN "spike"
                   ELSE IF "rst" \in p.tcp_flags THEN "drop" ELSE "none"
      /\ counts' = IF verdict = "none" THEN counts
                   ELSE [counts EXCEPT ![verdict] = @ + 1]
  BY <1>1, ZenonT(30) DEF anomaly_check_flow
<1> HIDE DEF ports, spike
<1>4. ports.scan <=> verdict = "scan"
  BY <1>3, Zenon
<1> QED BY <1>1, <1>2, <1>3, <1>4, ZenonT(30) DEF ScanStep, ports

\* Every step keeps the sources and their ports in step with the history.
LEMMA NextScan ==
    ASSUME ScanInv, [Next]_vars
    PROVE  ScanInv'
<1>1. CASE UNCHANGED vars
  BY <1>1 DEF vars, detector, ScanInv, ScanExact
<1>2. ASSUME NEW f \in Frames \cup Shapes, Unknown(f)
      PROVE  ScanInv'
  <2>1. last'.verdict = "none"
    BY <1>2 DEF Unknown, Nothing
  <2>2. UNCHANGED <<sources, counts, hits>>
    BY <1>2 DEF Unknown, detector
  <2>3. "none" # "scan"
    OBVIOUS
  <2>4. ScanExact'
    BY <2>1, <2>2, <2>3 DEF ScanInv, ScanExact
  <2> QED BY <2>2, <2>4 DEF ScanInv
<1>3. ASSUME NEW f \in Frames \cup Shapes, Packet(f)
      PROVE  ScanInv'
  BY <1>3, PacketScan, FrameTyped, ScanStepKeeps
<1> QED BY <1>1, <1>2, <1>3 DEF Next

\* A scan is reported only for a source that went to as many ports as the
\* threshold asks for, and no source in the table gets there unreported,
\* although a source's ports are no longer stored when their array is full.
THEOREM ScansAreExact == Spec => []ScanExact
<1>1. Init => ScanInv
  <2> SUFFICES ASSUME Init PROVE ScanInv
    OBVIOUS
  <2>1. DOMAIN sources = {} /\ DOMAIN hits = {}
        /\ counts = [spike |-> 0, scan |-> 0, drop |-> 0]
    BY DEF Init, anomaly_detector_create
  <2>2. last.verdict = "none" /\ "none" # "scan"
    BY DEF Init, Nothing
  <2> QED BY <2>1, <2>2 DEF ScanInv, ScanExact
<1>2. ScanInv /\ [Next]_vars => ScanInv'
  BY NextScan
<1>3. ScanInv => ScanExact
  BY DEF ScanInv
<1> QED BY <1>1, <1>2, <1>3, PTL DEF Spec

-----------------------------------------------------------------------------
(* The two parsers                                                         *)

\* The header fields of a frame are numbers, and its parts begin at numbers.
LEMMA HeaderTyped ==
    ASSUME NEW f \in Frames \cup Shapes
    PROVE  /\ f.len \in Nat /\ 4 * f.ihl \in Nat /\ 4 * f.doff \in Nat
           /\ EthOffset(f) \in {14, 18}
           /\ \A v : IpHeader(v) \in {20, 40}
           /\ \A v : HeaderRead(v, f.proto) \in {0, 8, 20}
<1>1. f.len \in FrameLen /\ f.ihl \in 0 .. 15 /\ f.doff \in 0 .. 15
  BY PacketPathAssumption
<1>2. f.len \in Nat
  BY FrameTyped
<1>3. 4 * f.ihl \in Nat /\ 4 * f.doff \in Nat
  BY <1>1
<1> QED BY <1>2, <1>3 DEF EthOffset, IpHeader, HeaderRead

\* The transport part looks at nothing behind the end of a frame that holds
\* its IP header, and reports the place it was told to look at.
LEMMA TransportInside ==
    ASSUME NEW f \in Frames \cup Shapes, NEW v \in {4, 6}, NEW at \in Nat,
           f.len >= EthOffset(f) + IpHeader(v)
    PROVE  /\ Transport(f, v, at).reads \in Nat /\ Transport(f, v, at).reads <= f.len
           /\ Transport(f, v, at).ok =>
                 /\ Transport(f, v, at).at = at /\ Transport(f, v, at).ip_version = v
                 /\ Transport(f, v, at).protocol = f.proto
                 /\ f.proto = "tcp" => f.len >= at + 20
<1> DEFINE need == HeaderRead(v, f.proto)
           ip == EthOffset(f) + IpHeader(v)
<1>1. f.len \in Nat /\ need \in Nat /\ ip \in Nat /\ ip <= f.len
  BY HeaderTyped
<1>2. f.proto = "tcp" => need = 20
  BY DEF HeaderRead
<1> HIDE DEF need, ip
<1>3. CASE f.len < at + need
  <2>1. Transport(f, v, at) = Unparsed(ip)
    BY <1>3 DEF Transport, need, ip
  <2>2. Unparsed(ip).reads = ip /\ Unparsed(ip).ok = FALSE
    BY DEF Unparsed
  <2> QED BY <1>1, <2>1, <2>2
<1>4. CASE ~(f.len < at + need)
  <2>1. /\ Transport(f, v, at).reads = Larger(ip, at + need)
        /\ Transport(f, v, at).at = at /\ Transport(f, v, at).ip_version = v
        /\ Transport(f, v, at).protocol = f.proto
    BY <1>4 DEF Transport, need, ip
  <2>2. Larger(ip, at + need) \in {ip, at + need}
    BY DEF Larger
  <2>3. ip <= f.len /\ at + need <= f.len /\ at + need \in Nat
    BY <1>1, <1>4
  <2>4. f.proto = "tcp" => f.len >= at + 20
    BY <1>2, <2>3
  <2> QED BY <1>1, <2>1, <2>2, <2>3, <2>4, SMTT(30)
<1> QED BY <1>3, <1>4

\* packet_parse_raw gives up before the transport part, or is in a frame
\* that holds the whole IP header.
LEMMA ParsedFrame ==
    ASSUME NEW f \in Frames \cup Shapes
    PROVE  \/ \E n \in Nat : packet_parse_raw(f) = Unparsed(n) /\ n <= f.len
           \/ /\ packet_parse_raw(f) = Transport(f, 4, EthOffset(f) + 4 * f.ihl)
              /\ f.len >= EthOffset(f) + IpHeader(4)
           \/ /\ packet_parse_raw(f) = Transport(f, 6, EthOffset(f) + IpHeader(6))
              /\ f.len >= EthOffset(f) + IpHeader(6)
<1> DEFINE eth == EthOffset(f)
<1>1. f.len \in Nat /\ eth \in Nat
  BY HeaderTyped
<1>2. IpHeader(4) = 20 /\ IpHeader(6) = 40
  BY DEF IpHeader
<1>3. /\ f.vlan \in BOOLEAN
      /\ f.vlan => eth = 18
      /\ ~f.vlan => eth = 14
  BY PacketPathAssumption DEF EthOffset
<1> HIDE DEF eth
<1>4. CASE f.len < 14
  BY <1>1, <1>3, <1>4 DEF packet_parse_raw, eth
<1>5. CASE f.len >= 14 /\ f.vlan /\ f.len < 18
  BY <1>1, <1>3, <1>5 DEF packet_parse_raw, eth
<1>6. CASE f.len >= eth
  <2>1. ~(f.len < 14) /\ ~(f.len >= 14 /\ f.vlan /\ f.len < 18)
    BY <1>1, <1>3, <1>6
  <2>2. CASE f.type = "ipv4"
    <3>1. packet_parse_raw(f) = IF f.len < eth + IpHeader(4) THEN Unparsed(eth)
                                ELSE IF f.fragment THEN Unparsed(eth + IpHeader(4))
                                ELSE Transport(f, 4, eth + 4 * f.ihl)
      BY <1>6, <2>1, <2>2 DEF packet_parse_raw, eth
    <3> QED BY <1>1, <1>2, <1>6, <3>1 DEF eth
  <2>3. CASE f.type = "ipv6"
    <3>1. packet_parse_raw(f) = IF f.len < eth + IpHeader(6) THEN Unparsed(eth)
                                ELSE Transport(f, 6, eth + IpHeader(6))
      BY <1>6, <2>1, <2>3 DEF packet_parse_raw, eth
    <3> QED BY <1>1, <1>2, <1>6, <3>1 DEF eth
  <2>4. CASE f.type \notin {"ipv4", "ipv6"}
    BY <1>1, <1>6, <2>1, <2>4 DEF packet_parse_raw, eth
  <2> QED BY <2>2, <2>3, <2>4
<1> QED BY <1>1, <1>3, <1>4, <1>5, <1>6

\* The second parser finds the TCP header where the first one found it.
LEMMA SecondLook ==
    ASSUME NEW f \in Frames \cup Shapes
    PROVE  LET pkt == packet_parse_raw(f)
               seq == extract_tcp_seq_num(f, pkt)
           IN  /\ pkt.reads <= f.len
               /\ pkt.ok /\ pkt.protocol = "tcp" =>
                     seq.ok /\ seq.at = pkt.at /\ seq.payload_len <= f.len - seq.at
<1> DEFINE pkt == packet_parse_raw(f)
           seq == extract_tcp_seq_num(f, pkt)
           at == TcpOffset(f, pkt)
           body == at + 4 * f.doff
<1>1. /\ f.len \in Nat /\ 4 * f.ihl \in Nat /\ 4 * f.doff \in Nat
      /\ EthOffset(f) \in Nat /\ IpHeader(6) = 40 /\ IpHeader(4) = 20
  BY HeaderTyped DEF IpHeader
<1>2. /\ pkt.reads <= f.len
      /\ pkt.ok => /\ pkt.at = at /\ at \in Nat
                   /\ pkt.protocol = "tcp" => f.len >= at + 20
  <2>1. CASE \E n \in Nat : pkt = Unparsed(n) /\ n <= f.len
    BY <2>1 DEF Unparsed
  <2>2. CASE /\ pkt = Transport(f, 4, EthOffset(f) + 4 * f.ihl)
             /\ f.len >= EthOffset(f) + IpHeader(4)
    <3>1. EthOffset(f) + 4 * f.ihl \in Nat /\ 4 \in {4, 6} /\ 4 # 6
      BY <1>1
    <3> DEFINE start == EthOffset(f) + 4 * f.ihl
    <3> HIDE DEF start, pkt
    <3>2. /\ pkt.reads <= f.len
          /\ pkt.ok => /\ pkt.at = start /\ pkt.ip_version = 4 /\ pkt.protocol = f.proto
                       /\ f.proto = "tcp" => f.len >= start + 20
      BY <2>2, <3>1, TransportInside DEF start
    <3>3. pkt.ok => at = start
      BY <3>2 DEF TcpOffset, start
    <3> QED BY <3>1, <3>2, <3>3 DEF start
  <2>3. CASE /\ pkt = Transport(f, 6, EthOffset(f) + IpHeader(6))
             /\ f.len >= EthOffset(f) + IpHeader(6)
    <3>1. EthOffset(f) + IpHeader(6) \in Nat /\ 6 \in {4, 6}
      BY <1>1
    <3> DEFINE start == EthOffset(f) + IpHeader(6)
    <3> HIDE DEF start, pkt
    <3>2. /\ pkt.reads <= f.len
          /\ pkt.ok => /\ pkt.at = start /\ pkt.ip_version = 6 /\ pkt.protocol = f.proto
                       /\ f.proto = "tcp" => f.len >= start + 20
      BY <2>3, <3>1, TransportInside DEF start
    <3>3. pkt.ok => at = start
      BY <1>1, <3>2 DEF TcpOffset, start
    <3> QED BY <3>1, <3>2, <3>3 DEF start
  <2> QED BY <2>1, <2>2, <2>3, ParsedFrame
<1>3. ASSUME pkt.ok, pkt.protocol = "tcp"
      PROVE  seq.ok /\ seq.at = pkt.at /\ seq.payload_len <= f.len - seq.at
  <2> HIDE DEF pkt
  <2>1. at \in Nat /\ pkt.at = at /\ f.len >= at + 20 /\ ~(f.len < at + 20)
    BY <1>1, <1>2, <1>3
  <2> HIDE DEF at
  <2>2. seq = [ok |-> TRUE, at |-> at,
               payload_len |-> IF body < f.len THEN f.len - body ELSE 0]
    BY <1>3, <2>1 DEF extract_tcp_seq_num, at
  <2>3. seq.ok /\ seq.at = at
        /\ seq.payload_len = IF body < f.len THEN f.len - body ELSE 0
    BY <2>2
  <2> HIDE DEF seq
  <2> QED BY <1>1, <2>1, <2>3
<1> QED BY <1>2, <1>3

\* What the last packet shows about the parsers.
LEMMA NextParsers ==
    ASSUME ReadsInside /\ ParsersAgree, [Next]_vars
    PROVE  (ReadsInside /\ ParsersAgree)'
<1>1. CASE UNCHANGED vars
  BY <1>1 DEF vars, ReadsInside, ParsersAgree
<1>2. ASSUME NEW f \in Frames \cup Shapes, Unknown(f)
      PROVE  (ReadsInside /\ ParsersAgree)'
  <2>1. last'.frame = f /\ last'.pkt = packet_parse_raw(f) /\ ~last'.pkt.ok
    BY <1>2 DEF Unknown, Nothing
  <2> QED BY <2>1, SecondLook DEF ReadsInside, ParsersAgree
<1>3. ASSUME NEW f \in Frames \cup Shapes, Packet(f)
      PROVE  (ReadsInside /\ ParsersAgree)'
  <2> DEFINE p == packet_parse_raw(f)
  <2>1. PICK verdict : last' =
           [frame |-> f, pkt |-> p, seq |-> extract_tcp_seq_num(f, p),
            dns |-> Dns(f, p), flow |-> Enriched(f, p),
            event |-> flow_tracker_update_single(p),
            verdict |-> verdict, tracked |-> f.src \in DOMAIN sources']
    BY <1>3, Zenon DEF Packet
  <2>2. last'.frame = f /\ last'.pkt = p /\ last'.seq = extract_tcp_seq_num(f, p)
    BY <2>1
  <2> QED BY <2>2, SecondLook, SMTT(30) DEF ReadsInside, ParsersAgree
<1> QED BY <1>1, <1>2, <1>3 DEF Next

\* For every frame, with any ihl, data offset, tag and length, no parser looks
\* behind the end of the frame, and the two that look for the TCP header look
\* at the same place.
THEOREM ParsersInside == Spec => [](ReadsInside /\ ParsersAgree)
<1>1. Init => ReadsInside /\ ParsersAgree
  <2> SUFFICES ASSUME Init PROVE ReadsInside /\ ParsersAgree
    OBVIOUS
  <2>1. last.pkt = Unparsed(0) /\ last.frame = CHOOSE f \in Frames : TRUE
    BY DEF Init, Nothing
  <2>2. last.frame \in Frames
    BY <2>1, PacketPathAssumption
  <2>3. last.frame.len \in Nat
    BY <2>2, FrameTyped
  <2>4. last.pkt.reads = 0 /\ last.pkt.ok = FALSE
    BY <2>1 DEF Unparsed
  <2> QED BY <2>3, <2>4 DEF ReadsInside, ParsersAgree
<1>2. (ReadsInside /\ ParsersAgree) /\ [Next]_vars => (ReadsInside /\ ParsersAgree)'
  BY NextParsers
<1> QED BY <1>1, <1>2, PTL DEF Spec

\* No parser looks behind the end of the frame.
THEOREM ReadInsideFrame == Spec => []ReadsInside
  BY ParsersInside, PTL

-----------------------------------------------------------------------------
(* The names of DNS queries                                                *)

\* Names of one label or more.  191 is the longest label the loop takes for
\* one; no name has labels of more than 63 characters.
Names ==
    {labels \in Seq(Nat) : /\ Len(labels) > 0
                           /\ \A k \in 1 .. Len(labels) : labels[k] \in 1 .. 191}

\* What DnsNameExact says of one name, about the report d of these bytes.
NamedIn(d, bytes, labels) ==
    LET name == Encoded(labels)
        size == Len(name) - 2
    IN  /\ d.kind = "dns_query"
        /\ Len(bytes) >= Len(name)
        /\ SubSeq(bytes, 1, Len(name)) = name
        => /\ d.name = (IF size < NameMax THEN size ELSE NameMax)
           /\ d.typed = IF Len(bytes) >= Len(name) + 2 THEN Len(name) + 1 ELSE 0

ShortOf(d, bytes) == d.name > 0 => d.name < Len(bytes)

\* parse_dns_payload on a frame: what it says of a query and of the rest.
LEMMA QueryReport ==
    ASSUME NEW f \in Frames \cup Shapes, NEW pkt
    PROVE  LET d == Dns(f, pkt)
               w == DnsWalk(f.bytes, NameMax)
           IN  \/ d.kind # "dns_query" /\ d.name = 0
               \/ /\ d.name = w.name
                  /\ d.typed = IF ~w.jumped /\ w.at + 2 <= Len(f.bytes)
                               THEN w.at + 1 ELSE 0
<1> DEFINE at == DnsOffset(f, pkt)
           w == DnsWalk(f.bytes, NameMax)
           reply == pkt.src_port = PORT_DNS
<1>0. /\ NoDns.kind = "none" /\ NoDns.name = 0 /\ "none" # "dns_query"
      /\ [NoDns EXCEPT !.kind = "dns_reply"].kind = "dns_reply"
      /\ [NoDns EXCEPT !.kind = "dns_reply"].name = 0 /\ "dns_reply" # "dns_query"
  BY DEF NoDns
<1> HIDE DEF at, w
<1>1. CASE at = 0 \/ f.len - at < 12
  <2>1. Dns(f, pkt) = NoDns
    BY <1>1 DEF Dns, parse_dns_payload, at
  <2> QED BY <1>0, <2>1
<1>2. CASE ~(at = 0 \/ f.len - at < 12) /\ reply
  <2>1. Dns(f, pkt) = [NoDns EXCEPT !.kind = "dns_reply"]
    BY <1>2 DEF Dns, parse_dns_payload, at
  <2> QED BY <1>0, <2>1
<1>3. CASE ~(at = 0 \/ f.len - at < 12) /\ ~reply /\ ~f.questions
  <2>1. Dns(f, pkt) = NoDns
    BY <1>3 DEF Dns, parse_dns_payload, at
  <2> QED BY <1>0, <2>1
<1>4. CASE ~(at = 0 \/ f.len - at < 12) /\ ~reply /\ f.questions
  <2>1. Dns(f, pkt) =
           [kind |-> "dns_query", name |-> w.name,
            typed |-> IF ~w.jumped /\ w.at + 2 <= Len(f.bytes) THEN w.at + 1 ELSE 0]
    BY <1>4 DEF Dns, parse_dns_payload, at, w
  <2> QED BY <2>1 DEF w
<1> QED BY <1>1, <1>2, <1>3, <1>4

\* A query is reported with its name, whatever the name.
LEMMA QueryNamed ==
    ASSUME NEW f \in Frames \cup Shapes, NEW pkt
    PROVE  /\ ShortOf(Dns(f, pkt), f.bytes)
           /\ \A labels \in Names : NamedIn(Dns(f, pkt), f.bytes, labels)
<1> DEFINE bytes == f.bytes
           d == Dns(f, pkt)
           w == DnsWalk(bytes, NameMax)
<1>1. bytes \in Seq(0 .. 255) /\ NameMax \in Nat
  BY PacketPathAssumption
<1>2. \/ d.kind # "dns_query" /\ d.name = 0
      \/ /\ d.name = w.name
         /\ d.typed = IF ~w.jumped /\ w.at + 2 <= Len(bytes) THEN w.at + 1 ELSE 0
  BY QueryReport
<1>3. w.name > 0 => w.name < Len(bytes)
  BY <1>1, WalkEnds, Zenon
<1> HIDE DEF d, w, bytes
<1>4. ShortOf(d, bytes)
  BY <1>2, <1>3 DEF ShortOf
<1>5. ASSUME NEW labels \in Names PROVE NamedIn(d, bytes, labels)
  <2> DEFINE name == Encoded(labels)
             n == Len(labels)
  <2>1. SUFFICES ASSUME d.kind = "dns_query", Len(bytes) >= Len(name),
                        SubSeq(bytes, 1, Len(name)) = name
                 PROVE  /\ d.name = KeptOf(Len(name), NameMax)
                        /\ d.typed = IF Len(bytes) >= Len(name) + 2
                                     THEN Len(name) + 1 ELSE 0
    BY DEF NamedIn, KeptOf
  <2>2. /\ labels \in Seq(Nat) /\ n \in Nat \ {0}
        /\ \A k \in 1 .. n : labels[k] \in 1 .. 191
    BY DEF Names
  <2>3. bytes \in Seq(Nat)
    <3>1. 0 .. 255 \subseteq Nat
      OBVIOUS
    <3> QED BY <1>1, <3>1, SeqOfMore, ZenonT(30)
  <2>4. PICK start : Marks(bytes, n, start) /\ start[n] = Len(name)
    BY <2>1, <2>2, <2>3, EncodedMarks, Zenon
  <2>5. Resting(w, start[n], KeptOf(start[n], NameMax))
    BY <1>1, <2>2, <2>4, WalkExact DEF w
  <2> HIDE DEF name, n
  <2>6. w.at = Len(name) /\ w.name = KeptOf(Len(name), NameMax) /\ w.jumped = FALSE
    BY <2>4, <2>5 DEF Resting
  <2>7. start[n] \in Nat
    BY <2>2, <2>4 DEF Marks
  <2>8. Len(name) \in Nat /\ Len(bytes) \in Nat
    BY <2>3, <2>4, <2>7
  <2>9. /\ d.name = w.name
        /\ d.typed = IF ~w.jumped /\ w.at + 2 <= Len(bytes) THEN w.at + 1 ELSE 0
    BY <1>2, <2>1
  <2>10. d.typed = IF Len(name) + 2 <= Len(bytes) THEN Len(name) + 1 ELSE 0
    BY <2>6, <2>9
  <2>11. Len(name) + 2 <= Len(bytes) <=> Len(bytes) >= Len(name) + 2
    BY <2>8
  <2> QED BY <2>6, <2>9, <2>10, <2>11
<1> QED BY <1>4, <1>5 DEF d, bytes

\* What the last packet shows about names.
NameInv ==
    /\ ShortOf(last.dns, last.frame.bytes)
    /\ \A labels \in Names : NamedIn(last.dns, last.frame.bytes, labels)

\* Without a query nothing is said about a name.
LEMMA NoName ==
    ASSUME NEW bytes
    PROVE  ShortOf(NoDns, bytes) /\ \A labels : NamedIn(NoDns, bytes, labels)
<1>1. NoDns.kind = "none" /\ NoDns.name = 0 /\ "none" # "dns_query"
  BY DEF NoDns
<1>2. ~(0 > 0)
  OBVIOUS
<1> QED BY <1>1, <1>2 DEF ShortOf, NamedIn

\* Every frame keeps it, whatever its bytes are.
LEMMA NextNames ==
    ASSUME NameInv, [Next]_vars
    PROVE  NameInv'
<1>1. CASE UNCHANGED vars
  BY <1>1 DEF vars, NameInv
<1>2. ASSUME NEW f \in Frames \cup Shapes, Unknown(f)
      PROVE  NameInv'
  <2>1. last'.dns = NoDns
    BY <1>2 DEF Unknown, Nothing
  <2> QED BY <2>1, NoName DEF NameInv
<1>3. ASSUME NEW f \in Frames \cup Shapes, Packet(f)
      PROVE  NameInv'
  <2> DEFINE p == packet_parse_raw(f)
  <2>1. PICK verdict : last' =
           [frame |-> f, pkt |-> p, seq |-> extract_tcp_seq_num(f, p),
            dns |-> Dns(f, p), flow |-> Enriched(f, p),
            event |-> flow_tracker_update_single(p),
            verdict |-> verdict, tracked |-> f.src \in DOMAIN sources']
    BY <1>3, Zenon DEF Packet
  <2>2. last'.frame = f /\ last'.dns = Dns(f, p)
    BY <2>1
  <2> QED BY <2>2, QueryNamed, SMTT(30) DEF NameInv
<1> QED BY <1>1, <1>2, <1>3 DEF Next

\* A query whose name is complete is reported with the name's length, cut at
\* NameMax, and the type behind it, for every name and not only for those
\* TLC tries: parse_dns_payload's loop takes each label once and stops at the
\* 0.  No report has more characters than have arrived.
THEOREM EveryNameExact == Spec => []NameInv
<1>1. Init => NameInv
  <2> SUFFICES ASSUME Init PROVE NameInv
    OBVIOUS
  <2>1. last.dns = NoDns
    BY DEF Init, Nothing
  <2> QED BY <2>1, NoName DEF NameInv
<1>2. NameInv /\ [Next]_vars => NameInv'
  BY NextNames
<1> QED BY <1>1, <1>2, PTL DEF Spec

\* The names TLC tries are among them.
THEOREM NamesAreExact == Spec => []DnsNameExact
<1>1. {<<1>>, <<2>>, <<1, 1>>, <<1, 2>>} \subseteq Names
  <2>1. <<1>> \in Names /\ <<2>> \in Names
    BY DEF Names
  <2>2. <<1, 1>> \in Names /\ <<1, 2>> \in Names
    BY DEF Names
  <2> QED BY <2>1, <2>2
<1>2. NameInv => DnsNameExact
  <2> SUFFICES ASSUME NameInv PROVE DnsNameExact
    OBVIOUS
  <2>1. ShortOf(last.dns, last.frame.bytes)
    BY DEF NameInv
  <2>2. \A labels \in {<<1>>, <<2>>, <<1, 1>>, <<1, 2>>} :
           NamedIn(last.dns, last.frame.bytes, labels)
    BY <1>1 DEF NameInv
  <2> QED BY <2>1, <2>2 DEF DnsNameExact, ShortOf, NamedIn
<1> QED BY <1>2, EveryNameExact, PTL

-----------------------------------------------------------------------------
(* The sizes of the tables                                                 *)

\* A table is a finite one of at most so many entries.
Holds(table, limit) ==
    IsFiniteSet(DOMAIN table) /\ Cardinality(DOMAIN table) <= limit

\* TypeOK, with what makes cardinalities numbers.
TableInv ==
    /\ Holds(sources, MaxSources) /\ Holds(bw_records, MaxBw)
    /\ \A s \in DOMAIN sources :
          IsFiniteSet(sources[s]) /\ Cardinality(sources[s]) <= MaxPorts
    /\ \A k \in DOMAIN bw_records : bw_records[k].time \in 0 .. now
    /\ now \in 1 .. MaxTime /\ packets \in 0 .. MaxPackets
    /\ counts \in [spike : Nat, scan : Nat, drop : Nat]
    /\ counts.spike + counts.scan + counts.drop <= packets
    /\ last.frame \in Frames \cup Shapes

\* find_src and find_bw keep a table within its limit.
LEMMA FoundHolds ==
    ASSUME NEW table, NEW key, NEW limit \in Nat, NEW fresh, Holds(table, limit)
    PROVE  Holds(FindOrCreate(table, key, limit, fresh), limit)
<1>1. CASE key \in DOMAIN table \/ Cardinality(DOMAIN table) >= limit
  BY <1>1 DEF FindOrCreate
<1>2. CASE key \notin DOMAIN table /\ ~(Cardinality(DOMAIN table) >= limit)
  <2>1. FindOrCreate(table, key, limit, fresh) = Insert(table, key, fresh)
    BY <1>2 DEF FindOrCreate
  <2>2. DOMAIN Insert(table, key, fresh) = DOMAIN table \cup {key}
    BY DEF Insert
  <2>3. IsFiniteSet(DOMAIN table) /\ Cardinality(DOMAIN table) \in Nat
    BY FS_CardinalityType DEF Holds
  <2>4. /\ IsFiniteSet(DOMAIN table \cup {key})
        /\ Cardinality(DOMAIN table \cup {key}) = Cardinality(DOMAIN table) + 1
    BY <1>2, <2>3, FS_AddElement
  <2> QED BY <1>2, <2>1, <2>2, <2>3, <2>4 DEF Holds
<1> QED BY <1>1, <1>2

\* Replacing an entry leaves the keys as they were.
LEMMA ReplacedHolds ==
    ASSUME NEW table, NEW key \in DOMAIN table, NEW limit, NEW value,
           Holds(table, limit)
    PROVE  Holds(Insert(table, key, value), limit)
<1>1. DOMAIN Insert(table, key, value) = DOMAIN table
  BY DEF Insert
<1> QED BY <1>1 DEF Holds

\* The ports of a source keep to the size of their array.
LEMMA PortsHold ==
    ASSUME NEW table, NEW src, NEW port, src \in DOMAIN table,
           IsFiniteSet(table[src]), Cardinality(table[src]) <= MaxPorts
    PROVE  LET p == ScanCheck(table, src, port).ports
           IN  IsFiniteSet(p) /\ Cardinality(p) <= MaxPorts
<1> DEFINE p == ScanCheck(table, src, port).ports
<1>0. MaxPorts \in Nat /\ Cardinality(table[src]) \in Nat
  BY AnomalyAssumption, FS_CardinalityType
<1>1. \/ p \in {{}, table[src]}
      \/ /\ p = table[src] \cup {port} /\ port \notin table[src]
         /\ Cardinality(table[src]) < MaxPorts
  <2>1. CASE port > 0 /\ port \notin table[src]
    <3> DEFINE q == IF Cardinality(table[src]) < MaxPorts
                    THEN table[src] \cup {port} ELSE table[src]
    <3>1. ScanCheck(table, src, port) = [ports |-> q, scan |-> Cardinality(q) >= ScanPorts]
      BY <2>1 DEF ScanCheck
    <3>2. \/ q = table[src]
          \/ q = table[src] \cup {port} /\ Cardinality(table[src]) < MaxPorts
      OBVIOUS
    <3> HIDE DEF q
    <3>3. p = q
      BY <3>1
    <3> HIDE DEF p
    <3> QED BY <2>1, <3>2, <3>3
  <2>2. CASE ~(port > 0 /\ port \notin table[src])
    BY <2>2 DEF ScanCheck
  <2> QED BY <2>1, <2>2
<1>2. IsFiniteSet({}) /\ Cardinality({}) = 0
  BY FS_EmptySet
<1>3. port \notin table[src] =>
         /\ IsFiniteSet(table[src] \cup {port})
         /\ Cardinality(table[src] \cup {port}) = Cardinality(table[src]) + 1
  BY FS_AddElement
<1> HIDE DEF p
<1>4. IsFiniteSet(p) /\ Cardinality(p) <= MaxPorts
  BY <1>0, <1>1, <1>2, <1>3, SMTT(30)
<1> QED BY <1>4 DEF p

\* One packet, as the tables see it.
LEMMA PacketTables ==
    ASSUME TableInv, NEW f \in Frames \cup Shapes, Packet(f)
    PROVE  TableInv'
<1> DEFINE p == packet_parse_raw(f)
           flow == [src |-> f.src, dst |-> f.dst, sport |-> p.src_port,
                    dport |-> p.dst_port, flags |-> p.tcp_flags, bytes |-> f.len]
<1>0. /\ MaxSources \in Nat /\ MaxPorts \in Nat /\ MaxBw \in Nat
      /\ MaxTime \in Nat /\ MaxPackets \in Nat
  BY AnomalyAssumption, PacketPathAssumption, SMTT(30)
<1>1. PICK ts \in now .. MaxTime, verdict \in {"none", "scan", "spike", "drop"} :
         /\ anomaly_check_flow(flow, ts, verdict)
         /\ now' = ts
         /\ last' = [frame |-> f, pkt |-> p, seq |-> extract_tcp_seq_num(f, p),
                     dns |-> Dns(f, p), flow |-> Enriched(f, p),
                     event |-> flow_tracker_update_single(p),
                     verdict |-> verdict, tracked |-> f.src \in DOMAIN sources']
  BY ZenonT(30) DEF Packet
<1>2. packets' = packets + 1 /\ packets < MaxPackets
  BY ZenonT(30) DEF Packet
<1> DEFINE known == FindOrCreate(sources, f.src, MaxSources, {})
           ports == ScanCheck(known, f.src, p.dst_port)
           key == <<f.src, f.dst, p.src_port, p.dst_port>>
           fresh == [bytes |-> 0, time |-> 0]
           table == FindOrCreate(bw_records, key, MaxBw, fresh)
           spike == key \in DOMAIN table /\ Rate(table[key], ts) > SpikeRate
<1>3. /\ sources' = IF ports.ports = {} THEN known ELSE Insert(known, f.src, ports.ports)
      /\ bw_records' = IF ports.scan THEN bw_records
                       ELSE IF spike \/ key \notin DOMAIN table THEN table
                       ELSE Insert(table, key, AddBytes(table[key], f.len, ts))
      /\ counts' = IF verdict = "none" THEN counts
                   ELSE [counts EXCEPT ![verdict] = @ + 1]
  BY <1>1, ZenonT(30) DEF anomaly_check_flow
<1>4. /\ Holds(known, MaxSources) /\ Holds(table, MaxBw)
  BY <1>0, FoundHolds, Zenon DEF TableInv
<1>5. /\ now \in 1 .. MaxTime /\ now \in Nat /\ ts \in Nat /\ ts >= now /\ ts \in 1 .. MaxTime
  <2>1. now \in 1 .. MaxTime /\ ts \in now .. MaxTime
    BY Zenon DEF TableInv
  <2> QED BY <1>0, <2>1, SMTT(30)
<1>6. \A s \in DOMAIN known :
         IsFiniteSet(known[s]) /\ Cardinality(known[s]) <= MaxPorts
  <2>1. known = sources \/ known = Insert(sources, f.src, {})
    BY FindOrCreateOne
  <2>2. IsFiniteSet({}) /\ Cardinality({}) = 0
    BY FS_EmptySet, SMTT(30)
  <2>3. \A s \in DOMAIN sources :
          IsFiniteSet(sources[s]) /\ Cardinality(sources[s]) <= MaxPorts
    BY DEF TableInv
  <2> HIDE DEF known
  <2>4. CASE known = Insert(sources, f.src, {})
    <3>1. DOMAIN known = DOMAIN sources \cup {f.src} /\ known[f.src] = {}
          /\ \A s \in DOMAIN sources \ {f.src} : known[s] = sources[s]
      BY <2>4, SMTT(30) DEF Insert
    <3> QED BY <1>0, <2>2, <2>3, <3>1, SMTT(30)
  <2> QED BY <2>1, <2>3, <2>4, SMTT(30)
<1>7. \A k \in DOMAIN table : table[k].time \in 0 .. ts
  <2>1. table = bw_records \/ table = Insert(bw_records, key, fresh)
    BY FindOrCreateOne, SMTT(30)
  <2>2. \A k \in DOMAIN bw_records : bw_records[k].time \in 0 .. ts
    BY <1>5, SMTT(30) DEF TableInv
  <2> HIDE DEF table
  <2>4. CASE table = Insert(bw_records, key, fresh)
    <3>1. DOMAIN table = DOMAIN bw_records \cup {key} /\ table[key].time = 0
          /\ \A s \in DOMAIN bw_records \ {key} : table[s] = bw_records[s]
      BY <2>4, SMTT(30) DEF Insert
    <3> QED BY <1>5, <2>2, <3>1, SMTT(30)
  <2> QED BY <2>1, <2>2, <2>4, SMTT(30)
<1> HIDE DEF known, table, spike
<1>8. /\ Holds(sources', MaxSources)
      /\ \A s \in DOMAIN sources' :
            IsFiniteSet(sources'[s]) /\ Cardinality(sources'[s]) <= MaxPorts
  <2>1. CASE ports.ports = {}
    BY <1>3, <1>4, <1>6, <2>1, ZenonT(30)
  <2>2. CASE ports.ports # {}
    <3>1. f.src \in DOMAIN known
      BY <2>2, Zenon DEF ScanCheck
    <3>2. IsFiniteSet(ports.ports) /\ Cardinality(ports.ports) <= MaxPorts
      BY <1>6, <3>1, PortsHold, SMTT(30)
    <3> HIDE DEF ports
    <3>3. sources' = Insert(known, f.src, ports.ports)
      BY <1>3, <2>2, SMTT(30)
    <3>4. Holds(sources', MaxSources)
      BY <1>4, <3>1, <3>3, ReplacedHolds
    <3>5. /\ DOMAIN sources' = DOMAIN known /\ sources'[f.src] = ports.ports
          /\ \A s \in DOMAIN known \ {f.src} : sources'[s] = known[s]
      BY <3>1, <3>3, SMTT(30) DEF Insert
    <3> QED BY <1>6, <3>2, <3>4, <3>5, SMTT(30)
  <2> QED BY <2>1, <2>2, ZenonT(30)
<1> HIDE DEF ports
<1>9. /\ Holds(bw_records', MaxBw)
      /\ \A k \in DOMAIN bw_records' : bw_records'[k].time \in 0 .. ts
  <2>1. CASE bw_records' = bw_records
    BY <1>5, <2>1, SMTT(30) DEF TableInv
  <2>2. CASE bw_records' = table
    BY <1>4, <1>7, <2>2, SMTT(30)
  <2>3. CASE key \in DOMAIN table
             /\ bw_records' = Insert(table, key, AddBytes(table[key], f.len, ts))
    <3>1. Holds(bw_records', MaxBw)
      BY <1>4, <2>3, ReplacedHolds, SMTT(30)
    <3>2. /\ DOMAIN bw_records' = DOMAIN table
          /\ bw_records'[key].time = ts
          /\ \A k \in DOMAIN table \ {key} : bw_records'[k] = table[k]
      BY <2>3, ZenonT(30) DEF Insert, AddBytes
    <3> QED BY <1>5, <1>7, <3>1, <3>2, SMTT(30)
  <2> QED BY <1>3, <2>1, <2>2, <2>3, Zenon
<1>10. /\ counts' \in [spike : Nat, scan : Nat, drop : Nat]
       /\ counts'.spike + counts'.scan + counts'.drop <= packets'
       /\ packets' \in 0 .. MaxPackets
  <2>1. /\ counts \in [spike : Nat, scan : Nat, drop : Nat]
        /\ counts.spike + counts.scan + counts.drop <= packets
        /\ packets \in 0 .. MaxPackets
    BY Zenon DEF TableInv
  <2>2. packets' \in 0 .. MaxPackets
    BY <1>0, <1>2, <2>1, SMTT(30)
  <2>3. CASE verdict = "none"
    BY <1>0, <1>2, <1>3, <2>1, <2>2, <2>3, SMTT(30)
  <2>4. ASSUME NEW v \in {"scan", "spike", "drop"}, verdict = v
        PROVE  counts' = [counts EXCEPT ![v] = @ + 1]
    BY <1>3, <2>4
  <2>5. CASE verdict = "scan"
    BY <1>0, <1>2, <2>1, <2>2, <2>4, <2>5, SMTT(30)
  <2>6. CASE verdict = "spike"
    BY <1>0, <1>2, <2>1, <2>2, <2>4, <2>6, SMTT(30)
  <2>7. CASE verdict = "drop"
    BY <1>0, <1>2, <2>1, <2>2, <2>4, <2>7, SMTT(30)
  <2> QED BY <1>1, <2>3, <2>5, <2>6, <2>7, Zenon
<1>11. last'.frame = f /\ now' = ts
  BY <1>1, ZenonT(30)
<1> QED BY <1>5, <1>8, <1>9, <1>10, <1>11 DEF TableInv

\* Every step keeps the tables within their limits.
LEMMA NextTables ==
    ASSUME TableInv, [Next]_vars
    PROVE  TableInv'
<1>1. CASE UNCHANGED vars
  BY <1>1, Zenon DEF vars, detector, TableInv
<1>2. ASSUME NEW f \in Frames \cup Shapes, Unknown(f)
      PROVE  TableInv'
  <2>1. last'.frame = f
    BY <1>2 DEF Unknown, Nothing
  <2>2. /\ UNCHANGED <<sources, bw_records, counts, now>>
        /\ packets < MaxPackets /\ packets' = packets + 1
    BY <1>2, SMTT(30) DEF Unknown, detector
  <2>3. /\ packets' \in 0 .. MaxPackets
        /\ counts'.spike + counts'.scan + counts'.drop <= packets'
    BY <2>2, PacketPathAssumption DEF TableInv
  <2> QED BY <2>1, <2>2, <2>3 DEF TableInv
<1>3. ASSUME NEW f \in Frames \cup Shapes, Packet(f)
      PROVE  TableInv'
  BY <1>3, PacketTables, SMTT(30)
<1> QED BY <1>1, <1>2, <1>3 DEF Next

\* The detector's tables keep to the sizes of their arrays for every traffic,
\* no alarm is counted without a packet, and no entry is younger than now.
THEOREM TablesBounded == Spec => []TypeOK
<1>1. Init => TableInv
  <2> SUFFICES ASSUME Init PROVE TableInv
    OBVIOUS
  <2>1. /\ DOMAIN sources = {} /\ DOMAIN bw_records = {}
        /\ counts = [spike |-> 0, scan |-> 0, drop |-> 0]
        /\ now = 1 /\ packets = 0 /\ last = Nothing
    BY SMTT(30) DEF Init, anomaly_detector_create
  <2>2. last.frame = CHOOSE f \in Frames : TRUE
    BY <2>1 DEF Nothing
  <2>3. last.frame \in Frames
    BY <2>2, PacketPathAssumption
  <2>4. MaxSources \in Nat /\ MaxBw \in Nat /\ MaxTime \in Nat \ {0} /\ MaxPackets \in Nat
    BY AnomalyAssumption, PacketPathAssumption, SMTT(30)
  <2>5. Holds(sources, MaxSources) /\ Holds(bw_records, MaxBw)
    BY <2>1, <2>4, FS_EmptySet, SMTT(30) DEF Holds
  <2> QED BY <2>1, <2>3, <2>4, <2>5, SMTT(30) DEF TableInv
<1>2. TableInv /\ [Next]_vars => TableInv'
  BY NextTables
<1>3. TableInv => TypeOK
  <2> SUFFICES ASSUME TableInv PROVE TypeOK
    OBVIOUS
  <2>1. counts.spike \in Nat /\ counts.scan \in Nat /\ counts.drop \in Nat
    BY DEF TableInv
  <2>2. packets \in Nat /\ counts.spike + counts.scan + counts.drop <= packets
    BY DEF TableInv
  <2>3. counts.spike + counts.scan + counts.drop \in 0 .. packets
    BY <2>1, <2>2
  <2> QED BY <2>3 DEF TableInv, TypeOK, Holds
<1> QED BY <1>1, <1>2, <1>3, PTL DEF Spec
=============================================================================
