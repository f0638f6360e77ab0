------------------------------ MODULE Anomaly ------------------------------
(***************************************************************************)
(* The anomaly detector of the C probe (src/anomaly.c): a table of sources *)
(* with the ports they went to and a table of flows with the bytes they    *)
(* carried.  Entries are never removed.  Time and bytes are small units;   *)
(* a rate is computed in unsigned arithmetic of the size Word.             *)
(***************************************************************************)
EXTENDS Integers, Sequences, FiniteSets

CONSTANTS
    MaxSources, MaxPorts, MaxBw, \* 1024, 256 and 2048
    ScanPorts,   \* scan_port_threshold
    SpikeRate,   \* spike_threshold_bps
    BitsScale,   \* the factor 8 * 10^9 between bytes per ns and bits per s
    Word         \* 2^64

ASSUME AnomalyAssumption ==
    /\ MaxSources \in Nat /\ MaxPorts \in Nat \ {0} /\ MaxBw \in Nat
    /\ ScanPorts \in 1 .. MaxPorts /\ SpikeRate \in Nat
    /\ BitsScale \in Nat \ {0} /\ Word \in Nat \ {0}

VARIABLES
    sources,    \* source address -> the ports stored for it
    bw_records, \* flow -> bytes and time of its last update
    counts      \* spike_count, scan_count and drop_count

detector == <<sources, bw_records, counts>>

anomaly_detector_create ==
    /\ sources = <<>>
    /\ bw_records = <<>>
    /\ counts = [spike |-> 0, scan |-> 0, drop |-> 0]

Insert(table, key, value) ==
    [k \in DOMAIN table \cup {key} |-> IF k = key THEN value ELSE table[k]]

FindOrCreateUnbounded(table, key, limit, fresh) ==
    IF key \in DOMAIN table THEN table ELSE Insert(table, key, fresh)

\* find_src and find_bw: the table with an entry for the key, or as it was
\* when there is no room for a new one.
FindOrCreate(table, key, limit, fresh) ==
    IF key \in DOMAIN table \/ Cardinality(DOMAIN table) >= limit
    THEN table ELSE Insert(table, key, fresh)

ScanCheckNoDedup(table, src, port) ==
    IF src \in DOMAIN table /\ port > 0
    THEN [ports |-> IF Cardinality(table[src]) < MaxPorts
                    THEN table[src] \cup {port} ELSE table[src],
          scan |-> Cardinality(table[src]) + 1 >= ScanPorts]
    ELSE [ports |-> {}, scan |-> FALSE]

\* Port scan detection on the table with the source in it.
ScanCheck(table, src, port) ==
    IF src \in DOMAIN table /\ port > 0 /\ port \notin table[src]
    THEN LET ports == IF Cardinality(table[src]) < MaxPorts
                      THEN table[src] \cup {port} ELSE table[src]
         IN  [ports |-> ports, scan |-> Cardinality(ports) >= ScanPorts]
    ELSE [ports |-> {}, scan |-> FALSE]

\* All bytes of the flow so far over the time since its last packet.
Rate(bw, ts) ==
    IF bw.time > 0 /\ ts > bw.time
    THEN ((bw.bytes * BitsScale) % Word) \div (ts - bw.time)
    ELSE 0

AddBytesOfLast(bw, bytes, ts) == [bytes |-> bytes, time |-> ts]

AddBytes(bw, bytes, ts) == [bytes |-> bw.bytes + bytes, time |-> ts]

\* anomaly_check_flow: a scan ends the call before the flow is looked up, a
\* spike before its bytes are added.
anomaly_check_flow(flow, ts, verdict) ==
    LET known  == FindOrCreate(sources, flow.src, MaxSources, {})
        ports  == ScanCheck(known, flow.src, flow.dport)
        stored == IF ports.ports = {} THEN known
                  ELSE Insert(known, flow.src, ports.ports)
        key    == <<flow.src, flow.dst, flow.sport, flow.dport>>
        table  == FindOrCreate(bw_records, key, MaxBw, [bytes |-> 0, time |-> 0])
        spike  == key \in DOMAIN table /\ Rate(table[key], ts) > SpikeRate
    IN  /\ sources' = stored
        /\ verdict = IF ports.scan THEN "scan" ELSE IF spike THEN "spike"
                     ELSE IF "rst" \in flow.flags THEN "drop" ELSE "none"
        /\ bw_records' =
              IF ports.scan THEN bw_records
              ELSE IF spike \/ key \notin DOMAIN table THEN table
              ELSE Insert(table, key, AddBytes(table[key], flow.bytes, ts))
        /\ counts' = IF verdict = "none" THEN counts
                     ELSE [counts EXCEPT ![verdict] = @ + 1]
=============================================================================
