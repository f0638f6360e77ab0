---------------------------- MODULE FlowTracker ----------------------------
(***************************************************************************)
(* The flow table of the C probe (src/flow_tracker.c), driven the way the  *)
(* main loop drives it: every decoded packet calls                         *)
(* flow_tracker_update_single and, for TCP, check_tcp_retransmit; every    *)
(* poll of /proc/net hands flow_tracker_update an array of entries; every  *)
(* round drains the event buffer; stale records are cleaned up.  The       *)
(* entries are what struct proc_net_entry can hold: today's reader never   *)
(* fills one (see ProcNet), but the table does not rely on that.           *)
(*                                                                         *)
(* A flow key is a model value.  main builds packet keys with ip_version 4 *)
(* or 6 and flow_tracker_update builds its keys with ip_version 0, and     *)
(* find_record compares them with memcmp, so the two sets are disjoint.    *)
(* last_seen_ns is kept as an age that saturates just past the clean-up    *)
(* limit; the event buffer as its length and the size its newest event     *)
(* reports; the byte and packet totals of a record are read by nobody and  *)
(* are left out.                                                           *)
(***************************************************************************)
EXTENDS Integers, FiniteSets

CONSTANTS
    MaxFlows,   \* MAX_FLOWS: records in the table
    ProcKeys,   \* keys of /proc/net sockets
    PacketKeys, \* keys of captured packets
    ZeroKey,    \* the all-zero key of a record never used
    MaxQueue,   \* largest queue length /proc/net reports
    MaxBatch,   \* most entries of one /proc/net poll
    MaxAge,     \* max_age_ns, in clock ticks
    Segments,   \* TCP segments; syn means SYN or FIN, len is the payload's
    SeqMod,     \* sequence numbers are taken modulo SeqMod (2^32)
    AckSlots    \* entries of last_ack_per_flow (4096)

Keys      == ProcKeys \cup PacketKeys \cup {ZeroKey}
Slots     == 1 .. MaxFlows
MaxEvents == 2 * MaxFlows
Queue     == 0 .. MaxQueue
Entries   == [key : ProcKeys, rx : Queue, tx : Queue]
SegmentType == [syn : BOOLEAN, ack : BOOLEAN, seq : 0 .. SeqMod - 1, len : Nat]

ASSUME FlowTrackerAssumption ==
    /\ MaxFlows \in Nat \ {0}
    /\ MaxQueue \in Nat \ {0} /\ MaxBatch \in Nat /\ MaxAge \in Nat
    /\ ProcKeys \cap PacketKeys = {}
    /\ SeqMod \in Nat \ {0} /\ AckSlots \in Nat \ {0}
    /\ Segments \subseteq SegmentType

VARIABLES
    key, active, prev_rx, prev_tx, age, seq_expected, \* records[], by slot
    active_count,  \* records in use, as the code counts them
    event_count,   \* events buffered
    newest_bytes,  \* the bytes field of the newest buffered event
    pending,       \* how many entries flow_tracker_update has yet to reach
    last_ack, flow_idx, \* the static locals of check_tcp_retransmit
    gen,           \* history: how often each slot was allocated (0, 1, many)
    high,          \* history: end of the data seen from the slot's flow
    talked,        \* history: the slot's flow has sent a TCP segment
    verdict        \* what the last check_tcp_retransmit call answered

records == <<key, active, prev_rx, prev_tx, age, seq_expected, active_count>>
seqvars == <<last_ack, flow_idx, high, talked, verdict>>
vars == <<records, event_count, newest_bytes, pending, seqvars, gen>>

TypeOK ==
    /\ key \in [Slots -> Keys]
    /\ active \in [Slots -> BOOLEAN]
    /\ prev_rx \in [Slots -> Queue] /\ prev_tx \in [Slots -> Queue]
    /\ age \in [Slots -> 0 .. MaxAge + 1]
    /\ seq_expected \in [Slots -> 0 .. SeqMod - 1]
    /\ active_count \in 0 .. MaxFlows
    /\ event_count \in 0 .. MaxEvents
    /\ newest_bytes \in Nat
    /\ pending \in 0 .. MaxBatch
    /\ last_ack \in [0 .. AckSlots - 1 -> 0 .. SeqMod - 1]
    /\ flow_idx \in 0 .. AckSlots - 1
    /\ gen \in [Slots -> 0 .. 2]
    /\ high \in [Slots -> [end : Nat, wrapped : BOOLEAN]]
    /\ talked \in [Slots -> BOOLEAN]
    /\ verdict \in [kind : {"none", "retransmit", "dup_ack"},
                    segment : {"first", "later"}]

-----------------------------------------------------------------------------
(* flow_tracker_create: calloc zeroes every record.                        *)
Init ==
    /\ key = [s \in Slots |-> ZeroKey]
    /\ active = [s \in Slots |-> FALSE]
    /\ prev_rx = [s \in Slots |-> 0] /\ prev_tx = [s \in Slots |-> 0]
    /\ age = [s \in Slots |-> 0]
    /\ seq_expected = [s \in Slots |-> 0]
    /\ active_count = 0 /\ event_count = 0 /\ newest_bytes = 0
    /\ pending = 0
    /\ last_ack = [i \in 0 .. AckSlots - 1 |-> 0] /\ flow_idx = 0
    /\ gen = [s \in Slots |-> 0]
    /\ high = [s \in Slots |-> [end |-> 0, wrapped |-> FALSE]]
    /\ talked = [s \in Slots |-> FALSE]
    /\ verdict = [kind |-> "none", segment |-> "later"]

(* find_record's first loop: the records in use for k.                     *)
Matching(k) == {s \in Slots : active[s] /\ key[s] = k}

Free == {s \in Slots : ~active[s]}

(* find_record: the lowest record in use for k, else the lowest free one,  *)
(* else none (NULL).                                                       *)
FreeFirst(k) == IF Free # {} THEN Free ELSE Matching(k)

Candidates(k) == IF Matching(k) # {} THEN Matching(k) ELSE Free

Found(k, s) == s \in Candidates(k) /\ \A t \in Candidates(k) : s <= t

(* The side effect of find_record.  A free record only gets its key and    *)
(* active flag (first_seen_ns is read by nobody): prev_rx_queue,           *)
(* prev_tx_queue and seq_expected keep what the last flow left in them.    *)
(* The caller stamps last_seen_ns at once.                                 *)
Touch(k, s) ==
    /\ key' = [key EXCEPT ![s] = k]
    /\ active' = [active EXCEPT ![s] = TRUE]
    /\ active_count' = IF active[s] THEN active_count ELSE active_count + 1
    /\ age' = [age EXCEPT ![s] = 0]
    /\ gen' = IF active[s] \/ gen[s] = 2 THEN gen ELSE [gen EXCEPT ![s] = @ + 1]

AddEventOffByOne(bytes) ==
    IF event_count <= MaxEvents
    THEN event_count' = event_count + 1 /\ newest_bytes' = bytes
    ELSE UNCHANGED <<event_count, newest_bytes>>

(* add_event: silently ignored when the buffer is full.                    *)
AddEvent(bytes) ==
    IF event_count < MaxEvents
    THEN event_count' = event_count + 1 /\ newest_bytes' = bytes
    ELSE UNCHANGED <<event_count, newest_bytes>>

-----------------------------------------------------------------------------
(* flow_tracker_update, entered with the entries of one /proc/net poll.    *)
BeginUpdate ==
    /\ pending = 0
    /\ pending' \in 1 .. MaxBatch
    /\ UNCHANGED <<records, event_count, newest_bytes, seqvars, gen>>

DeltaUnguarded(new, old) == (new - old) % 65536

(* A queue that shrank counts as no traffic.                               *)
Delta(new, old) == IF new >= old THEN new - old ELSE 0

(* One turn of flow_tracker_update's loop, for the entry e.                *)
UpdateEntry(e) ==
    /\ pending > 0
    /\ pending' = pending - 1
    /\ \/ /\ Candidates(e.key) = {}
          /\ UNCHANGED <<records, event_count, newest_bytes, gen>>
       \/ \E s \in Slots :
             LET bytes == Delta(e.rx, prev_rx[s]) + Delta(e.tx, prev_tx[s])
             IN /\ Found(e.key, s)
                /\ Touch(e.key, s)
                /\ prev_rx' = [prev_rx EXCEPT ![s] = e.rx]
                /\ prev_tx' = [prev_tx EXCEPT ![s] = e.tx]
                /\ IF bytes > 0 THEN AddEvent(bytes)
                   ELSE UNCHANGED <<event_count, newest_bytes>>
                /\ UNCHANGED seq_expected
    /\ UNCHANGED seqvars

(* The packet loop of main for a packet without a TCP header to inspect:   *)
(* flow_tracker_update_single only.                                        *)
PlainPacket(k) ==
    /\ pending = 0
    /\ \/ /\ Candidates(k) = {}
          /\ UNCHANGED <<records, event_count, newest_bytes, gen, talked>>
       \/ \E s \in Slots : /\ Found(k, s)
                           /\ Touch(k, s)
                           /\ AddEvent(1)
                           /\ talked' = [talked EXCEPT ![s] = @ /\ active[s]]
                           /\ UNCHANGED <<prev_rx, prev_tx, seq_expected>>
    /\ UNCHANGED <<pending, last_ack, flow_idx, high, verdict>>

Behind(s, g) == seq_expected[s] # 0 /\ g.seq < seq_expected[s]

NextExpectedUnchecked(s, g) ==
    CASE g.syn -> (g.seq + 1) % SeqMod
      [] ~g.syn /\ ~Behind(s, g) -> (g.seq + g.len + 1) % SeqMod
      [] OTHER -> seq_expected[s]

(* check_tcp_retransmit: the record's next seq_expected ...                *)
NextExpected(s, g) ==
    CASE g.syn -> (g.seq + 1) % SeqMod
      [] ~g.syn /\ g.len > 0 /\ ~Behind(s, g) -> (g.seq + g.len) % SeqMod
      [] OTHER -> seq_expected[s]

PureAck(g) == ~g.syn /\ g.ack /\ g.len = 0

KindAfterUpdate(s, g) ==
    CASE ~g.syn /\ g.len > 0 /\ g.seq < NextExpected(s, g) -> "retransmit"
      [] PureAck(g) /\ last_ack[flow_idx] = g.seq /\ g.seq # 0 -> "dup_ack"
      [] OTHER -> "none"

(* ... and its answer.  Duplicate ACKs are looked up in a table indexed by *)
(* a counter of pure ACKs over all flows.                                  *)
Kind(s, g) ==
    CASE ~g.syn /\ g.len > 0 /\ Behind(s, g) -> "retransmit"
      [] PureAck(g) /\ last_ack[flow_idx] = g.seq /\ g.seq # 0 -> "dup_ack"
      [] OTHER -> "none"

(* Whether the segment is the first one of its flow (history).             *)
Position(s) == IF active[s] /\ talked[s] THEN "later" ELSE "first"

NextHigh(s, g) ==
    LET end == g.seq + (IF g.syn THEN 1 ELSE g.len)
    IN CASE g.syn -> [end |-> end, wrapped |-> end >= SeqMod]
         [] ~g.syn /\ g.len > 0 ->
                [end |-> IF end > high[s].end THEN end ELSE high[s].end,
                 wrapped |-> high[s].wrapped \/ end >= SeqMod]
         [] OTHER -> high[s]

(* The packet loop of main for a TCP packet whose header is readable:      *)
(* flow_tracker_update_single, then flow_tracker_check_tcp_retransmit,     *)
(* whose find_record meets the record the first call left, or NULL again.  *)
TcpPacket(k, g) ==
    /\ pending = 0
    /\ \/ /\ Candidates(k) = {}
          /\ UNCHANGED <<records, event_count, newest_bytes, gen, seqvars>>
       \/ \E s \in Slots :
             /\ Found(k, s)
             /\ Touch(k, s)
             /\ AddEvent(1)
             /\ seq_expected' = [seq_expected EXCEPT ![s] = NextExpected(s, g)]
             /\ verdict' = [kind |-> Kind(s, g), segment |-> Position(s)]
             /\ IF PureAck(g)
                THEN /\ last_ack' = [last_ack EXCEPT ![flow_idx] = g.seq]
                     /\ flow_idx' = (flow_idx + 1) % AckSlots
                ELSE UNCHANGED <<last_ack, flow_idx>>
             /\ high' = [high EXCEPT ![s] = NextHigh(s, g)]
             /\ talked' = [talked EXCEPT ![s] = TRUE]
             /\ UNCHANGED <<prev_rx, prev_tx>>
    /\ UNCHANGED pending

(* flow_tracker_get_events followed by flow_tracker_flush.                 *)
Drain ==
    /\ pending = 0 /\ event_count > 0
    /\ event_count' = 0
    /\ UNCHANGED <<records, newest_bytes, pending, seqvars, gen>>

StaleEarly(s) == active[s] /\ age[s] >= MaxAge

StaleUnlessQueued(s) == active[s] /\ age[s] > MaxAge /\ prev_rx[s] = 0

(* flow_tracker_cleanup: a record in use always carries a last_seen_ns.    *)
Stale(s) == active[s] /\ age[s] > MaxAge

Cleanup ==
    /\ pending = 0
    /\ active' = [s \in Slots |-> active[s] /\ ~Stale(s)]
    /\ active_count' = active_count - Cardinality({s \in Slots : Stale(s)})
    /\ UNCHANGED <<key, prev_rx, prev_tx, age, seq_expected,
                   event_count, newest_bytes, pending, seqvars, gen>>

(* The clock; calls of the tracker are short against it.                   *)
Tick ==
    /\ pending = 0
    /\ age' = [s \in Slots |-> IF age[s] <= MaxAge THEN age[s] + 1 ELSE age[s]]
    /\ UNCHANGED <<key, active, prev_rx, prev_tx, seq_expected, active_count,
                   event_count, newest_bytes, pending, seqvars, gen>>

Packet(k) == PlainPacket(k) \/ \E g \in Segments : TcpPacket(k, g)

Next ==
    \/ BeginUpdate
    \/ \E e \in Entries : UpdateEntry(e)
    \/ \E k \in PacketKeys : Packet(k)
    \/ Drain
    \/ Cleanup
    \/ Tick

Spec == Init /\ [][Next]_vars

(* A round of main always reaches the clean-up test and then sleeps, so    *)
(* both happen again and again, whatever else a round does.                *)
Fairness ==
    WF_vars(\E e \in Entries : UpdateEntry(e)) /\ SF_vars(Tick) /\ SF_vars(Cleanup)

FairSpec == Spec /\ Fairness

-----------------------------------------------------------------------------
(* A flow never has two records: find_record looks for the key in the      *)
(* whole table before it takes a free record, even when records below the  *)
(* flow's own were freed by the clean-up.                                  *)
NoDuplicateFlow ==
    \A s, t \in Slots : active[s] /\ active[t] /\ key[s] = key[t] => s = t

(* active_count, which find_record increments and flow_tracker_cleanup     *)
(* decrements, is the number of records in use.                            *)
ActiveCountExact == active_count = Cardinality({s \in Slots : active[s]})

(* flow_tracker_update never reports more bytes than the two queues of the *)
(* socket hold, although it subtracts unsigned lengths that shrink and a   *)
(* reused record starts from another socket's lengths.                     *)
BytesBounded == newest_bytes <= 2 * MaxQueue

(* As long as a record's first flow keeps it and the sequence numbers do   *)
(* not wrap, seq_expected is not past the data seen: a segment that        *)
(* check_tcp_retransmit reports starts below a byte the flow already sent. *)
ExpectedSeen ==
    \A s \in Slots : active[s] /\ gen[s] = 1 /\ ~high[s].wrapped
                        => seq_expected[s] <= high[s].end

(* A flow seen within the age limit keeps its record: neither a full table *)
(* nor a clean-up takes it away.                                           *)
LiveFlowKept ==
    [][\A s \in Slots : active[s] /\ age[s] <= MaxAge
                            => active'[s] /\ key'[s] = key[s]]_vars

(* The record of a flow that falls silent is eventually free again, so a   *)
(* table full of dead flows recovers.                                      *)
IdleFlowReclaimed ==
    \A s \in Slots : [](active[s] /\ age[s] > 0 => <>(~active[s] \/ age[s] = 0))

(* Only a record that has changed hands can make check_tcp_retransmit call *)
(* the first segment of a flow a retransmission: find_record leaves the    *)
(* seq_expected of the flow before in it, a record from calloc holds the   *)
(* zero that means no expectation.                                         *)
MisjudgedOnlyOnReuse ==
    verdict.segment = "first" /\ verdict.kind = "retransmit"
       => \E s \in Slots : gen[s] = 2
=============================================================================
