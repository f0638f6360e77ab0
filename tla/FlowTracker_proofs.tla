------------------------- MODULE FlowTracker_proofs -------------------------
(* Proofs about the flow table, for every table size and every key set.    *)
EXTENDS FlowTracker, FiniteSetTheorems, TLAPS

ActiveSlots == {s \in Slots : active[s]}

(* The part of the invariant that find_record and the clean-up maintain    *)
(* together: unique records and an exact count need each other's typing,   *)
(* and nothing else.                                                       *)
TableInv == TypeOK /\ NoDuplicateFlow /\ ActiveCountExact

\* The table and its parts are finite, and no part is larger than the table.
LEMMA SlotsFinite ==
    /\ IsFiniteSet(Slots)
    /\ Cardinality(Slots) = MaxFlows
    /\ \A S \in SUBSET Slots : /\ IsFiniteSet(S)
                               /\ Cardinality(S) \in 0 .. MaxFlows
<1>1. IsFiniteSet(Slots) /\ Cardinality(Slots) = MaxFlows
  BY FS_Interval, FlowTrackerAssumption DEF Slots
<1>2. ASSUME NEW S \in SUBSET Slots
      PROVE  IsFiniteSet(S) /\ Cardinality(S) \in 0 .. MaxFlows
  BY <1>1, FS_Subset, FS_CardinalityType, FlowTrackerAssumption
<1> QED BY <1>1, <1>2

(* Touching a record that find_record returned keeps the table coherent.   *)
LEMMA TouchKeepsTable ==
    ASSUME TableInv, NEW k \in Keys, NEW s \in Slots, Found(k, s), Touch(k, s)
    PROVE  /\ key' \in [Slots -> Keys]
           /\ active' \in [Slots -> BOOLEAN]
           /\ age' \in [Slots -> 0 .. MaxAge + 1]
           /\ gen' \in [Slots -> 0 .. 2]
           /\ active_count' \in 0 .. MaxFlows
           /\ NoDuplicateFlow'
           /\ ActiveCountExact'
<1> USE FlowTrackerAssumption
<1>1. /\ key' \in [Slots -> Keys]
      /\ active' \in [Slots -> BOOLEAN]
      /\ age' \in [Slots -> 0 .. MaxAge + 1]
  BY DEF TableInv, TypeOK, Touch
<1>2. gen' \in [Slots -> 0 .. 2]
  <2>1. CASE active[s] \/ gen[s] = 2
    BY <2>1 DEF TableInv, TypeOK, Touch
  <2>2. CASE ~(active[s] \/ gen[s] = 2)
    <3>1. gen[s] + 1 \in 0 .. 2
      <4>1. gen[s] # 2
        BY <2>2
      <4>2. gen[s] \in 0 .. 2
        BY DEF TableInv, TypeOK
      <4> QED BY <4>1, <4>2
    <3> QED BY <2>2, <3>1 DEF TableInv, TypeOK, Touch
  <2> QED BY <2>1, <2>2
<1>3. NoDuplicateFlow'
  <2> SUFFICES ASSUME NEW a \in Slots, NEW b \in Slots,
                      active'[a], active'[b], key'[a] = key'[b]
               PROVE  a = b
    BY DEF NoDuplicateFlow
  <2>1. CASE Matching(k) # {}
    BY <2>1 DEF TableInv, TypeOK, NoDuplicateFlow, Touch, Found, Candidates, Matching
  <2>2. CASE Matching(k) = {}
    BY <2>2 DEF TableInv, TypeOK, NoDuplicateFlow, Touch, Found, Candidates, Matching, Free
  <2> QED BY <2>1, <2>2
<1>4. ActiveCountExact' /\ active_count' \in 0 .. MaxFlows
  <2>0. {t \in Slots : active'[t]} \in SUBSET Slots
    OBVIOUS
  <2>1. CASE active[s]
    <3>1. {t \in Slots : active'[t]} = ActiveSlots
      BY <2>1 DEF TableInv, TypeOK, Touch, ActiveSlots
    <3> QED BY <2>1, <3>1 DEF TableInv, TypeOK, ActiveCountExact, Touch, ActiveSlots
  <2>2. CASE ~active[s]
    <3>1. {t \in Slots : active'[t]} = ActiveSlots \cup {s}
      BY <2>2 DEF TableInv, TypeOK, Touch, ActiveSlots
    <3>2. s \notin ActiveSlots /\ IsFiniteSet(ActiveSlots)
      BY <2>2, SlotsFinite DEF ActiveSlots
    <3>3. Cardinality(ActiveSlots \cup {s}) = Cardinality(ActiveSlots) + 1
      BY <3>2, FS_AddElement
    <3>4. active_count' = Cardinality({t \in Slots : active'[t]})
      BY <2>2, <3>1, <3>3 DEF TableInv, ActiveCountExact, Touch, ActiveSlots
    <3> QED BY <2>0, <3>4, SlotsFinite DEF ActiveCountExact
  <2> QED BY <2>1, <2>2
<1> QED BY <1>1, <1>2, <1>3, <1>4

(* flow_tracker_cleanup frees exactly the records it subtracts.            *)
LEMMA CleanupKeepsTable ==
    ASSUME TableInv, Cleanup
    PROVE  /\ active' \in [Slots -> BOOLEAN]
           /\ active_count' \in 0 .. MaxFlows
           /\ NoDuplicateFlow'
           /\ ActiveCountExact'
<1> DEFINE St == {s \in Slots : Stale(s)}
<1>1. active' \in [Slots -> BOOLEAN]
  BY DEF TableInv, TypeOK, Cleanup
<1>2. NoDuplicateFlow'
  BY DEF TableInv, TypeOK, NoDuplicateFlow, Cleanup
<1>3. {t \in Slots : active'[t]} = ActiveSlots \ St
  BY DEF TableInv, TypeOK, Cleanup, ActiveSlots
<1>4. IsFiniteSet(ActiveSlots) /\ St \subseteq ActiveSlots
  BY SlotsFinite DEF ActiveSlots, Stale
<1>5. IsFiniteSet(St) /\ Cardinality(ActiveSlots \ St) = Cardinality(ActiveSlots) - Cardinality(St)
  <2> HIDE DEF St
  <2>1. ActiveSlots \cap St = St
    BY <1>4
  <2>2. IsFiniteSet(St)
    BY <1>4, FS_Subset
  <2>3. Cardinality(ActiveSlots \ St)
          = Cardinality(ActiveSlots) - Cardinality(ActiveSlots \cap St)
    BY <1>4, <2>2, FS_Difference
  <2> QED BY <2>1, <2>2, <2>3
<1>6. active_count' = Cardinality({t \in Slots : active'[t]})
  BY <1>3, <1>5 DEF TableInv, ActiveCountExact, ActiveSlots, Cleanup
<1>7. active_count' \in 0 .. MaxFlows
  <2>1. {t \in Slots : active'[t]} \in SUBSET Slots
    OBVIOUS
  <2> QED BY <1>6, <2>1, SlotsFinite
<1> QED BY <1>1, <1>2, <1>6, <1>7 DEF ActiveCountExact

(* An event is added only below the capacity of the buffer.                *)
LEMMA AddEventTyped ==
    ASSUME NEW b \in Nat, event_count \in 0 .. MaxEvents, newest_bytes \in Nat,
           AddEvent(b)
    PROVE  event_count' \in 0 .. MaxEvents /\ newest_bytes' \in {b, newest_bytes}
BY FlowTrackerAssumption DEF AddEvent, MaxEvents

\* The growth of a queue between two polls is a queue length.
LEMMA DeltaTyped ==
    ASSUME NEW a \in Queue, NEW b \in Queue
    PROVE  Delta(a, b) \in Queue
BY FlowTrackerAssumption DEF Delta, Queue

\* The fields of a TCP segment.
LEMMA SegmentFields ==
    ASSUME NEW g \in Segments
    PROVE  /\ g.syn \in BOOLEAN /\ g.ack \in BOOLEAN
           /\ g.seq \in 0 .. SeqMod - 1 /\ g.seq \in Nat /\ g.len \in Nat
BY FlowTrackerAssumption DEF SegmentType

\* The next expected sequence is a sequence number.
LEMMA NextExpectedTyped ==
    ASSUME TypeOK, NEW s \in Slots, NEW g \in Segments
    PROVE  NextExpected(s, g) \in 0 .. SeqMod - 1
<1>1. /\ g.syn \in BOOLEAN /\ g.seq \in Nat /\ g.len \in Nat
  BY SegmentFields
<1>2. seq_expected[s] \in 0 .. SeqMod - 1
  BY DEF TypeOK
<1>3. \A n \in Nat : n % SeqMod \in 0 .. SeqMod - 1
  BY FlowTrackerAssumption
<1>4. (g.seq + 1) % SeqMod \in 0 .. SeqMod - 1
  BY <1>1, <1>3
<1>5. (g.seq + g.len) % SeqMod \in 0 .. SeqMod - 1
  BY <1>1, <1>3
<1>6. CASE g.syn
  BY <1>1, <1>4, <1>6 DEF NextExpected
<1>7. CASE ~g.syn
  BY <1>1, <1>2, <1>5, <1>7 DEF NextExpected
<1> QED BY <1>1, <1>6, <1>7

\* The history of the data seen keeps its type.
LEMMA NextHighTyped ==
    ASSUME TypeOK, NEW s \in Slots, NEW g \in Segments
    PROVE  NextHigh(s, g) \in [end : Nat, wrapped : BOOLEAN]
<1>1. /\ g.syn \in BOOLEAN /\ g.seq \in Nat /\ g.len \in Nat
  BY SegmentFields
<1>2. high[s] \in [end : Nat, wrapped : BOOLEAN]
  BY DEF TypeOK
<1>3. CASE g.syn
  BY <1>1, <1>3 DEF NextHigh
<1>4. CASE ~g.syn /\ g.len > 0
  BY <1>1, <1>2, <1>4 DEF NextHigh
<1>5. CASE ~g.syn /\ ~(g.len > 0)
  BY <1>1, <1>2, <1>5 DEF NextHigh
<1> QED BY <1>1, <1>3, <1>4, <1>5

(* What ExpectedSeen needs to be inductive: a record never allocated still *)
(* holds the zero that calloc put there, and the bound on seq_expected     *)
(* survives while the record is free.                                      *)
SeqInv ==
    \A s \in Slots :
        /\ gen[s] = 0 => seq_expected[s] = 0 /\ ~active[s]
        /\ gen[s] = 1 /\ ~high[s].wrapped => seq_expected[s] <= high[s].end

IInv == TableInv /\ BytesBounded /\ SeqInv

\* flow_tracker_create establishes the invariant.
LEMMA InitIInv == Init => IInv
<1> SUFFICES ASSUME Init PROVE IInv
  OBVIOUS
<1> USE FlowTrackerAssumption
<1>1. TypeOK
  <2>1. ZeroKey \in Keys
    BY DEF Keys
  <2>2. high \in [Slots -> [end : Nat, wrapped : BOOLEAN]]
    BY DEF Init
  <2>3. verdict \in [kind : {"none", "retransmit", "dup_ack"},
                     segment : {"first", "later"}]
    BY DEF Init
  <2>4. talked \in [Slots -> BOOLEAN]
    BY DEF Init
  <2> QED BY <2>1, <2>2, <2>3, <2>4 DEF Init, TypeOK, Queue, MaxEvents
<1>2. NoDuplicateFlow
  BY DEF Init, NoDuplicateFlow
<1>3. ActiveCountExact
  <2>1. {s \in Slots : active[s]} = {}
    BY DEF Init
  <2> QED BY <2>1, FS_EmptySet DEF Init, ActiveCountExact
<1>4. BytesBounded
  BY DEF Init, BytesBounded
<1>5. SeqInv
  BY DEF Init, SeqInv
<1> QED BY <1>1, <1>2, <1>3, <1>4, <1>5 DEF IInv, TableInv

(* Touch and a bounded move of seq_expected and high keep SeqInv.          *)
LEMMA TouchKeepsSeq ==
    ASSUME IInv, NEW k \in Keys, NEW s \in Slots, Touch(k, s),
           UNCHANGED <<seq_expected, high>>
    PROVE  SeqInv'
<1> SUFFICES ASSUME NEW t \in Slots
             PROVE  /\ gen'[t] = 0 => seq_expected'[t] = 0 /\ ~active'[t]
                    /\ gen'[t] = 1 /\ ~high'[t].wrapped
                          => seq_expected'[t] <= high'[t].end
  BY DEF SeqInv
<1>0. /\ gen[t] \in 0 .. 2 /\ gen[s] \in 0 .. 2
      /\ seq_expected[t] \in Nat
      /\ high[t].end \in Nat /\ high[t].wrapped \in BOOLEAN
      /\ active[t] \in BOOLEAN /\ active[s] \in BOOLEAN
  BY FlowTrackerAssumption DEF IInv, TableInv, TypeOK
<1>1. CASE t # s
  <2>1. gen'[t] = gen[t] /\ active'[t] = active[t]
    BY <1>1 DEF IInv, TableInv, TypeOK, Touch
  <2> QED BY <2>1 DEF IInv, SeqInv
<1>2. CASE t = s
  <2>1. gen'[t] = IF active[s] \/ gen[s] = 2 THEN gen[s] ELSE gen[s] + 1
    BY <1>2 DEF IInv, TableInv, TypeOK, Touch
  <2>2. gen[s] = 0 => ~active[s] /\ seq_expected[s] = 0
    BY DEF IInv, SeqInv
  <2>3. gen'[t] # 0
    BY <1>0, <2>1, <2>2
  <2>4. ASSUME gen'[t] = 1, ~high'[t].wrapped
        PROVE  seq_expected'[t] <= high'[t].end
    <3>1. gen[s] = 1 \/ gen[s] = 0
      BY <1>0, <2>1, <2>4
    <3>2. CASE gen[s] = 1
      BY <1>2, <2>4, <3>2 DEF IInv, SeqInv
    <3>3. CASE gen[s] = 0
      BY <1>0, <1>2, <2>2, <3>3
    <3> QED BY <3>1, <3>2, <3>3
  <2> QED BY <2>3, <2>4
<1> QED BY <1>1, <1>2

(* check_tcp_retransmit keeps seq_expected at or below the end of the data *)
(* seen, unless the sum wrapped.                                           *)
LEMMA NextExpectedSeen ==
    ASSUME TypeOK, NEW s \in Slots, NEW g \in Segments,
           ~high[s].wrapped => seq_expected[s] <= high[s].end,
           ~NextHigh(s, g).wrapped
    PROVE  NextExpected(s, g) <= NextHigh(s, g).end
<1>1. /\ g.syn \in BOOLEAN /\ g.seq \in Nat /\ g.len \in Nat
  BY SegmentFields
<1>2. /\ high[s] \in [end : Nat, wrapped : BOOLEAN]
      /\ high[s].end \in Nat /\ high[s].wrapped \in BOOLEAN
      /\ seq_expected[s] \in Nat
  BY FlowTrackerAssumption DEF TypeOK
<1>3. \A n \in Nat : n < SeqMod => n % SeqMod = n
  BY FlowTrackerAssumption
<1>4. CASE g.syn
  <2>1. NextHigh(s, g) = [end |-> g.seq + 1, wrapped |-> g.seq + 1 >= SeqMod]
    BY <1>1, <1>4 DEF NextHigh
  <2>2. g.seq + 1 < SeqMod
    <3>1. ASSUME g.seq + 1 >= SeqMod PROVE FALSE
      <4>1. NextHigh(s, g) = [end |-> g.seq + 1, wrapped |-> TRUE]
        BY <2>1, <3>1
      <4> QED BY <4>1
    <3> QED BY <1>1, <3>1, FlowTrackerAssumption
  <2>3. NextExpected(s, g) = g.seq + 1
    BY <1>1, <1>3, <1>4, <2>2 DEF NextExpected
  <2> QED BY <1>1, <2>1, <2>3
<1>5. CASE ~g.syn /\ g.len > 0
  <2> DEFINE e == g.seq + g.len
  <2>1. NextHigh(s, g) = [end |-> IF e > high[s].end THEN e ELSE high[s].end,
                          wrapped |-> high[s].wrapped \/ e >= SeqMod]
    BY <1>1, <1>5 DEF NextHigh
  <2>2. e < SeqMod /\ ~high[s].wrapped
    <3>1. ASSUME high[s].wrapped \/ e >= SeqMod PROVE FALSE
      <4>1. NextHigh(s, g) = [end |-> IF e > high[s].end THEN e ELSE high[s].end,
                              wrapped |-> TRUE]
        BY <2>1, <3>1
      <4> QED BY <4>1
    <3> QED BY <1>1, <3>1, FlowTrackerAssumption
  <2>3. NextExpected(s, g) = e \/ NextExpected(s, g) = seq_expected[s]
    BY <1>1, <1>3, <1>5, <2>2 DEF NextExpected
  <2>4. NextHigh(s, g).end >= e /\ NextHigh(s, g).end >= high[s].end
    BY <1>1, <1>2, <2>1
  <2>5. NextHigh(s, g).end \in Nat
    BY <1>1, <1>2, <2>1
  <2>6. seq_expected[s] <= high[s].end
    BY <2>2
  <2>7. e \in Nat
    BY <1>1
  <2> HIDE DEF e
  <2> QED BY <1>2, <2>3, <2>4, <2>5, <2>6, <2>7
<1>6. CASE ~g.syn /\ ~(g.len > 0)
  <2>1. NextHigh(s, g) = high[s] /\ NextExpected(s, g) = seq_expected[s]
    BY <1>1, <1>6 DEF NextHigh, NextExpected
  <2> QED BY <2>1
<1> QED BY <1>1, <1>4, <1>5, <1>6

\* One entry of flow_tracker_update keeps the invariant.
LEMMA UpdateEntryStep ==
    ASSUME IInv, NEW e \in Entries, UpdateEntry(e)
    PROVE  IInv'
<1> USE FlowTrackerAssumption
<1>0. /\ e.key \in Keys /\ e.rx \in Queue /\ e.tx \in Queue
      /\ pending' \in 0 .. MaxBatch
  BY DEF Entries, Keys, UpdateEntry, IInv, TableInv, TypeOK
<1>1. CASE UNCHANGED <<records, event_count, newest_bytes, gen>>
  BY <1>0, <1>1 DEF IInv, TableInv, TypeOK, NoDuplicateFlow, ActiveCountExact, BytesBounded,
     SeqInv, UpdateEntry, records, seqvars
<1>2. ASSUME NEW s \in Slots, Found(e.key, s), Touch(e.key, s),
             prev_rx' = [prev_rx EXCEPT ![s] = e.rx],
             prev_tx' = [prev_tx EXCEPT ![s] = e.tx],
             LET bytes == Delta(e.rx, prev_rx[s]) + Delta(e.tx, prev_tx[s])
             IN IF bytes > 0 THEN AddEvent(bytes)
                ELSE UNCHANGED <<event_count, newest_bytes>>,
             UNCHANGED seq_expected
      PROVE  IInv'
  <2> DEFINE bytes == Delta(e.rx, prev_rx[s]) + Delta(e.tx, prev_tx[s])
  <2>1. bytes \in 0 .. 2 * MaxQueue
    <3>1. prev_rx[s] \in Queue /\ prev_tx[s] \in Queue
      BY DEF IInv, TableInv, TypeOK
    <3>2. Delta(e.rx, prev_rx[s]) \in Queue /\ Delta(e.tx, prev_tx[s]) \in Queue
      BY <1>0, <3>1, DeltaTyped
    <3> QED BY <3>2 DEF Queue
  <2>2. /\ event_count' \in 0 .. MaxEvents /\ newest_bytes' \in Nat
        /\ newest_bytes' <= 2 * MaxQueue
    <3>1. CASE bytes > 0
      <4>1. AddEvent(bytes)
        BY <1>2, <3>1
      <4>2. /\ event_count \in 0 .. MaxEvents /\ newest_bytes \in Nat
            /\ newest_bytes <= 2 * MaxQueue
        BY DEF IInv, TableInv, TypeOK, BytesBounded
      <4>3. bytes \in Nat
        BY <2>1
      <4> HIDE DEF bytes
      <4>4. event_count' \in 0 .. MaxEvents /\ newest_bytes' \in {bytes, newest_bytes}
        BY <4>1, <4>2, <4>3, AddEventTyped
      <4> QED BY <2>1, <4>2, <4>3, <4>4
    <3>2. CASE ~(bytes > 0)
      BY <1>2, <3>2 DEF IInv, TableInv, TypeOK, BytesBounded
    <3> QED BY <3>1, <3>2
  <2>3. prev_rx' \in [Slots -> Queue] /\ prev_tx' \in [Slots -> Queue]
    BY <1>0, <1>2 DEF IInv, TableInv, TypeOK
  <2>4. /\ key' \in [Slots -> Keys]
        /\ active' \in [Slots -> BOOLEAN]
        /\ age' \in [Slots -> 0 .. MaxAge + 1]
        /\ gen' \in [Slots -> 0 .. 2]
        /\ active_count' \in 0 .. MaxFlows
        /\ NoDuplicateFlow'
        /\ ActiveCountExact'
    BY <1>0, <1>2, TouchKeepsTable DEF IInv
  <2>5. UNCHANGED seqvars
    BY DEF UpdateEntry
  <2>6. SeqInv'
    BY <1>0, <1>2, <2>5, TouchKeepsSeq DEF seqvars
  <2>7. TypeOK'
    BY <1>0, <1>2, <2>2, <2>3, <2>4, <2>5 DEF IInv, TableInv, TypeOK, seqvars
  <2> QED BY <2>2, <2>4, <2>6, <2>7 DEF IInv, TableInv, BytesBounded
<1> QED BY <1>1, <1>2 DEF UpdateEntry

(* The record a packet touches: typing shared by the two packet actions.   *)
LEMMA PacketTouch ==
    ASSUME IInv, NEW k \in PacketKeys, NEW s \in Slots,
           Found(k, s), Touch(k, s), AddEvent(1)
    PROVE  /\ event_count' \in 0 .. MaxEvents /\ newest_bytes' \in Nat
           /\ BytesBounded'
           /\ key' \in [Slots -> Keys]
           /\ active' \in [Slots -> BOOLEAN]
           /\ age' \in [Slots -> 0 .. MaxAge + 1]
           /\ gen' \in [Slots -> 0 .. 2]
           /\ active_count' \in 0 .. MaxFlows
           /\ NoDuplicateFlow'
           /\ ActiveCountExact'
<1>1. k \in Keys
  BY DEF Keys
<1>2. /\ event_count \in 0 .. MaxEvents /\ newest_bytes \in Nat
      /\ newest_bytes <= 2 * MaxQueue
  BY DEF IInv, TableInv, TypeOK, BytesBounded
<1>3. event_count' \in 0 .. MaxEvents /\ newest_bytes' \in {1, newest_bytes}
  BY <1>2, AddEventTyped
<1>4. newest_bytes' \in Nat /\ BytesBounded'
  BY <1>2, <1>3, FlowTrackerAssumption DEF BytesBounded
<1> QED BY <1>1, <1>3, <1>4, TouchKeepsTable DEF IInv

\* flow_tracker_update_single keeps the invariant.
LEMMA PlainPacketStep ==
    ASSUME IInv, NEW k \in PacketKeys, PlainPacket(k)
    PROVE  IInv'
<1> USE FlowTrackerAssumption
<1>0. UNCHANGED <<pending, last_ack, flow_idx, high, verdict>>
  BY DEF PlainPacket
<1>1. CASE UNCHANGED <<records, event_count, newest_bytes, gen, talked>>
  BY <1>0, <1>1 DEF IInv, TableInv, TypeOK, NoDuplicateFlow, ActiveCountExact, BytesBounded,
     SeqInv, records
<1>2. ASSUME NEW s \in Slots, Found(k, s), Touch(k, s), AddEvent(1),
             talked' = [talked EXCEPT ![s] = @ /\ active[s]],
             UNCHANGED <<prev_rx, prev_tx, seq_expected>>
      PROVE  IInv'
  <2>1. /\ event_count' \in 0 .. MaxEvents /\ newest_bytes' \in Nat
        /\ BytesBounded'
        /\ key' \in [Slots -> Keys]
        /\ active' \in [Slots -> BOOLEAN]
        /\ age' \in [Slots -> 0 .. MaxAge + 1]
        /\ gen' \in [Slots -> 0 .. 2]
        /\ active_count' \in 0 .. MaxFlows
        /\ NoDuplicateFlow'
        /\ ActiveCountExact'
    BY <1>2, PacketTouch
  <2>2. talked' \in [Slots -> BOOLEAN]
    BY <1>2 DEF IInv, TableInv, TypeOK
  <2>3. SeqInv'
    BY <1>0, <1>2, TouchKeepsSeq DEF Keys
  <2>4. TypeOK'
    BY <1>0, <1>2, <2>1, <2>2 DEF IInv, TableInv, TypeOK
  <2> QED BY <2>1, <2>3, <2>4 DEF IInv, TableInv
<1> QED BY <1>1, <1>2 DEF PlainPacket

\* A TCP packet, with check_tcp_retransmit, keeps the invariant.
LEMMA TcpPacketStep ==
    ASSUME IInv, NEW k \in PacketKeys, NEW g \in Segments, TcpPacket(k, g)
    PROVE  IInv'
<1> USE FlowTrackerAssumption
<1>0. UNCHANGED pending
  BY DEF TcpPacket
<1>1. CASE UNCHANGED <<records, event_count, newest_bytes, gen, seqvars>>
  BY <1>0, <1>1 DEF IInv, TableInv, TypeOK, NoDuplicateFlow, ActiveCountExact, BytesBounded,
     SeqInv, records, seqvars
<1>2. ASSUME NEW s \in Slots, Found(k, s), Touch(k, s), AddEvent(1),
             seq_expected' = [seq_expected EXCEPT ![s] = NextExpected(s, g)],
             verdict' = [kind |-> Kind(s, g), segment |-> Position(s)],
             IF PureAck(g)
             THEN /\ last_ack' = [last_ack EXCEPT ![flow_idx] = g.seq]
                  /\ flow_idx' = (flow_idx + 1) % AckSlots
             ELSE UNCHANGED <<last_ack, flow_idx>>,
             high' = [high EXCEPT ![s] = NextHigh(s, g)],
             talked' = [talked EXCEPT ![s] = TRUE],
             UNCHANGED <<prev_rx, prev_tx>>
      PROVE  IInv'
  <2>0. TypeOK /\ SeqInv
    BY DEF IInv, TableInv
  <2>1. /\ event_count' \in 0 .. MaxEvents /\ newest_bytes' \in Nat
        /\ BytesBounded'
        /\ key' \in [Slots -> Keys]
        /\ active' \in [Slots -> BOOLEAN]
        /\ age' \in [Slots -> 0 .. MaxAge + 1]
        /\ gen' \in [Slots -> 0 .. 2]
        /\ active_count' \in 0 .. MaxFlows
        /\ NoDuplicateFlow'
        /\ ActiveCountExact'
    BY <1>2, PacketTouch
  <2>2. talked' \in [Slots -> BOOLEAN]
    BY <1>2, <2>0 DEF TypeOK
  <2>3. /\ seq_expected' \in [Slots -> 0 .. SeqMod - 1]
        /\ high' \in [Slots -> [end : Nat, wrapped : BOOLEAN]]
    BY <1>2, <2>0, NextExpectedTyped, NextHighTyped DEF TypeOK
  <2>4. /\ last_ack' \in [0 .. AckSlots - 1 -> 0 .. SeqMod - 1]
        /\ flow_idx' \in 0 .. AckSlots - 1
    <3>1. flow_idx + 1 \in Nat /\ \A n \in Nat : n % AckSlots \in 0 .. AckSlots - 1
      BY <2>0 DEF TypeOK
    <3>2. g.seq \in 0 .. SeqMod - 1
      BY SegmentFields
    <3>3. /\ last_ack \in [0 .. AckSlots - 1 -> 0 .. SeqMod - 1]
          /\ flow_idx \in 0 .. AckSlots - 1
      BY <2>0 DEF TypeOK
    <3>4. CASE PureAck(g)
      BY <1>2, <3>1, <3>2, <3>3, <3>4
    <3>5. CASE ~PureAck(g)
      BY <1>2, <3>3, <3>5
    <3> QED BY <3>4, <3>5
  <2>5. verdict' \in [kind : {"none", "retransmit", "dup_ack"},
                      segment : {"first", "later"}]
    <3>1. Kind(s, g) \in {"none", "retransmit", "dup_ack"}
      BY SegmentFields DEF Kind, PureAck
    <3>2. Position(s) \in {"first", "later"}
      BY DEF Position
    <3> HIDE DEF Kind, Position
    <3> QED BY <1>2, <3>1, <3>2
  <2>6. TypeOK'
    BY <1>0, <1>2, <2>0, <2>1, <2>2, <2>3, <2>4, <2>5 DEF TypeOK
  <2>7. SeqInv'
    <3> SUFFICES ASSUME NEW t \in Slots
                 PROVE  /\ gen'[t] = 0 => seq_expected'[t] = 0 /\ ~active'[t]
                        /\ gen'[t] = 1 /\ ~high'[t].wrapped
                              => seq_expected'[t] <= high'[t].end
      BY DEF SeqInv
    <3>1. CASE t # s
      <4>1. /\ gen'[t] = gen[t] /\ active'[t] = active[t]
            /\ seq_expected'[t] = seq_expected[t] /\ high'[t] = high[t]
        BY <1>2, <2>0, <3>1 DEF TypeOK, Touch
      <4> QED BY <2>0, <4>1 DEF SeqInv
    <3>2. CASE t = s
      <4>1. gen'[s] = IF active[s] \/ gen[s] = 2 THEN gen[s] ELSE gen[s] + 1
        BY <1>2, <2>0 DEF TypeOK, Touch
      <4>2. /\ seq_expected'[s] = NextExpected(s, g) /\ high'[s] = NextHigh(s, g)
        BY <1>2, <2>0 DEF TypeOK
      <4>3. /\ gen[s] \in 0 .. 2 /\ active[s] \in BOOLEAN
            /\ high[s].end \in Nat /\ seq_expected[s] \in Nat
        BY <2>0 DEF TypeOK
      <4>4. gen[s] = 0 => ~active[s] /\ seq_expected[s] = 0
        BY <2>0 DEF SeqInv
      <4>5. gen'[s] # 0
        BY <4>1, <4>3, <4>4
      <4>6. ASSUME gen'[s] = 1, ~high'[s].wrapped
            PROVE  seq_expected'[s] <= high'[s].end
        <5>1. gen[s] = 0 \/ gen[s] = 1
          BY <4>1, <4>3, <4>6
        <5>2. ~high[s].wrapped => seq_expected[s] <= high[s].end
          BY <2>0, <4>3, <4>4, <5>1 DEF SeqInv
        <5> QED BY <2>0, <4>2, <4>6, <5>2, NextExpectedSeen
      <4> QED BY <3>2, <4>5, <4>6
    <3> QED BY <3>1, <3>2
  <2> QED BY <2>1, <2>6, <2>7 DEF IInv, TableInv
<1> QED BY <1>1, <1>2 DEF TcpPacket

\* flow_tracker_cleanup keeps the invariant.
LEMMA CleanupStep ==
    ASSUME IInv, Cleanup
    PROVE  IInv'
<1>1. /\ active' \in [Slots -> BOOLEAN]
      /\ active_count' \in 0 .. MaxFlows
      /\ NoDuplicateFlow'
      /\ ActiveCountExact'
  BY CleanupKeepsTable DEF IInv
<1>2. UNCHANGED <<key, prev_rx, prev_tx, age, seq_expected,
                  event_count, newest_bytes, pending, seqvars, gen>>
  BY DEF Cleanup
<1>3. TypeOK'
  BY <1>1, <1>2 DEF IInv, TableInv, TypeOK, seqvars
<1>4. \A s \in Slots : active'[s] => active[s]
  BY DEF Cleanup
<1>5. SeqInv'
  BY <1>2, <1>4 DEF IInv, SeqInv, seqvars
<1> QED BY <1>1, <1>2, <1>3, <1>5 DEF IInv, TableInv, BytesBounded

\* The passing of time keeps the invariant.
LEMMA TickStep ==
    ASSUME IInv, Tick
    PROVE  IInv'
<1>1. age' \in [Slots -> 0 .. MaxAge + 1]
  BY FlowTrackerAssumption DEF IInv, TableInv, TypeOK, Tick
<1> QED BY <1>1 DEF IInv, TableInv, TypeOK, NoDuplicateFlow, ActiveCountExact, BytesBounded,
     SeqInv, Tick, seqvars

(* Every call the main loop makes keeps the table coherent.                *)
LEMMA NextIInv == IInv /\ [Next]_vars => IInv'
<1> SUFFICES ASSUME IInv, [Next]_vars PROVE IInv'
  OBVIOUS
<1>1. CASE BeginUpdate
  <2>1. pending' \in 0 .. MaxBatch
    BY <1>1, FlowTrackerAssumption DEF BeginUpdate
  <2> QED BY <1>1, <2>1 DEF BeginUpdate, IInv, TableInv, TypeOK, NoDuplicateFlow,
       ActiveCountExact, BytesBounded, SeqInv, records, seqvars
<1>2. ASSUME NEW e \in Entries, UpdateEntry(e) PROVE IInv'
  BY <1>2, UpdateEntryStep
<1>3. ASSUME NEW k \in PacketKeys, Packet(k) PROVE IInv'
  BY <1>3, PlainPacketStep, TcpPacketStep DEF Packet
<1>4. CASE Drain
  <2>1. event_count' \in 0 .. MaxEvents
    BY <1>4, FlowTrackerAssumption DEF Drain, MaxEvents
  <2> QED BY <1>4, <2>1 DEF Drain, IInv, TableInv, TypeOK, NoDuplicateFlow,
       ActiveCountExact, BytesBounded, SeqInv, records, seqvars
<1>5. CASE Cleanup
  BY <1>5, CleanupStep
<1>6. CASE Tick
  BY <1>6, TickStep
<1>7. CASE UNCHANGED vars
  BY <1>7 DEF vars, IInv, TableInv, TypeOK, NoDuplicateFlow,
     ActiveCountExact, BytesBounded, SeqInv, records, seqvars
<1> QED BY <1>1, <1>2, <1>3, <1>4, <1>5, <1>6, <1>7 DEF Next

\* The inductive invariant holds in every reachable state of the table.
THEOREM InvariantHolds == Spec => []IInv
BY InitIInv, NextIInv, PTL DEF Spec

(* Every variable of the flow table keeps its type: in particular the      *)
(* event buffer never passes 2 * MaxFlows and active_count stays within    *)
(* the table, for every table size.                                        *)
THEOREM TypeCorrect == Spec => []TypeOK
<1>1. IInv => TypeOK
  BY DEF IInv, TableInv
<1> QED BY <1>1, InvariantHolds, PTL

(* find_record never gives one flow two records.                           *)
THEOREM UniqueRecord == Spec => []NoDuplicateFlow
<1>1. IInv => NoDuplicateFlow
  BY DEF IInv, TableInv
<1> QED BY <1>1, InvariantHolds, PTL

(* active_count is the number of records in use.                           *)
THEOREM CountExact == Spec => []ActiveCountExact
<1>1. IInv => ActiveCountExact
  BY DEF IInv, TableInv
<1> QED BY <1>1, InvariantHolds, PTL

(* No event reports more bytes than the two queues can hold.               *)
THEOREM BytesAreBounded == Spec => []BytesBounded
<1>1. IInv => BytesBounded
  BY DEF IInv
<1> QED BY <1>1, InvariantHolds, PTL

(* Until a record is reused or its sequence numbers wrap, a segment that   *)
(* check_tcp_retransmit reports starts below data its flow already sent.   *)
THEOREM ExpectedIsSeen == Spec => []ExpectedSeen
<1>1. IInv => ExpectedSeen
  BY DEF IInv, SeqInv, ExpectedSeen
<1> QED BY <1>1, InvariantHolds, PTL

(* A flow seen within the age limit keeps its record in every step.        *)
THEOREM LiveFlowsKept == Spec => LiveFlowKept
<1> DEFINE Kept == \A s \in Slots : active[s] /\ age[s] <= MaxAge
                                        => active'[s] /\ key'[s] = key[s]
<1>1. IInv /\ [Next]_vars => [Kept]_vars
  <2> SUFFICES ASSUME IInv, Next, NEW s \in Slots, active[s], age[s] <= MaxAge
               PROVE  active'[s] /\ key'[s] = key[s]
    OBVIOUS
  <2>1. ASSUME NEW k \in Keys, NEW t \in Slots, Found(k, t), Touch(k, t)
        PROVE  active'[s] /\ key'[s] = key[s]
    <3>1. CASE s # t
      BY <2>1, <3>1 DEF IInv, TableInv, TypeOK, Touch
    <3>2. CASE s = t
      <4>1. key[s] = k
        BY <2>1, <3>2 DEF Found, Candidates, Matching, Free
      <4> QED BY <2>1, <3>2, <4>1 DEF IInv, TableInv, TypeOK, Touch
    <3> QED BY <3>1, <3>2
  <2>2. CASE UNCHANGED <<key, active>>
    BY <2>2
  <2>3. ASSUME NEW e \in Entries, UpdateEntry(e)
        PROVE  active'[s] /\ key'[s] = key[s]
    BY <2>1, <2>2, <2>3 DEF UpdateEntry, Entries, Keys, records
  <2>4. ASSUME NEW k \in PacketKeys, Packet(k)
        PROVE  active'[s] /\ key'[s] = key[s]
    BY <2>1, <2>2, <2>4 DEF Packet, PlainPacket, TcpPacket, Keys, records
  <2>5. CASE Cleanup
    BY <2>5, FlowTrackerAssumption DEF Cleanup, Stale, IInv, TableInv, TypeOK
  <2> QED BY <2>2, <2>3, <2>4, <2>5 DEF Next, BeginUpdate, Drain, Tick, records
<1> QED BY <1>1, InvariantHolds, PTL DEF Spec, LiveFlowKept

(* What MisjudgedOnlyOnReuse needs beside IInv: a record in the hands of   *)
(* its first flow expects nothing until that flow has sent a segment.      *)
ReuseInv ==
    /\ MisjudgedOnlyOnReuse
    /\ \A s \in Slots : active[s] /\ gen[s] = 1 /\ ~talked[s]
                           => seq_expected[s] = 0

(* find_record keeps it, as long as seq_expected moves for nobody else and *)
(* the verdict on the segment that caused the call needs a reused record.  *)
LEMMA TouchKeepsReuse ==
    ASSUME IInv, ReuseInv, NEW k \in Keys, NEW s \in Slots, Touch(k, s),
           \A t \in Slots : t # s => /\ seq_expected'[t] = seq_expected[t]
                                    /\ talked'[t] = talked[t],
           \/ seq_expected' = seq_expected /\ talked'[s] = (talked[s] /\ active[s])
           \/ seq_expected' = seq_expected /\ talked'[s] = talked[s]
           \/ talked'[s],
           \/ verdict' = verdict
           \/ verdict'.segment = "first" /\ verdict'.kind = "retransmit"
                 => seq_expected[s] # 0 /\ (~active[s] \/ ~talked[s])
    PROVE  ReuseInv'
<1>0. \A t \in Slots : /\ gen[t] \in 0 .. 2 /\ active[t] \in BOOLEAN
                         /\ talked[t] \in BOOLEAN
  BY DEF IInv, TableInv, TypeOK
<1>1. /\ gen'[s] = IF active[s] \/ gen[s] = 2 THEN gen[s] ELSE gen[s] + 1
      /\ active'[s]
      /\ \A t \in Slots : t # s => gen'[t] = gen[t] /\ active'[t] = active[t]
  BY DEF IInv, TableInv, TypeOK, Touch
<1>2. gen[s] = 0 => ~active[s] /\ seq_expected[s] = 0
  BY DEF IInv, SeqInv
<1>3. \A t \in Slots : gen[t] = 2 => gen'[t] = 2
  BY <1>0, <1>1
<1>4. active[s] /\ gen[s] = 1 /\ ~talked[s] => seq_expected[s] = 0
  BY DEF ReuseInv
<1>5. MisjudgedOnlyOnReuse'
  <2>1. CASE verdict' = verdict
    BY <1>3, <2>1 DEF ReuseInv, MisjudgedOnlyOnReuse
  <2>2. CASE verdict'.segment = "first" /\ verdict'.kind = "retransmit"
               => seq_expected[s] # 0 /\ (~active[s] \/ ~talked[s])
    <3> SUFFICES ASSUME verdict'.segment = "first", verdict'.kind = "retransmit"
                 PROVE  gen'[s] = 2
      BY DEF MisjudgedOnlyOnReuse
    <3>1. seq_expected[s] # 0 /\ (~active[s] \/ ~talked[s])
      BY <2>2
    <3>2. gen[s] # 0
      BY <1>2, <3>1
    <3>3. active[s] => gen[s] = 2
      BY <1>0, <1>4, <3>1, <3>2
    <3> QED BY <1>0, <1>1, <3>2, <3>3
  <2> QED BY <2>1, <2>2
<1>6. ASSUME NEW t \in Slots, active'[t], gen'[t] = 1, ~talked'[t]
      PROVE  seq_expected'[t] = 0
  <2>1. CASE t # s
    BY <1>1, <1>6, <2>1 DEF ReuseInv
  <2>2. CASE t = s
    <3>1. seq_expected' = seq_expected
      BY <1>6, <2>2
    <3>2. gen[s] = 0 \/ (active[s] /\ gen[s] = 1)
      BY <1>0, <1>1, <1>6, <2>2
    <3>3. active[s] => ~talked[s]
      BY <1>6, <2>2
    <3> QED BY <1>2, <1>4, <2>2, <3>1, <3>2, <3>3
  <2> QED BY <2>1, <2>2
<1> QED BY <1>5, <1>6 DEF ReuseInv

\* Every call the main loop makes keeps it.
LEMMA NextReuseInv == IInv /\ ReuseInv /\ [Next]_vars => ReuseInv'
<1> SUFFICES ASSUME IInv, ReuseInv, [Next]_vars PROVE ReuseInv'
  OBVIOUS
<1>1. ASSUME UNCHANGED <<seq_expected, talked, gen, verdict>>,
             \A s \in Slots : active'[s] => active[s]
      PROVE  ReuseInv'
  BY <1>1 DEF ReuseInv, MisjudgedOnlyOnReuse
<1>2. ASSUME NEW e \in Entries, UpdateEntry(e) PROVE ReuseInv'
  <2>1. UNCHANGED seqvars /\ e.key \in Keys
    BY <1>2 DEF UpdateEntry, Entries, Keys
  <2>2. CASE UNCHANGED <<records, gen>>
    BY <1>1, <2>1, <2>2 DEF records, seqvars
  <2>3. ASSUME NEW s \in Slots, Touch(e.key, s), UNCHANGED seq_expected
        PROVE  ReuseInv'
    BY <2>1, <2>3, TouchKeepsReuse DEF seqvars
  <2> QED BY <1>2, <2>2, <2>3 DEF UpdateEntry
<1>3. ASSUME NEW k \in PacketKeys, PlainPacket(k) PROVE ReuseInv'
  <2>1. UNCHANGED verdict /\ k \in Keys
    BY <1>3 DEF PlainPacket, Keys
  <2>2. CASE UNCHANGED <<records, gen, talked>>
    BY <1>1, <2>1, <2>2 DEF records
  <2>3. ASSUME NEW s \in Slots, Touch(k, s), UNCHANGED seq_expected,
               talked' = [talked EXCEPT ![s] = @ /\ active[s]]
        PROVE  ReuseInv'
    <3>1. /\ talked'[s] = (talked[s] /\ active[s])
          /\ \A t \in Slots : t # s => talked'[t] = talked[t]
      BY <2>3 DEF IInv, TableInv, TypeOK
    <3> QED BY <2>1, <2>3, <3>1, TouchKeepsReuse
  <2> QED BY <1>3, <2>2, <2>3 DEF PlainPacket
<1>4. ASSUME NEW k \in PacketKeys, NEW g \in Segments, TcpPacket(k, g)
      PROVE  ReuseInv'
  <2>1. k \in Keys
    BY DEF Keys
  <2>2. CASE UNCHANGED <<records, gen, seqvars>>
    BY <1>1, <2>2 DEF records, seqvars
  <2>3. ASSUME NEW s \in Slots, Touch(k, s),
               seq_expected' = [seq_expected EXCEPT ![s] = NextExpected(s, g)],
               verdict' = [kind |-> Kind(s, g), segment |-> Position(s)],
               talked' = [talked EXCEPT ![s] = TRUE]
        PROVE  ReuseInv'
    <3>1. /\ talked'[s]
          /\ \A t \in Slots : t # s => /\ talked'[t] = talked[t]
                                       /\ seq_expected'[t] = seq_expected[t]
      BY <2>3 DEF IInv, TableInv, TypeOK
    <3>2. Kind(s, g) = "retransmit" => seq_expected[s] # 0
      BY SegmentFields DEF Kind, Behind, PureAck
    <3>3. Position(s) = "first" => ~active[s] \/ ~talked[s]
      BY DEF Position
    <3>4. verdict'.kind = Kind(s, g) /\ verdict'.segment = Position(s)
      BY <2>3
    <3>5. verdict'.segment = "first" /\ verdict'.kind = "retransmit"
            => seq_expected[s] # 0 /\ (~active[s] \/ ~talked[s])
      BY <3>2, <3>3, <3>4
    <3> QED BY <2>1, <2>3, <3>1, <3>5, TouchKeepsReuse
  <2> QED BY <1>4, <2>2, <2>3 DEF TcpPacket
<1>5. CASE BeginUpdate \/ Drain \/ Tick \/ UNCHANGED vars
  BY <1>1, <1>5 DEF BeginUpdate, Drain, Tick, vars, records, seqvars
<1>6. CASE Cleanup
  BY <1>1, <1>6 DEF Cleanup, seqvars
<1> QED BY <1>2, <1>3, <1>4, <1>5, <1>6 DEF Next, Packet

(* check_tcp_retransmit takes the first segment of a flow for a            *)
(* retransmission only after some record has changed hands.                *)
THEOREM FirstSegmentTrusted == Spec => []MisjudgedOnlyOnReuse
<1>1. Init => ReuseInv
  BY DEF Init, ReuseInv, MisjudgedOnlyOnReuse
<1>2. ReuseInv => MisjudgedOnlyOnReuse
  BY DEF ReuseInv
<1> QED BY <1>1, <1>2, NextReuseInv, InvariantHolds, PTL DEF Spec
=============================================================================
