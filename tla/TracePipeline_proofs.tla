------------------------ MODULE TracePipeline_proofs ------------------------
(* Proofs about the trace pipeline: what the two goroutines that share the *)
(* scheduling analyzer make of a wake-up, and what the attached handlers   *)
(* put into the start map and into the ring, for any number of wake-ups,   *)
(* threads and pids, any ring and any length of the list that is reported. *)
EXTENDS TracePipeline, FiniteSetTheorems, TLAPS

-----------------------------------------------------------------------------
(* The ring                                                                *)

RecordType ==
    (UNION {h.type : h \in Attached}) \cup {EventType.MYSQL, EventType.REDIS}

Record ==
    [by : {h.name : h \in Attached}, pid : Threads, type : RecordType,
     id : Nat \ {0}, call : Int, measured : Int, stale : SUBSET Fields,
     exact : BOOLEAN, taken : SUBSET Fields]

\* The records in the ring are numbered in the order of submission, and
\* sched_trace submits no more of them than there were scheduling events.
RingInv ==
    /\ hooks \subseteq Attached
    /\ starts \in [Threads -> Int] /\ call \in [Threads -> Int]
    /\ calls \in Nat /\ points \in 0 .. MaxPoints /\ produced \in Nat
    /\ rb \in Seq(Record)
    /\ \A k \in 1 .. Len(rb) : rb[k].id <= produced
    /\ \A j, k \in 1 .. Len(rb) : j < k => rb[j].id < rb[k].id
    /\ prog \notin CallPrograms => \A t \in Threads : call[t] = NoCall
    /\ prog = "sched_trace" => produced <= points

\* Submitting one record on behalf of a call, or none.
Submitted == \/ UNCHANGED <<rb, produced>>
             \/ \E r \in Record : /\ r.id = produced + 1
                                  /\ produced' = produced + 1
                                  /\ rb' = Append(rb, r)

\* The record that handler h submits, and what Submit comes to.
NewRecord(h, t, c, sk, ports, ty, copied) ==
    [by |-> h.name, pid |-> t, type |-> ty, id |-> produced + 1,
     call |-> c, taken |-> {},
     exact |-> h.ports = "none" \/ ports = <<sk.local, sk.peer>>,
     measured |-> IF h.start \in {"take", "peek"} THEN starts[t] ELSE NoCall,
     stale |-> IF h.out = "ringbuf" /\ produced >= RingSlots
               THEN Fields \ (h.sets \cup copied) ELSE {}]

\* bpf_ringbuf_reserve finds room for one record, or the handler submits none.
LEMMA SubmitRoom ==
    ASSUME RingInv, NEW h, NEW t, NEW c, NEW sk, NEW ports, Submit(h, t, c, sk, ports)
    PROVE  \/ UNCHANGED <<rb, produced>>
           \/ /\ Len(rb) < RingSlots /\ produced' = produced + 1
              /\ \E ty \in Types(h, ports), copied \in {{}, h.may} :
                    rb' = Append(rb, NewRecord(h, t, c, sk, ports, ty, copied))
<1>1. Len(rb) \in Nat /\ RingSlots \in Nat
  BY TraceRingAssumption DEF RingInv
<1>2. Len(rb) < RingSlots \/ Len(rb) >= RingSlots
  BY <1>1
<1>3. CASE ~(Len(rb) >= RingSlots)
  <2>1. \E ty \in Types(h, ports), copied \in {{}, h.may} :
           /\ produced' = produced + 1
           /\ rb' = Append(rb, NewRecord(h, t, c, sk, ports, ty, copied))
    BY <1>3, Zenon DEF Submit, NewRecord
  <2> QED BY <1>2, <1>3, <2>1, Zenon
<1> QED BY <1>3, Zenon DEF Submit

\* The fields of that record.
IsNew(r, h, t, c, sk, ports, ty) ==
    /\ r \in Record /\ r.id = produced + 1 /\ r.type = ty /\ r.call = c
    /\ r.exact = (h.ports = "none" \/ ports = <<sk.local, sk.peer>>)
    /\ r.measured = IF h.start \in {"take", "peek"} THEN starts[t] ELSE NoCall
    /\ r.stale \subseteq Fields \ h.sets

\* The assignments of the handler give them these values.
LEMMA RecordFields ==
    ASSUME RingInv, NEW h \in Attached, NEW t \in Threads, NEW c \in Int, NEW sk, NEW ports,
           NEW ty \in Types(h, ports), NEW copied
    PROVE  IsNew(NewRecord(h, t, c, sk, ports, ty, copied), h, t, c, sk, ports, ty)
<1> DEFINE m == IF h.start \in {"take", "peek"} THEN starts[t] ELSE NoCall
           s == IF h.out = "ringbuf" /\ produced >= RingSlots
                THEN Fields \ (h.sets \cup copied) ELSE {}
           e == h.ports = "none" \/ ports = <<sk.local, sk.peer>>
           n == [by |-> h.name, pid |-> t, type |-> ty, id |-> produced + 1,
                 call |-> c, taken |-> {}, exact |-> e, measured |-> m, stale |-> s]
<1>1. produced + 1 \in Nat \ {0} /\ m \in Int /\ s \subseteq Fields \ h.sets /\ e \in BOOLEAN
  BY DEF RingInv, NoCall
<1>2. h.name \in {x.name : x \in Attached} /\ ty \in RecordType
  <2>1. ty \in h.type \/ ty = EventType.MYSQL \/ ty = EventType.REDIS
    BY DEF Types
  <2> QED BY <2>1, Zenon DEF RecordType
<1>3. NewRecord(h, t, c, sk, ports, ty, copied) = n
  BY Zenon DEF NewRecord
<1> HIDE DEF m, s, e
<1>4. /\ n \in Record /\ n.id = produced + 1 /\ n.type = ty /\ n.call = c
      /\ n.exact = e /\ n.measured = m /\ n.stale = s
  BY <1>1, <1>2, Zenon DEF Record
<1> HIDE DEF n
<1> QED BY <1>1, <1>3, <1>4, Zenon DEF e, m, IsNew

\* bpf_ringbuf_reserve and submit add one record at the end, or none.
LEMMA SubmitOne ==
    ASSUME RingInv, NEW h \in hooks, NEW t \in Threads, NEW c \in Int, NEW sk,
           NEW ports, Submit(h, t, c, sk, ports)
    PROVE  Submitted
<1>1. h \in Attached
  BY DEF RingInv
<1>2. ASSUME NEW ty \in Types(h, ports), NEW copied
      PROVE  IsNew(NewRecord(h, t, c, sk, ports, ty, copied), h, t, c, sk, ports, ty)
  BY <1>1, RecordFields
<1> QED BY <1>2, SubmitRoom DEF Submitted, IsNew

\* So does one run of a handler, which keeps the start map typed.
LEMMA RunOne ==
    ASSUME RingInv, NEW h \in hooks, NEW t \in Threads, NEW c \in Int, Run(h, t, c)
    PROVE  Submitted /\ starts' \in [Threads -> Int]
<1>1. starts \in [Threads -> Int] /\ NoCall \in Int
  BY DEF RingInv, NoCall
<1>2. map_update_elem(h, t, c) \in [Threads -> Int]
  BY <1>1 DEF map_update_elem
<1>3. [starts EXCEPT ![t] = NoCall] \in [Threads -> Int]
  BY <1>1
<1>4. CASE UNCHANGED <<starts, rb, produced>>
  BY <1>1, <1>4 DEF Submitted
<1>5. CASE /\ starts' = CASE h.start = "put" -> map_update_elem(h, t, c)
                          [] h.start \in {"take", "peek"} ->
                                [starts EXCEPT ![t] = NoCall]
                          [] OTHER -> starts
           /\ IF h.out = "none" \/ (h.start = "take" /\ starts[t] = NoCall)
              THEN UNCHANGED <<rb, produced>>
              ELSE \E sk \in Sockets : \E p \in StoredPorts(h, sk) :
                      Watched(h, p) /\ Submit(h, t, c, sk, p)
  <2>1. starts' \in {map_update_elem(h, t, c), [starts EXCEPT ![t] = NoCall], starts}
    BY <1>5
  <2>2. Submitted
    BY <1>5, SubmitOne DEF Submitted
  <2> QED BY <1>1, <1>2, <1>3, <2>1, <2>2
<1> QED BY <1>4, <1>5 DEF Run

RbIds == {rb[k].id : k \in 1 .. Len(rb)}

\* The records that were submitted and have left the ring.
Gone == {i \in 1 .. produced : i \notin RbIds}

\* What a submission does to the numbers in the ring.
LEMMA SubmittedRing ==
    ASSUME RingInv, Submitted
    PROVE  /\ rb' \in Seq(Record) /\ produced' \in {produced, produced + 1}
           /\ \A k \in 1 .. Len(rb') : rb'[k].id <= produced'
           /\ \A j, k \in 1 .. Len(rb') : j < k => rb'[j].id < rb'[k].id
           /\ Gone \subseteq Gone'
<1>0. /\ rb \in Seq(Record) /\ produced \in Nat
      /\ \A k \in 1 .. Len(rb) : rb[k].id <= produced
      /\ \A j, k \in 1 .. Len(rb) : j < k => rb[j].id < rb[k].id
      /\ \A k \in 1 .. Len(rb) : rb[k].id \in Nat \ {0}
  <2>1. \A k \in 1 .. Len(rb) : rb[k] \in Record
    BY DEF RingInv
  <2> QED BY <2>1, Zenon DEF RingInv, Record
<1>1. CASE UNCHANGED <<rb, produced>>
  BY <1>0, <1>1 DEF Gone, RbIds
<1>2. ASSUME NEW r \in Record, r.id = produced + 1, produced' = produced + 1,
             rb' = Append(rb, r)
      PROVE  /\ rb' \in Seq(Record) /\ produced' \in {produced, produced + 1}
             /\ \A k \in 1 .. Len(rb') : rb'[k].id <= produced'
             /\ \A j, k \in 1 .. Len(rb') : j < k => rb'[j].id < rb'[k].id
             /\ Gone \subseteq Gone'
  <2>1. /\ rb' \in Seq(Record) /\ Len(rb') = Len(rb) + 1 /\ Len(rb) \in Nat
        /\ rb'[Len(rb) + 1] = r
        /\ \A k \in 1 .. Len(rb) : rb'[k] = rb[k]
    BY <1>0, <1>2
  <2>2. \A k \in 1 .. Len(rb') : k \in 1 .. Len(rb) \/ k = Len(rb) + 1
    BY <2>1
  <2>3. \A k \in 1 .. Len(rb') : rb'[k].id <= produced'
    <3>1. ASSUME NEW k \in 1 .. Len(rb) PROVE rb'[k].id <= produced'
      BY <1>0, <1>2, <2>1
    <3>2. rb'[Len(rb) + 1].id <= produced'
      BY <1>0, <1>2, <2>1
    <3> QED BY <2>2, <3>1, <3>2
  <2>4. ASSUME NEW j \in 1 .. Len(rb'), NEW k \in 1 .. Len(rb'), j < k
        PROVE  rb'[j].id < rb'[k].id
    <3>1. j \in 1 .. Len(rb)
      BY <2>1, <2>4
    <3>2. CASE k \in 1 .. Len(rb)
      BY <1>0, <2>1, <2>4, <3>1, <3>2
    <3>3. CASE k = Len(rb) + 1
      <4>1. rb'[k].id = produced + 1 /\ rb'[j].id = rb[j].id /\ rb[j].id <= produced
        BY <1>0, <1>2, <2>1, <3>1, <3>3
      <4> QED BY <1>0, <3>1, <4>1
    <3> QED BY <2>2, <3>2, <3>3
  <2>5. ASSUME NEW i \in Gone PROVE i \in Gone'
    <3>1. i \in 1 .. produced /\ \A k \in 1 .. Len(rb) : rb[k].id # i
      BY DEF Gone, RbIds
    <3>2. i \in 1 .. produced' /\ i # r.id
      BY <1>0, <1>2, <3>1
    <3>3. \A k \in 1 .. Len(rb') : rb'[k].id # i
      BY <2>1, <2>2, <3>1, <3>2
    <3> QED BY <3>2, <3>3 DEF Gone, RbIds
  <2> QED BY <1>2, <2>1, <2>3, <2>4, <2>5
<1> QED BY <1>1, <1>2 DEF Submitted

\* Whatever happens at the hooks keeps the ring in order.
LEMMA KernelRing ==
    ASSUME RingInv, Kernel
    PROVE  RingInv' /\ Gone \subseteq Gone'
<1> PICK t \in Threads : BeginCall(t) \/ ReturnCall(t) \/ VanishCall(t) \/ Point(t)
  BY DEF Kernel
<1>0. /\ hooks \subseteq Attached /\ calls \in Nat /\ points \in 0 .. MaxPoints
      /\ call \in [Threads -> Int] /\ starts \in [Threads -> Int]
      /\ NoCall \in Int /\ MaxPoints \in Nat /\ produced \in Nat
  BY TraceRingAssumption DEF RingInv, NoCall
<1>1. ASSUME NEW hook, NEW c \in Int, RunHook(hook, t, c)
      PROVE  Submitted /\ starts' \in [Threads -> Int]
  <2>1. CASE UNCHANGED <<starts, rb, produced>>
    BY <1>0, <2>1 DEF Submitted
  <2>2. ASSUME NEW h \in hooks, Run(h, t, c)
        PROVE  Submitted /\ starts' \in [Threads -> Int]
    BY <2>2, RunOne
  <2> QED BY <1>1, <2>1, <2>2 DEF RunHook
<1>2. CASE BeginCall(t)
  <2>1. /\ prog \in CallPrograms /\ calls' = calls + 1
        /\ call' = [call EXCEPT ![t] = calls + 1]
        /\ UNCHANGED <<prog, hooks, points>> /\ RunHook("enter", t, calls + 1)
    BY <1>2 DEF BeginCall
  <2>2. Submitted /\ starts' \in [Threads -> Int]
    BY <1>0, <1>1, <2>1
  <2>3. prog # "sched_trace" /\ calls' \in Nat /\ call' \in [Threads -> Int]
    BY <1>0, <2>1 DEF CallPrograms
  <2>4. produced' \in Nat
    BY <1>0, <2>2, SubmittedRing
  <2> QED BY <1>0, <2>1, <2>2, <2>3, <2>4, SubmittedRing DEF RingInv
<1>3. CASE ReturnCall(t)
  <2>1. /\ call[t] # NoCall /\ call' = [call EXCEPT ![t] = NoCall]
        /\ UNCHANGED <<prog, hooks, calls, points>> /\ RunHook("exit", t, call[t])
    BY <1>3 DEF ReturnCall
  <2>2. Submitted /\ starts' \in [Threads -> Int]
    BY <1>0, <1>1, <2>1
  <2>3. prog \in CallPrograms
    BY <2>1 DEF RingInv
  <2>4. prog # "sched_trace" /\ call' \in [Threads -> Int]
    BY <1>0, <2>1, <2>3 DEF CallPrograms
  <2>5. produced' \in Nat
    BY <1>0, <2>2, SubmittedRing
  <2> QED BY <1>0, <2>1, <2>2, <2>3, <2>4, <2>5, SubmittedRing DEF RingInv
<1>4. CASE VanishCall(t)
  <2>1. /\ call' = [call EXCEPT ![t] = NoCall]
        /\ UNCHANGED <<prog, hooks, starts, calls, points, rb, produced>>
    BY <1>4 DEF VanishCall
  <2>2. /\ call' \in [Threads -> Int]
        /\ \A u \in Threads : call[u] = NoCall => call'[u] = NoCall
    BY <1>0, <2>1
  <2>3. UNCHANGED Gone
    BY <2>1 DEF Gone, RbIds
  <2> QED BY <2>1, <2>2, <2>3 DEF RingInv
<1>5. CASE Point(t)
  <2>1. /\ points' = points + 1 /\ points < MaxPoints
        /\ UNCHANGED <<prog, hooks, call, calls>>
        /\ \E h \in hooks : Run(h, t, NoCall)
    BY <1>5 DEF Point
  <2>2. Submitted /\ starts' \in [Threads -> Int]
    BY <1>0, <2>1, RunOne
  <2>3. points' \in 0 .. MaxPoints
    BY <1>0, <2>1
  <2>4. produced' \in Nat /\ produced' <= produced + 1
    BY <1>0, <2>2, SubmittedRing
  <2>5. prog = "sched_trace" => produced' <= points'
    BY <1>0, <2>1, <2>4 DEF RingInv
  <2> QED BY <1>0, <2>1, <2>2, <2>3, <2>4, <2>5, SubmittedRing, Zenon DEF RingInv
<1> QED BY <1>2, <1>3, <1>4, <1>5

\* The reader takes the oldest record.
LEMMA ReadRing ==
    ASSUME RingInv, ReadRecord
    PROVE  /\ RingInv' /\ Gone \subseteq Gone'
           /\ Head(rb) \in Record
           /\ Head(rb).id \in Gone' /\ Head(rb).id \notin Gone
<1>0. /\ rb \in Seq(Record) /\ rb # <<>> /\ produced \in Nat
      /\ \A k \in 1 .. Len(rb) : rb[k].id <= produced
      /\ \A j, k \in 1 .. Len(rb) : j < k => rb[j].id < rb[k].id
      /\ UNCHANGED <<prog, hooks, starts, call, calls, points, produced>>
      /\ rb' = Tail(rb)
  BY DEF RingInv, ReadRecord
<1>1. /\ Len(rb) \in Nat /\ 1 \in 1 .. Len(rb) /\ Head(rb) = rb[1]
      /\ rb' \in Seq(Record) /\ Len(rb') = Len(rb) - 1
      /\ \A k \in 1 .. Len(rb') : k + 1 \in 1 .. Len(rb) /\ rb'[k] = rb[k + 1]
  BY <1>0
<1>2. \A k \in 1 .. Len(rb) : rb[k] \in Record /\ rb[k].id \in Nat \ {0}
  <2>1. \A k \in 1 .. Len(rb) : rb[k] \in Record
    BY <1>0
  <2> QED BY <2>1 DEF Record
<1>3. ASSUME NEW k \in 1 .. Len(rb')
      PROVE  rb'[k].id <= produced' /\ rb'[k].id # Head(rb).id
  <2>1. rb'[k].id = rb[k + 1].id /\ rb[k + 1].id <= produced /\ rb[1].id < rb[k + 1].id
    BY <1>0, <1>1
  <2> QED BY <1>0, <1>1, <1>2, <2>1
<1>4. ASSUME NEW j \in 1 .. Len(rb'), NEW k \in 1 .. Len(rb'), j < k
      PROVE  rb'[j].id < rb'[k].id
  <2>1. /\ rb'[j] = rb[j + 1] /\ rb'[k] = rb[k + 1] /\ j + 1 < k + 1
        /\ j + 1 \in 1 .. Len(rb) /\ k + 1 \in 1 .. Len(rb)
    BY <1>1, <1>4
  <2> QED BY <1>0, <2>1
<1>5. RingInv'
  BY <1>0, <1>1, <1>3, <1>4 DEF RingInv
<1>6. RbIds' \subseteq RbIds /\ Head(rb).id \notin RbIds' /\ Head(rb).id \in RbIds
  BY <1>1, <1>3 DEF RbIds
<1>7. Head(rb).id \in 1 .. produced'
  BY <1>0, <1>1, <1>2
<1> QED BY <1>0, <1>1, <1>2, <1>5, <1>6, <1>7 DEF Gone

-----------------------------------------------------------------------------
(* The analyzer                                                            *)

\* The wake-up readLoop is recording has not been counted, reported or lost,
\* and counts as late once a flush began while it was on its way.
HeldInv ==
    /\ held \in [id : Nat, pid : Threads \cup {"none"}, current : BOOLEAN,
                 late : BOOLEAN]
    /\ held # Idle =>
          /\ held.pid \in Threads /\ held.id \in Gone \cap Wakeups
          /\ held.id \notin lost /\ reports[held.id] = 0
          /\ \A p \in DOMAIN pidStats : held.id \notin pidStats[p]
          /\ fpc # "idle" \/ ~held.current => held.late

\* A wake-up is in at most one statistic.  One that was reported is only
\* still there until the Reset of the same flush; one that was lost is not.
StatInv ==
    /\ DOMAIN pidStats \subseteq Threads
    /\ reports \in [Wakeups -> 0 .. 1]
    /\ \A i \in Wakeups : reports[i] = 1 => i \in Gone /\ i \notin lost
    /\ \A p \in DOMAIN pidStats :
          /\ pidStats[p] \subseteq Gone \cap Wakeups /\ pidStats[p] \cap lost = {}
          /\ \A q \in DOMAIN pidStats : p # q => pidStats[p] \cap pidStats[q] = {}
          /\ \A i \in pidStats[p] : reports[i] = 1 => fpc = "write" /\ p \notin batch
    /\ lost \subseteq Gone \cap Wakeups /\ lost \subseteq late \cup squeezed

\* What a flush under way has passed over is late or was squeezed out.
FlushInv ==
    /\ fpc \in {"idle", "range", "write"}
    /\ batch \subseteq DOMAIN pidStats /\ fresh \subseteq DOMAIN pidStats
    /\ fpc # "write" => batch = {}
    /\ fpc # "range" => fresh = {}
    /\ \A p \in fresh : pidStats[p] \subseteq late
    /\ fpc = "write" =>
          \A p \in DOMAIN pidStats \ batch :
             \A i \in pidStats[p] : i \in late \cup squeezed \/ reports[i] = 1

WInv == HeldInv /\ StatInv /\ FlushInv

\* A step that leaves the analyzer alone.
LEMMA RingStep ==
    ASSUME WInv, UNCHANGED schedVars, Gone \subseteq Gone'
    PROVE  WInv'
<1>1. HeldInv'
  BY DEF WInv, HeldInv, schedVars
<1>2. StatInv'
  BY DEF WInv, StatInv, schedVars
<1>3. FlushInv'
  BY DEF WInv, FlushInv, schedVars
<1> QED BY <1>1, <1>2, <1>3 DEF WInv

\* RecordWakeUp starts on the wake-up that was read.
LEMMA RecordStep ==
    ASSUME WInv, NEW i \in Wakeups, i \in Nat \ {0}, NEW p \in Threads,
           RecordWakeUp(i, p), Gone \subseteq Gone', i \in Gone', i \notin Gone
    PROVE  WInv'
<1>0. /\ held' = [id |-> i, pid |-> p, current |-> TRUE, late |-> fpc # "idle"]
      /\ UNCHANGED <<pidStats, fpc, fresh, batch, reports, late, squeezed, lost, fatal>>
  BY DEF RecordWakeUp
<1>1. HeldInv'
  <2>1. (fpc # "idle") \in BOOLEAN
    OBVIOUS
  <2>2. held' \in [id : Nat, pid : Threads \cup {"none"}, current : BOOLEAN,
                   late : BOOLEAN]
    BY <1>0, <2>1
  <2>3. held'.id = i /\ held'.pid = p /\ held'.current /\ held'.late = (fpc # "idle")
    BY <1>0
  <2>4. i \notin lost /\ \A q \in DOMAIN pidStats : i \notin pidStats[q]
    BY DEF WInv, StatInv
  <2>5. reports[i] = 0
    BY DEF WInv, StatInv
  <2> QED BY <1>0, <2>2, <2>3, <2>4, <2>5, Zenon DEF HeldInv
<1>2. StatInv'
  BY <1>0, Zenon DEF WInv, StatInv
<1>3. FlushInv'
  BY <1>0 DEF WInv, FlushInv
<1> QED BY <1>1, <1>2, <1>3 DEF WInv

(* CountWakeUp puts the wake-up into a statistic, or loses it if a Reset   *)
(* took the map away; both are late when a flush was under way.            *)
LEMMA CountStep ==
    ASSUME WInv, CountWakeUp, UNCHANGED Gone
    PROVE  WInv'
<1>0. /\ held # Idle /\ held' = Idle /\ UNCHANGED <<fpc, batch, reports, squeezed>>
      /\ late' = IF held.late THEN late \cup {held.id} ELSE late
  BY DEF CountWakeUp
<1>1. HeldInv'
  <2>1. Idle \in [id : Nat, pid : Threads \cup {"none"}, current : BOOLEAN,
                  late : BOOLEAN]
    BY DEF Idle
  <2> QED BY <1>0, <2>1 DEF HeldInv
<1>2. /\ held.pid \in Threads /\ held.id \in Gone \cap Wakeups
      /\ held.id \notin lost /\ reports[held.id] = 0
      /\ \A p \in DOMAIN pidStats : held.id \notin pidStats[p]
      /\ fpc # "idle" \/ ~held.current => held.late
      /\ held.late \in BOOLEAN
  BY <1>0 DEF WInv, HeldInv
<1>3. late \subseteq late' /\ (fpc # "idle" \/ ~held.current => held.id \in late')
  BY <1>0, <1>2
<1>4. CASE ~held.current
  <2>1. lost' = lost \cup {held.id} /\ UNCHANGED <<pidStats, fresh, fatal>>
    BY <1>4 DEF CountWakeUp
  <2>2. StatInv'
    BY <1>0, <1>2, <1>3, <1>4, <2>1 DEF WInv, StatInv
  <2>3. FlushInv'
    BY <1>0, <1>3, <2>1 DEF WInv, FlushInv
  <2> QED BY <1>1, <2>2, <2>3 DEF WInv
<1>5. CASE held.current
  <2> DEFINE old(p) == IF p \in DOMAIN pidStats THEN pidStats[p] ELSE {}
             new(p) == old(p) \cup (IF p = held.pid THEN {held.id} ELSE {})
  <2>1. lost' = lost /\ pidStats' = [p \in DOMAIN pidStats \cup {held.pid} |-> new(p)]
    BY <1>5 DEF CountWakeUp
  <2>2. /\ DOMAIN pidStats' = DOMAIN pidStats \cup {held.pid}
        /\ \A p \in DOMAIN pidStats' : pidStats'[p] = new(p)
    BY <2>1
  <2>3. \A p \in DOMAIN pidStats' : \A i \in pidStats'[p] :
           (p \in DOMAIN pidStats /\ i \in pidStats[p]) \/ (p = held.pid /\ i = held.id)
    BY <2>2
  <2>4. StatInv'
    <3>1. DOMAIN pidStats' \subseteq Threads
      BY <1>2, <2>2 DEF WInv, StatInv
    <3>2. ASSUME NEW p \in DOMAIN pidStats', NEW q \in DOMAIN pidStats', p # q,
                 NEW i \in pidStats'[p], i \in pidStats'[q]
          PROVE  FALSE
      BY <1>2, <2>3, <3>2 DEF WInv, StatInv
    <3>3. ASSUME NEW p \in DOMAIN pidStats', NEW i \in pidStats'[p]
          PROVE  /\ i \in Gone \cap Wakeups /\ i \notin lost
                 /\ reports[i] = 1 => fpc = "write" /\ p \notin batch
      BY <1>2, <2>3 DEF WInv, StatInv
    <3>4. ASSUME NEW p \in DOMAIN pidStats'
          PROVE  /\ pidStats'[p] \subseteq Gone \cap Wakeups /\ pidStats'[p] \cap lost = {}
                 /\ \A q \in DOMAIN pidStats' : p # q => pidStats'[p] \cap pidStats'[q] = {}
                 /\ \A i \in pidStats'[p] : reports[i] = 1 => fpc = "write" /\ p \notin batch
      BY <3>2, <3>3
    <3>5. lost' = lost
      BY <2>1
    <3>6. /\ reports \in [Wakeups -> 0 .. 1]
          /\ \A i \in Wakeups : reports[i] = 1 => i \in Gone /\ i \notin lost
          /\ lost \subseteq Gone \cap Wakeups /\ lost \subseteq late' \cup squeezed
      BY <1>3 DEF WInv, StatInv
    <3> QED BY <1>0, <3>1, <3>4, <3>5, <3>6 DEF StatInv
  <2>5. FlushInv'
    <3>1. /\ fresh' \in {fresh, fresh \cup {held.pid}}
          /\ fresh' # fresh => fpc = "range" /\ held.pid \notin DOMAIN pidStats
      BY <1>5 DEF CountWakeUp
    <3>2. ASSUME NEW p \in fresh' PROVE p \in DOMAIN pidStats' /\ pidStats'[p] \subseteq late'
      <4>1. CASE p \in fresh
        <5>1. p \in DOMAIN pidStats /\ pidStats[p] \subseteq late /\ fpc = "range"
          BY <4>1 DEF WInv, FlushInv
        <5> QED BY <1>3, <2>2, <2>3, <5>1
      <4>2. CASE p \notin fresh
        <5>1. p = held.pid /\ fpc = "range" /\ p \notin DOMAIN pidStats
          BY <3>1, <4>2
        <5> QED BY <1>3, <2>2, <2>3, <5>1
      <4> QED BY <4>1, <4>2
    <3>3. ASSUME fpc = "write", NEW p \in DOMAIN pidStats' \ batch, NEW i \in pidStats'[p]
          PROVE  i \in late' \cup squeezed \/ reports[i] = 1
      BY <1>3, <2>3, <3>3 DEF WInv, FlushInv
    <3>4. fpc # "range" => fresh' = {}
      BY <3>1 DEF WInv, FlushInv
    <3>5. batch \subseteq DOMAIN pidStats'
      BY <2>2 DEF WInv, FlushInv
    <3> QED BY <1>0, <3>2, <3>3, <3>4, <3>5 DEF WInv, FlushInv
  <2> QED BY <1>1, <2>4, <2>5 DEF WInv
<1>6. held.current \in BOOLEAN
  BY DEF WInv, HeldInv
<1> QED BY <1>4, <1>5, <1>6

\* A ticker tick makes the wake-up on its way a late one.
LEMMA BeginStep ==
    ASSUME WInv, FlushBegin, UNCHANGED Gone
    PROVE  WInv'
<1>0. /\ fpc = "idle" /\ fpc' = "range"
      /\ held' = IF held = Idle THEN Idle ELSE [held EXCEPT !.late = TRUE]
      /\ UNCHANGED <<pidStats, fresh, batch, reports, late, squeezed, lost, fatal>>
  BY DEF FlushBegin
<1>1. HeldInv'
  <2>1. CASE held = Idle
    BY <1>0, <2>1 DEF WInv, HeldInv
  <2>2. CASE held # Idle
    <3>0. held \in [id : Nat, pid : Threads \cup {"none"}, current : BOOLEAN,
                    late : BOOLEAN]
      BY DEF WInv, HeldInv
    <3>1. held' = [held EXCEPT !.late = TRUE]
      BY <1>0, <2>2
    <3>2. /\ held' \in [id : Nat, pid : Threads \cup {"none"}, current : BOOLEAN,
                        late : BOOLEAN]
          /\ held'.id = held.id /\ held'.pid = held.pid /\ held'.late
      BY <3>0, <3>1, Zenon
    <3> QED BY <1>0, <2>2, <3>2 DEF WInv, HeldInv
  <2> QED BY <2>1, <2>2
<1>2. StatInv'
  BY <1>0 DEF WInv, StatInv
<1>3. FlushInv'
  BY <1>0 DEF WInv, FlushInv
<1> QED BY <1>1, <1>2, <1>3 DEF WInv

(* GetTopCPUUsage lists all it has seen, or notes what it left out.        *)
LEMMA TopStep ==
    ASSUME WInv, GetTopCPUUsage, UNCHANGED Gone
    PROVE  WInv'
<1>0. /\ fpc = "range" /\ fpc' = "write" /\ fresh' = {}
      /\ UNCHANGED <<pidStats, held, reports, late, lost, fatal>>
  BY DEF GetTopCPUUsage
<1> PICK unseen \in SUBSET fresh :
       \E b \in Top(DOMAIN pidStats \ unseen, TopN) :
          /\ batch' = b
          /\ squeezed' = IF Cardinality(DOMAIN pidStats \ unseen) > TopN
                         THEN squeezed \cup
                              UNION {pidStats[p] : p \in (DOMAIN pidStats \ unseen) \ b}
                         ELSE squeezed
  BY Zenon DEF GetTopCPUUsage
<1> DEFINE seen == DOMAIN pidStats \ unseen
<1> PICK b \in Top(seen, TopN) :
       /\ batch' = b
       /\ squeezed' = IF Cardinality(seen) > TopN
                      THEN squeezed \cup UNION {pidStats[p] : p \in seen \ b}
                      ELSE squeezed
  BY Zenon
<1>1. IsFiniteSet(seen)
  BY TraceRingAssumption, FS_Subset DEF WInv, StatInv
<1>2. b \subseteq seen /\ (~(Cardinality(seen) > TopN) => b = seen)
  <2>1. /\ b \in SUBSET seen
        /\ Cardinality(b) = IF Cardinality(seen) > TopN THEN TopN ELSE Cardinality(seen)
    BY DEF Top
  <2> HIDE DEF seen
  <2>2. Cardinality(seen) = Cardinality(b) => seen = b
    BY <1>1, <2>1, FS_Subset, Zenon
  <2> QED BY <2>1, <2>2
<1>3. squeezed \subseteq squeezed' /\ \A p \in seen \ b : pidStats[p] \subseteq squeezed'
  <2>1. CASE Cardinality(seen) > TopN
    BY <2>1
  <2>2. CASE ~(Cardinality(seen) > TopN)
    BY <1>2, <2>2
  <2> QED BY <2>1, <2>2, Zenon
<1>4. HeldInv'
  BY <1>0 DEF WInv, HeldInv
<1>5. StatInv'
  <2>1. \A p \in DOMAIN pidStats : \A i \in pidStats[p] : reports[i] # 1
    BY <1>0 DEF WInv, StatInv
  <2> QED BY <1>0, <1>3, <2>1 DEF WInv, StatInv
<1>6. FlushInv'
  <2>1. ASSUME NEW p \in DOMAIN pidStats \ b, NEW i \in pidStats[p]
        PROVE  i \in late \cup squeezed'
    <3>1. CASE p \in seen
      BY <1>3, <2>1, <3>1, Zenon
    <3>2. CASE p \notin seen
      <4>1. p \in fresh
        BY <2>1, <3>2
      <4> QED BY <2>1, <4>1 DEF WInv, FlushInv
    <3> QED BY <3>1, <3>2
  <2>2. b \subseteq DOMAIN pidStats
    BY <1>2
  <2> QED BY <1>0, <2>1, <2>2, Zenon DEF WInv, FlushInv
<1> QED BY <1>4, <1>5, <1>6 DEF WInv

\* A statistic is written once and its wake-ups have not been reported yet.
LEMMA WriteStep ==
    ASSUME WInv, NEW p \in batch, WriteStat(p), UNCHANGED Gone
    PROVE  WInv'
<1>0. /\ fpc = "write" /\ batch' = batch \ {p}
      /\ reports' = [i \in Wakeups |->
                       IF i \in pidStats[p] THEN reports[i] + 1 ELSE reports[i]]
      /\ UNCHANGED <<pidStats, held, fpc, fresh, late, squeezed, lost, fatal>>
  BY DEF WriteStat
<1>1. p \in DOMAIN pidStats
  BY DEF WInv, FlushInv
<1>2. \A i \in pidStats[p] : i \in Wakeups /\ reports[i] = 0 /\ i \notin lost /\ i \in Gone
  BY <1>1 DEF WInv, StatInv
<1>3. \A i \in Wakeups : reports'[i] = IF i \in pidStats[p] THEN 1 ELSE reports[i]
  BY <1>0, <1>2
<1>4. reports' \in [Wakeups -> 0 .. 1]
  <2>1. reports \in [Wakeups -> 0 .. 1]
    BY DEF WInv, StatInv
  <2> QED BY <1>0, <1>2, <2>1
<1>5. HeldInv'
  <2>1. held # Idle => held.id \notin pidStats[p] /\ held.id \in Wakeups
    BY <1>1 DEF WInv, HeldInv
  <2> QED BY <1>0, <1>3, <2>1 DEF WInv, HeldInv
<1>6. StatInv'
  <2>1. ASSUME NEW q \in DOMAIN pidStats, NEW i \in pidStats[q], reports'[i] = 1
        PROVE  q \notin batch'
    <3>1. i \in Wakeups
      BY DEF WInv, StatInv
    <3>2. CASE i \in pidStats[p]
      <4>1. q = p
        BY <1>1, <2>1, <3>2 DEF WInv, StatInv
      <4> QED BY <1>0, <4>1
    <3>3. CASE i \notin pidStats[p]
      BY <1>0, <1>3, <2>1, <3>1, <3>3 DEF WInv, StatInv
    <3> QED BY <3>2, <3>3
  <2> QED BY <1>0, <1>2, <1>3, <1>4, <2>1 DEF WInv, StatInv
<1>7. FlushInv'
  <2>1. ASSUME NEW q \in DOMAIN pidStats \ batch', NEW i \in pidStats[q]
        PROVE  i \in late \cup squeezed \/ reports'[i] = 1
    <3>1. i \in Wakeups
      BY DEF WInv, StatInv
    <3>2. CASE q = p
      BY <1>3, <2>1, <3>1, <3>2
    <3>3. CASE q # p
      BY <1>0, <1>3, <2>1, <3>1, <3>3 DEF WInv, FlushInv
    <3> QED BY <3>2, <3>3
  <2> QED BY <1>0, <2>1 DEF WInv, FlushInv
<1> QED BY <1>5, <1>6, <1>7 DEF WInv

\* Reset loses exactly what the flush has passed over.
LEMMA ResetStep ==
    ASSUME WInv, Reset, UNCHANGED Gone
    PROVE  WInv'
<1>0. /\ fpc = "write" /\ batch = {} /\ fpc' = "idle"
      /\ lost' = lost \cup {i \in Counted : reports[i] = 0}
      /\ pidStats' = [p \in {} |-> {}]
      /\ held' = IF held = Idle THEN Idle ELSE [held EXCEPT !.current = FALSE]
      /\ UNCHANGED <<fresh, batch, reports, late, squeezed, fatal>>
  BY DEF Reset
<1>1. DOMAIN pidStats' = {}
  BY <1>0
<1>2. ASSUME NEW i \in Counted
      PROVE  /\ i \in Gone \cap Wakeups
             /\ reports[i] = 0 => i \in late \cup squeezed
             /\ held # Idle => i # held.id
  <2>1. PICK p \in DOMAIN pidStats : i \in pidStats[p]
    BY DEF Counted
  <2> QED BY <1>0, <2>1 DEF WInv, StatInv, FlushInv, HeldInv
<1>3. HeldInv'
  <2>1. CASE held = Idle
    BY <1>0, <2>1 DEF WInv, HeldInv
  <2>2. CASE held # Idle
    <3>0. held \in [id : Nat, pid : Threads \cup {"none"}, current : BOOLEAN,
                    late : BOOLEAN]
      BY DEF WInv, HeldInv
    <3>1. held' = [held EXCEPT !.current = FALSE]
      BY <1>0, <2>2
    <3>2. /\ held' \in [id : Nat, pid : Threads \cup {"none"}, current : BOOLEAN,
                        late : BOOLEAN]
          /\ held'.id = held.id /\ held'.pid = held.pid /\ held'.late = held.late
      BY <3>0, <3>1, Zenon
    <3>3. held.id \notin lost' /\ held.late
      BY <1>0, <1>2, <2>2 DEF WInv, HeldInv
    <3> QED BY <1>0, <1>1, <2>2, <3>2, <3>3 DEF WInv, HeldInv
  <2> QED BY <2>1, <2>2
<1>4. StatInv'
  BY <1>0, <1>1, <1>2 DEF WInv, StatInv
<1>5. FlushInv'
  <2>1. fresh = {}
    BY <1>0 DEF WInv, FlushInv
  <2> QED BY <1>0, <1>1, <2>1 DEF FlushInv
<1> QED BY <1>3, <1>4, <1>5 DEF WInv

-----------------------------------------------------------------------------

IInv == RingInv /\ WInv

\* Every step of the pipeline keeps the invariant.
LEMMA NextIInv == IInv /\ [Next]_vars => IInv'
<1> SUFFICES ASSUME IInv, [Next]_vars PROVE IInv'
  OBVIOUS
<1>0. RingInv /\ WInv
  BY DEF IInv
<1>1. ASSUME UNCHANGED ringVars PROVE RingInv' /\ UNCHANGED Gone
  BY <1>0, <1>1 DEF RingInv, ringVars, Gone, RbIds
<1>2. CASE Fire
  BY <1>0, <1>2, KernelRing, RingStep DEF Fire, IInv
<1>3. CASE Read
  <2>1. /\ RingInv' /\ Gone \subseteq Gone' /\ Head(rb) \in Record
        /\ Head(rb).id \in Gone' /\ Head(rb).id \notin Gone
    BY <1>0, <1>3, ReadRing DEF Read
  <2>2. CASE UNCHANGED schedVars
    BY <1>0, <2>1, <2>2, RingStep DEF IInv
  <2>3. CASE prog = "sched_trace" /\ RecordWakeUp(Head(rb).id, Head(rb).pid)
    <3>1. Head(rb).id \in Nat \ {0} /\ Head(rb).pid \in Threads
      BY <2>1 DEF Record
    <3>2. produced' \in Nat /\ produced' <= points' /\ points' <= MaxPoints
      BY <1>3, <2>1, <2>3, TraceRingAssumption DEF RingInv, Read, ReadRecord
    <3>3. Head(rb).id \in 1 .. MaxPoints
      BY <2>1, <3>1, <3>2, TraceRingAssumption DEF Gone, RingInv
    <3>4. Head(rb).id \in Wakeups
      BY <3>3, TracePipelineAssumption
    <3> QED BY <1>0, <2>1, <2>3, <3>1, <3>4, RecordStep DEF IInv
  <2> QED BY <1>3, <2>2, <2>3 DEF Read
<1>4. CASE Count
  BY <1>0, <1>1, <1>4, CountStep DEF Count, IInv
<1>5. CASE Tick
  BY <1>0, <1>1, <1>5, BeginStep DEF Tick, IInv
<1>6. CASE FlushStep
  <2>1. CASE GetTopCPUUsage
    BY <1>0, <1>1, <1>6, <2>1, TopStep DEF FlushStep, IInv
  <2>2. CASE \E p \in batch : WriteStat(p)
    BY <1>0, <1>1, <1>6, <2>2, WriteStep DEF FlushStep, IInv
  <2>3. CASE Reset
    BY <1>0, <1>1, <1>6, <2>3, ResetStep DEF FlushStep, IInv
  <2> QED BY <1>6, <2>1, <2>2, <2>3 DEF FlushStep, Flush
<1>7. CASE Stop
  <2>1. /\ hooks' = {} /\ UNCHANGED schedVars
        /\ UNCHANGED <<prog, starts, call, calls, points, rb, produced>>
    BY <1>7 DEF Stop, StopCollector
  <2>2. RingInv' /\ UNCHANGED Gone
    BY <1>0, <2>1 DEF RingInv, Gone, RbIds
  <2> QED BY <1>0, <2>1, <2>2, RingStep DEF IInv
<1>8. CASE UNCHANGED vars
  BY <1>0, <1>1, <1>8, RingStep DEF vars, IInv
<1> QED BY <1>2, <1>3, <1>4, <1>5, <1>6, <1>7, <1>8 DEF Next

\* The invariant holds in every state of the pipeline.
THEOREM PipelineInvariant == Spec => []IInv
<1>1. Init => IInv
  <2> SUFFICES ASSUME Init PROVE IInv
    OBVIOUS
  <2>1. RingInv
    <3>1. NoCall \in Int /\ 0 \in 0 .. MaxPoints
      BY TraceRingAssumption DEF NoCall
    <3>2. hooks \subseteq Attached /\ starts \in [Threads -> Int]
      BY <3>1 DEF Init, RingInit
    <3>3. call \in [Threads -> Int]
      BY <3>1 DEF Init, RingInit
    <3>4. prog \notin CallPrograms => \A t \in Threads : call[t] = NoCall
      BY DEF Init, RingInit
    <3>5. /\ rb = <<>> /\ rb \in Seq(Record) /\ calls = 0 /\ points = 0 /\ produced = 0
      BY DEF Init, RingInit
    <3>6. Len(rb) = 0
      BY <3>5
    <3> QED BY <3>1, <3>2, <3>3, <3>4, <3>5, <3>6 DEF RingInv
  <2>2. /\ DOMAIN pidStats = {} /\ held = Idle /\ fpc = "idle" /\ fresh = {}
        /\ batch = {} /\ lost = {} /\ reports = [i \in Wakeups |-> 0]
    BY DEF Init, SchedInit
  <2>3. HeldInv
    BY <2>2 DEF HeldInv, Idle
  <2>4. StatInv
    BY <2>2 DEF StatInv
  <2>5. FlushInv
    BY <2>2 DEF FlushInv
  <2> QED BY <2>1, <2>3, <2>4, <2>5 DEF IInv, WInv
<1> QED BY <1>1, NextIInv, PTL DEF Spec

(* flushLoop reports a wake-up at most once, however readLoop's counting   *)
(* falls into its listing, its writing and its Reset.                      *)
THEOREM ReportedOnce == Spec => []WakeupOnce
<1>1. IInv => WakeupOnce
  BY DEF IInv, WInv, StatInv, WakeupOnce
<1> QED BY <1>1, PipelineInvariant, PTL

(* A wake-up is lost only in the window of a flush or below the list of    *)
(* GetTopCPUUsage, and one that was reported is never lost.                *)
THEOREM LossOnlyInWindow == Spec => []WakeupLossWindow
<1>1. IInv => WakeupLossWindow
  <2> SUFFICES ASSUME IInv, NEW i \in lost PROVE i \in late \cup squeezed /\ reports[i] = 0
    BY DEF WakeupLossWindow
  <2>1. i \in Wakeups /\ i \in late \cup squeezed /\ reports[i] # 1
    BY DEF IInv, WInv, StatInv
  <2>2. reports[i] \in 0 .. 1
    BY <2>1 DEF IInv, WInv, StatInv
  <2> QED BY <2>1, <2>2
<1> QED BY <1>1, PipelineInvariant, PTL

-----------------------------------------------------------------------------
(* The handlers, the start map and the records                             *)

\* What the handlers at the hooks of a call do to the start map, and where
\* those whose readers take ports find them.
HandlerShape(h) ==
    /\ h.hook = "exit" => h.start \in {"take", "peek"} /\ h.skip = FALSE
    /\ h.hook # "exit" => h.start \notin {"take", "peek"}
    /\ h.start = "put" => h.hook = "enter" /\ h.prog # "tcp_connect"
    /\ h.hook = "enter" => h.start = "put" \/ h.prog = "tcp_connect"
    /\ h.hook = "enter" /\ h.skip => h.prog = "stb_connect"
    /\ h.hook \in {"enter", "exit"} => h.watch = {}
    /\ h.prog \in {"http_trace", "dns_trace", "db_trace"} => h.ports = "sock"

\* The fields the reader of collection p takes from a record of type ty.
TakenOf(p, ty) == {Layout[b] : b \in Takes(p, ty)}

\* What the hooks of the attached handlers are used for: only the entry of a
\* call puts a start time, only its return takes it.
LEMMA Shapes == \A h \in Attached : HandlerShape(h)
<1> DEFINE Aside(h) == /\ h.hook = "point" /\ h.start = "none"
                       /\ \/ h.ports = "sock"
                          \/ h.prog \notin {"http_trace", "dns_trace", "db_trace"}
<1>1. \A h : Aside(h) => HandlerShape(h)
  BY DEF HandlerShape
<1> USE DEF Handler, Object
<1>2. Aside(trace_do_filp_open) /\ Aside(trace_vfs_write)
  BY DEF trace_do_filp_open, trace_vfs_write, file_open
<1>3. Aside(tracepoint_sched_process_exec) /\ Aside(tracepoint_sched_process_exit)
  BY DEF tracepoint_sched_process_exec, tracepoint_sched_process_exit, process_exec
<1>4. HandlerShape(tracepoint_sys_enter) /\ HandlerShape(tracepoint_sys_exit)
  BY SMTT(30) DEF HandlerShape, tracepoint_sys_enter, tracepoint_sys_exit, syscall
<1>5. Aside(tracepoint_sched_switch) /\ Aside(tracepoint_sched_wakeup)
  BY DEF tracepoint_sched_switch, tracepoint_sched_wakeup, sched_trace
<1>6. Aside(trace_kmalloc) /\ Aside(trace_kfree)
  BY DEF trace_kmalloc, trace_kfree, mem_trace
<1>7. HandlerShape(tracepoint_block_rq_issue) /\ HandlerShape(tracepoint_block_rq_complete)
  BY SMTT(30) DEF HandlerShape, tracepoint_block_rq_issue, tracepoint_block_rq_complete, block_trace
<1>8. Aside(trace_cap_capable) /\ Aside(trace_security_file_open) /\ Aside(trace_load_module)
  BY DEF trace_cap_capable, trace_security_file_open, trace_load_module, security_trace
<1>9. Aside(http_tcp_msg) /\ Aside(dns_udp_msg) /\ Aside(handle_db_tcp)
  BY DEF http_tcp_msg, dns_udp_msg, handle_db_tcp, Message, http_trace, dns_trace, db_trace
<1>10. HandlerShape(trace_tcp_v4_connect) /\ HandlerShape(trace_tcp_v4_connect_exit)
  BY DEF HandlerShape, trace_tcp_v4_connect, trace_tcp_v4_connect_exit, tcp_connect
<1>11. HandlerShape(sys_enter_connect) /\ HandlerShape(sys_exit_connect)
  BY DEF HandlerShape, sys_enter_connect, sys_exit_connect, stb_connect
<1>12. Aside(f1) /\ Aside(f2) /\ Aside(capture_tcp_msg)
  BY DEF f1, f2, Flow, capture_tcp_msg, network_flow, http_capture
<1> HIDE DEF Aside
<1> QED BY <1>1, <1>2, <1>3, <1>4, <1>5, <1>6, <1>7, <1>8, <1>9, <1>10, <1>11, <1>12,
           Zenon DEF Attached

\* Every field the reader of a collection that keeps the rule takes is one
\* that each of its handlers assigns.
Assigns(h) ==
    h.prog \in Cleared => \A ty \in h.type : TakenOf(h.prog, ty) \subseteq h.sets

\* The handlers that keep the rule assign what their readers take.
LEMMA AllAssigned == \A h \in Attached : Assigns(h)
<1> USE DEF Assigns, Handler, Object, EventType, Cleared, TakenOf, Takes, Layout,
             Counters, Data
<1>1. Assigns(trace_do_filp_open) /\ Assigns(trace_vfs_write)
  BY DEF trace_do_filp_open, trace_vfs_write, file_open, SecurityTakes
<1>2. Assigns(tracepoint_sched_process_exec) /\ Assigns(tracepoint_sched_process_exit)
  BY DEF tracepoint_sched_process_exec, tracepoint_sched_process_exit, process_exec
<1>3. Assigns(tracepoint_sys_enter) /\ Assigns(tracepoint_sys_exit)
  BY DEF tracepoint_sys_enter, tracepoint_sys_exit, syscall
<1>4. Assigns(tracepoint_sched_switch) /\ Assigns(tracepoint_sched_wakeup)
  BY DEF tracepoint_sched_switch, tracepoint_sched_wakeup, sched_trace, SchedTakes
<1>5. Assigns(trace_kmalloc) /\ Assigns(trace_kfree)
  BY DEF trace_kmalloc, trace_kfree, mem_trace, MemTakes
<1>6. Assigns(tracepoint_block_rq_issue) /\ Assigns(tracepoint_block_rq_complete)
  BY DEF tracepoint_block_rq_issue, tracepoint_block_rq_complete, block_trace, BlockTakes
<1>7. /\ Assigns(trace_cap_capable) /\ Assigns(trace_security_file_open)
      /\ Assigns(trace_load_module)
  BY DEF trace_cap_capable, trace_security_file_open, trace_load_module, security_trace
<1>8. Assigns(http_tcp_msg) /\ Assigns(dns_udp_msg) /\ Assigns(handle_db_tcp)
  BY DEF http_tcp_msg, dns_udp_msg, handle_db_tcp, Message, http_trace, dns_trace, db_trace
<1>9. Assigns(trace_tcp_v4_connect) /\ Assigns(trace_tcp_v4_connect_exit)
  BY DEF trace_tcp_v4_connect, trace_tcp_v4_connect_exit, tcp_connect, SecurityTakes
<1>10. Assigns(sys_enter_connect) /\ Assigns(sys_exit_connect)
  BY DEF sys_enter_connect, sys_exit_connect, stb_connect
<1>11. Assigns(f1) /\ Assigns(f2) /\ Assigns(capture_tcp_msg)
  BY DEF f1, f2, Flow, capture_tcp_msg, network_flow, http_capture
<1> HIDE DEF Assigns
<1> QED BY <1>1, <1>2, <1>3, <1>4, <1>5, <1>6, <1>7, <1>8, <1>9, <1>10, <1>11, SMTT(30) DEF Attached

\* Only the readers of dns_trace, http_trace, db_trace and network_flow take
\* ports, and no reader takes a byte that is not a field.
LEMMA PortTakers ==
    ASSUME NEW p, NEW ty
    PROVE  /\ TakenOf(p, ty) \subseteq Fields
           /\ "dst_port" \in TakenOf(p, ty) =>
                 p \in {"dns_trace", "http_trace", "db_trace", "network_flow"}
<1> DEFINE T == Takes(p, ty)
<1>1. /\ T \subseteq DOMAIN Layout
      /\ "b30" \in T => p \in {"dns_trace", "http_trace", "db_trace", "network_flow"}
  BY DEF Takes, SecurityTakes, PerformanceTakes, SyscallTakes, SchedTakes, MemTakes,
         BlockTakes, SecurityTraceTakes, DnsTakes, HttpTakes, DbTakes, NetworkTakes,
         Addresses, Payload, Layout
<1> HIDE DEF T
<1>2. \A b \in DOMAIN Layout : Layout[b] = "dst_port" => b = "b30"
  BY DEF Layout
<1>3. TakenOf(p, ty) = {Layout[b] : b \in T}
  BY DEF TakenOf, T
<1> QED BY <1>1, <1>2, <1>3 DEF Fields

\* Swapping the bytes of a port twice gives the port.
LEMMA SwabTwice == \A p \in Ports : bpf_ntohs(bpf_htons(p)) = p
<1>1. ASSUME NEW a \in 0 .. 255, NEW b \in 0 .. 255
      PROVE  bpf_swab16(256 * a + b) = 256 * b + a
  <2>1. (256 * a + b) % 256 = b /\ (256 * a + b) \div 256 = a
    OBVIOUS
  <2>2. bpf_swab16(256 * a + b) =
           ((256 * a + b) % 256) * 256 + ((256 * a + b) \div 256)
    BY Zenon DEF bpf_swab16
  <2> QED BY <2>1, <2>2
<1>2. ASSUME NEW p \in Ports PROVE bpf_ntohs(bpf_htons(p)) = p
  <2>1. PICK hi \in 0 .. 255, lo \in 0 .. 255 : p = 256 * hi + lo
    BY PortsAssumption, Zenon
  <2>2. bpf_htons(p) = 256 * lo + hi
    BY <1>1, <2>1, Zenon DEF bpf_htons
  <2>3. bpf_ntohs(256 * lo + hi) = 256 * hi + lo
    BY <1>1, Zenon DEF bpf_ntohs
  <2> QED BY <2>1, <2>2, <2>3, Zenon
<1> QED BY <1>2

\* The start map.  With an exit hook attached, an entry is that of the call its
\* thread is in or of one that vanished, and a thread in a call has no other
\* than its own: an entry left behind is overwritten when the next call begins,
\* or the entry hook never puts one.  stb_connect, whose entry hook may return
\* early, loses no exit.
StartInv ==
    /\ prog \in Programs /\ hooks \subseteq {h \in Attached : h.prog = prog}
    /\ prog = "stb_connect" => vanished = {}
    /\ (\E h \in hooks : h.hook = "exit") =>
          \A t \in Threads :
             /\ starts[t] \in {NoCall, call[t]} \cup vanished
             /\ call[t] # NoCall => starts[t] \in {NoCall, call[t]}
             /\ (\A h \in hooks : h.start # "put") => starts[t] = NoCall

\* What holds of a record from the moment it is submitted.
RecordOK(p, r) ==
    /\ r.measured \in {NoCall, r.call}
    /\ p \in Cleared => TakenOf(p, r.type) \cap r.stale = {}
    /\ p # "network_flow" /\ "dst_port" \in TakenOf(p, r.type) => r.exact

\* The entries of the start map.
Used == {t \in Threads : starts[t] # NoCall}

\* What one run of a handler for call c of thread t does to the start map and
\* to the ring, where at most one more record finds room.
Effect(h, t, c) ==
    /\ \A u \in Threads : u # t => starts'[u] = starts[u]
    /\ h.hook = "exit" => starts'[t] = NoCall
    /\ h.hook = "point" => starts'[t] = starts[t]
    /\ h.hook = "enter" =>
          \/ starts'[t] = c
          \/ /\ starts'[t] = starts[t]
             /\ starts[t] = NoCall \/ h.prog \in {"stb_connect", "tcp_connect"}
    /\ h.start # "put" => starts'[t] \in {NoCall, starts[t]}
    /\ starts'[t] # NoCall => starts[t] # NoCall \/ Cardinality(Used) < MapEntries
    /\ \/ UNCHANGED <<rb, produced>>
       \/ /\ Len(rb) < RingSlots /\ produced' = produced + 1
          /\ \E r \in Record : RecordOK(prog, r) /\ rb' = Append(rb, r)

\* The record of one run of a handler: the latency is the call's own if the
\* entry it finds is, no field that is taken is left over, and the ports are
\* the socket's.
LEMMA SubmitOK ==
    ASSUME RingInv, NEW h \in Attached, h.prog = prog, NEW t \in Threads, NEW c \in Int,
           NEW sk \in Sockets, NEW p \in StoredPorts(h, sk),
           h.hook = "exit" => starts[t] \in {NoCall, c}, Submit(h, t, c, sk, p)
    PROVE  \/ UNCHANGED <<rb, produced>>
           \/ /\ Len(rb) < RingSlots /\ produced' = produced + 1
              /\ \E r \in Record : RecordOK(prog, r) /\ rb' = Append(rb, r)
<1>1. ASSUME NEW ty \in Types(h, p), NEW copied,
             NEW r, r = NewRecord(h, t, c, sk, p, ty, copied)
      PROVE  r \in Record /\ RecordOK(prog, r)
  <2>0. IsNew(r, h, t, c, sk, p, ty)
    BY <1>1, RecordFields
  <2>1. /\ r \in Record /\ r.type = ty /\ r.call = c
        /\ r.exact = (h.ports = "none" \/ p = <<sk.local, sk.peer>>)
        /\ r.measured = IF h.start \in {"take", "peek"} THEN starts[t] ELSE NoCall
        /\ r.stale \subseteq Fields \ h.sets
    BY <2>0, Zenon DEF IsNew
  <2>2. r.measured \in {NoCall, c}
    BY <2>1, Shapes, SMTT(30) DEF HandlerShape
  <2>3. prog \in Cleared => TakenOf(prog, ty) \cap r.stale = {}
    <3>1. prog \in Cleared => ty \in h.type
      BY DEF Types, Cleared
    <3>2. prog \in Cleared => TakenOf(prog, ty) \subseteq h.sets
      BY <3>1, AllAssigned, Zenon DEF Assigns
    <3> QED BY <2>1, <3>2, SMTT(30)
  <2>4. ASSUME prog # "network_flow", "dst_port" \in TakenOf(prog, ty) PROVE r.exact
    <3>1. h.ports = "sock"
      BY <2>4, PortTakers, Shapes DEF HandlerShape
    <3>2. StoredPorts(h, sk) = {<<sk.local, bpf_ntohs(bpf_htons(sk.peer))>>}
      BY <3>1 DEF StoredPorts
    <3>3. sk.peer \in Ports
      BY DEF Sockets
    <3>4. p = <<sk.local, sk.peer>>
      BY <3>2, <3>3, SwabTwice, Zenon
    <3> QED BY <2>1, <3>4, Zenon
  <2> QED BY <2>1, <2>2, <2>3, <2>4, Zenon DEF RecordOK
<1> QED BY <1>1, SubmitRoom, Zenon

\* One run of an attached handler.
LEMMA RunEffect ==
    ASSUME RingInv, NEW h \in Attached, h \in hooks, h.prog = prog, NEW t \in Threads,
           NEW c \in Int, h.hook = "exit" => starts[t] \in {NoCall, c}, Run(h, t, c)
    PROVE  Effect(h, t, c)
<1> DEFINE Ring == \/ UNCHANGED <<rb, produced>>
                   \/ /\ Len(rb) < RingSlots /\ produced' = produced + 1
                      /\ \E r \in Record : RecordOK(prog, r) /\ rb' = Append(rb, r)
<1>0. starts \in [Threads -> Int] /\ HandlerShape(h)
  BY Shapes, SMTT(30) DEF RingInv
<1>1. CASE h.skip /\ UNCHANGED <<starts, rb, produced>>
  BY <1>0, <1>1 DEF Effect, HandlerShape
<1>2. CASE /\ \E sk \in Sockets : \E p \in StoredPorts(h, sk) : ~Watched(h, p)
           /\ UNCHANGED <<starts, rb, produced>>
  <2>1. h.hook \notin {"enter", "exit"}
    BY <1>0, <1>2 DEF HandlerShape, Watched
  <2> QED BY <1>2, <2>1, SMTT(30) DEF Effect
<1>3. ASSUME starts' = CASE h.start = "put" -> map_update_elem(h, t, c)
                         [] h.start \in {"take", "peek"} -> [starts EXCEPT ![t] = NoCall]
                         [] OTHER -> starts,
             IF h.out = "none" \/ (h.start = "take" /\ starts[t] = NoCall)
             THEN UNCHANGED <<rb, produced>>
             ELSE \E sk \in Sockets : \E p \in StoredPorts(h, sk) :
                     Watched(h, p) /\ Submit(h, t, c, sk, p)
      PROVE  Effect(h, t, c)
  <2>1. Ring
    <3>1. CASE UNCHANGED <<rb, produced>>
      BY <3>1
    <3>2. ASSUME NEW sk \in Sockets, NEW p \in StoredPorts(h, sk), Submit(h, t, c, sk, p)
          PROVE  Ring
      BY <3>2, SubmitOK
    <3> HIDE DEF Ring
    <3> QED BY <1>3, <3>1, <3>2, Zenon
  <2> HIDE DEF Ring
  <2>2. CASE h.start = "put"
    <3>1. starts' = map_update_elem(h, t, c) /\ h.hook = "enter"
      BY <1>0, <1>3, <2>2, SMTT(30) DEF HandlerShape
    <3>2. CASE starts[t] # NoCall \/ Cardinality(Used) < MapEntries
      <4>1. starts' = [starts EXCEPT ![t] = c] \/ (starts' = starts /\ starts[t] = NoCall)
        BY <3>1 DEF map_update_elem
      <4> QED BY <1>0, <2>1, <2>2, <3>1, <3>2, <4>1 DEF Effect, Ring
    <3>3. CASE ~(starts[t] # NoCall \/ Cardinality(Used) < MapEntries)
      <4>1. starts' = starts
        BY <3>1, <3>3 DEF map_update_elem, Used
      <4> QED BY <2>1, <3>1, <3>3, <4>1 DEF Effect, Ring
    <3> QED BY <3>2, <3>3
  <2>3. CASE h.start \in {"take", "peek"}
    <3>1. starts' = [starts EXCEPT ![t] = NoCall] /\ h.hook = "exit"
      BY <1>0, <1>3, <2>3 DEF HandlerShape
    <3> QED BY <1>0, <2>1, <3>1 DEF Effect, Ring
  <2>4. CASE h.start # "put" /\ h.start \notin {"take", "peek"}
    <3>1. starts' = starts /\ h.hook # "exit" /\ (h.hook = "enter" => h.prog = "tcp_connect")
      BY <1>0, <1>3, <2>4 DEF HandlerShape
    <3> QED BY <2>1, <3>1 DEF Effect, Ring
  <2> QED BY <2>2, <2>3, <2>4
<1> QED BY <1>1, <1>2, <1>3 DEF Run

\* The records in the ring, and the one handled last.
RecordsInv ==
    /\ \A k \in 1 .. Len(rb) : RecordOK(prog, rb[k])
    /\ \/ report = NoRecord
       \/ RecordOK(prog, report) /\ report.taken = TakenOf(prog, report.type)

\* The records stay good when a good one joins them.
LEMMA RecordsStay ==
    ASSUME UNCHANGED <<prog, report>>, RecordsInv, rb \in Seq(Record),
           \/ UNCHANGED rb
           \/ \E r \in Record : RecordOK(prog, r) /\ rb' = Append(rb, r)
    PROVE  RecordsInv'
<1>1. CASE UNCHANGED rb
  BY <1>1 DEF RecordsInv
<1>2. ASSUME NEW r \in Record, RecordOK(prog, r), rb' = Append(rb, r) PROVE RecordsInv'
  <2>1. /\ Len(rb') = Len(rb) + 1 /\ Len(rb) \in Nat /\ rb'[Len(rb) + 1] = r
        /\ \A k \in 1 .. Len(rb) : rb'[k] = rb[k]
    BY <1>2
  <2>2. \A k \in 1 .. Len(rb') : k \in 1 .. Len(rb) \/ k = Len(rb) + 1
    BY <2>1
  <2> QED BY <1>2, <2>1, <2>2 DEF RecordsInv
<1> QED BY <1>1, <1>2

\* The threads in a call.
InCall == {t \in Threads : call[t] # NoCall}

\* What has happened is within the bounds, and every record is paid for: by a
\* point, by the entry or the return of a call that began, or by the return of
\* a call that was running at the start.
CountInv ==
    /\ calls \in 0 .. MaxCalls
    /\ call \in [Threads -> {NoCall} \cup 0 .. MaxCalls]
    /\ starts \in [Threads -> {NoCall} \cup 0 .. MaxCalls]
    /\ vanished \subseteq 0 .. MaxCalls
    /\ Len(rb) <= RingSlots /\ Cardinality(Used) <= MapEntries
    /\ produced + Cardinality(InCall) <= points + 2 * calls + Cardinality(Threads)
    /\ running \in BOOLEAN

\* The start map and the ring keep to their sizes.
LEMMA EffectCounts ==
    ASSUME RingInv, CountInv, NEW h, NEW t \in Threads, NEW c \in {NoCall} \cup 0 .. MaxCalls,
           Effect(h, t, c), h.hook \in {"enter", "exit", "point"}, starts' \in [Threads -> Int]
    PROVE  /\ starts' \in [Threads -> {NoCall} \cup 0 .. MaxCalls]
           /\ Len(rb') <= RingSlots /\ Cardinality(Used') <= MapEntries
           /\ produced' \in {produced, produced + 1}
<1>1. /\ \A u \in Threads : u # t => starts'[u] = starts[u]
      /\ starts'[t] \in {NoCall, c, starts[t]}
      /\ starts'[t] # NoCall => starts[t] # NoCall \/ Cardinality(Used) < MapEntries
  BY DEF Effect
<1>2. starts' \in [Threads -> {NoCall} \cup 0 .. MaxCalls]
  BY <1>1 DEF CountInv
<1>3. Len(rb') <= RingSlots /\ produced' \in {produced, produced + 1}
  <2>0. rb \in Seq(Record) /\ RingSlots \in Nat /\ Len(rb) <= RingSlots
    BY TraceRingAssumption DEF RingInv, CountInv
  <2>1. CASE UNCHANGED <<rb, produced>>
    BY <2>0, <2>1
  <2>2. ASSUME NEW r \in Record, Len(rb) < RingSlots, produced' = produced + 1,
               rb' = Append(rb, r)
        PROVE  Len(rb') <= RingSlots /\ produced' \in {produced, produced + 1}
    BY <2>0, <2>2
  <2> QED BY <2>1, <2>2, SMTT(30) DEF Effect
<1>4. Cardinality(Used') <= MapEntries
  <2>0. /\ IsFiniteSet(Used) /\ MapEntries \in Nat
        /\ Cardinality(Used) \in Nat /\ Cardinality(Used) <= MapEntries
    BY TraceRingAssumption, FS_Subset, FS_CardinalityType DEF Used, CountInv
  <2>1. CASE Used' \subseteq Used
    <3>1. Cardinality(Used') <= Cardinality(Used) /\ Cardinality(Used') \in Nat
      BY <2>0, <2>1, FS_Subset, FS_CardinalityType
    <3> QED BY <2>0, <3>1
  <2>2. CASE ~(Used' \subseteq Used)
    <3>1. /\ Used' = Used \cup {t} /\ t \notin Used
          /\ Cardinality(Used) < MapEntries
      BY <1>1, <2>2 DEF Used
    <3>2. Cardinality(Used') = Cardinality(Used) + 1
      BY <2>0, <3>1, FS_AddElement, Zenon
    <3> QED BY <2>0, <3>1, <3>2
  <2> QED BY <2>1, <2>2
<1> QED BY <1>2, <1>3, <1>4

\* What happens at a hook: nothing, or one run of a handler attached there.
LEMMA HookEffect ==
    ASSUME RingInv, StartInv, NEW hook \in {"enter", "exit"}, NEW t \in Threads, NEW c \in Int,
           (\E h \in hooks : h.hook = "exit") /\ hook = "exit" => starts[t] \in {NoCall, c},
           RunHook(hook, t, c)
    PROVE  /\ starts' \in [Threads -> Int]
           /\ \/ UNCHANGED <<starts, rb, produced>> /\ ~ \E h \in hooks : h.hook = hook
              \/ \E h \in hooks : h.hook = hook /\ Effect(h, t, c)
<1>1. CASE ~ \E h \in hooks : h.hook = hook
  BY <1>1 DEF RunHook, RingInv
<1>2. CASE \E h \in hooks : h.hook = hook
  <2>1. PICK h \in hooks : h.hook = hook /\ Run(h, t, c)
    BY <1>2, SMTT(30) DEF RunHook
  <2>2. h \in Attached /\ h.prog = prog
    BY DEF StartInv
  <2>3. Effect(h, t, c) /\ starts' \in [Threads -> Int]
    BY <2>1, <2>2, RunEffect, RunOne, SMTT(30)
  <2> QED BY <2>1, <2>3
<1> QED BY <1>1, <1>2, SMTT(30)

\* The inductive invariant of the kernel side, given RingInv.
DetailInv == StartInv /\ RecordsInv /\ CountInv

\* The ring after one run of a handler.
LEMMA EffectRecords ==
    ASSUME RingInv, RecordsInv, UNCHANGED <<prog, report>>, NEW h, NEW t, NEW c, Effect(h, t, c)
    PROVE  RecordsInv'
  BY RecordsStay DEF Effect, RingInv

\* The entry of a call: an old entry is overwritten, or there was none.
LEMMA BeginDetail ==
    ASSUME RingInv, DetailInv, NEW t \in Threads, BeginCall(t)
    PROVE  DetailInv'
<1>0. StartInv /\ RecordsInv /\ CountInv
  BY DEF DetailInv
<1>1. /\ call[t] = NoCall /\ calls < MaxCalls /\ calls' = calls + 1
      /\ call' = [call EXCEPT ![t] = calls + 1] /\ RunHook("enter", t, calls + 1)
      /\ UNCHANGED <<prog, hooks, points, vanished, running, report>>
  BY DEF BeginCall
<1>2. /\ MaxCalls \in Nat /\ calls \in 0 .. MaxCalls /\ calls + 1 \in 0 .. MaxCalls
      /\ calls + 1 # NoCall /\ calls + 1 \in Int /\ call \in [Threads -> Int]
  BY <1>0, <1>1, TraceRingAssumption DEF CountInv, RingInv, NoCall
<1>3. /\ call' \in [Threads -> {NoCall} \cup 0 .. MaxCalls] /\ call'[t] = calls + 1
      /\ \A u \in Threads : u # t => call'[u] = call[u]
  BY <1>0, <1>1, <1>2 DEF CountInv
<1>4. /\ starts' \in [Threads -> Int]
      /\ \/ UNCHANGED <<starts, rb, produced>> /\ ~ \E h \in hooks : h.hook = "enter"
         \/ \E h \in hooks : h.hook = "enter" /\ Effect(h, t, calls + 1)
  BY <1>0, <1>1, <1>2, HookEffect
<1>5. \A h \in hooks : h \in Attached /\ h.prog = prog /\ HandlerShape(h)
  BY <1>0, Shapes, SMTT(30) DEF StartInv
<1>6. StartInv'
  <2> SUFFICES ASSUME \E h \in hooks : h.hook = "exit", NEW u \in Threads
               PROVE  /\ starts'[u] \in {NoCall, call'[u]} \cup vanished
                      /\ call'[u] # NoCall => starts'[u] \in {NoCall, call'[u]}
                      /\ (\A h \in hooks : h.start # "put") => starts'[u] = NoCall
    BY <1>0, <1>1, SMTT(30) DEF StartInv
  <2>1. /\ starts[u] \in {NoCall, call[u]} \cup vanished
        /\ call[u] # NoCall => starts[u] \in {NoCall, call[u]}
        /\ (\A h \in hooks : h.start # "put") => starts[u] = NoCall
        /\ prog = "stb_connect" => vanished = {}
    BY <1>0, SMTT(30) DEF StartInv
  <2>2. CASE u # t
    <3>1. starts'[u] = starts[u] /\ call'[u] = call[u]
      BY <1>3, <1>4, <2>2 DEF Effect
    <3> QED BY <2>1, <3>1
  <2>3. CASE u = t
    <3>1. CASE UNCHANGED starts /\ ~ \E h \in hooks : h.hook = "enter"
      <4>1. \A h \in hooks : h.start # "put"
        BY <1>5, <3>1, SMTT(30) DEF HandlerShape
      <4> QED BY <2>1, <3>1, <4>1, SMTT(30)
    <3>2. ASSUME NEW h \in hooks, h.hook = "enter", Effect(h, t, calls + 1)
          PROVE  /\ starts'[t] \in {NoCall, call'[t]}
                 /\ (\A g \in hooks : g.start # "put") => starts'[t] = NoCall
      <4>1. /\ h.prog = prog
            /\ prog = "tcp_connect" => \A g \in hooks : g.start # "put"
        BY <1>5, SMTT(30) DEF HandlerShape
      <4>2. \/ starts'[t] = calls + 1
            \/ /\ starts'[t] = starts[t]
               /\ starts[t] = NoCall \/ h.prog \in {"stb_connect", "tcp_connect"}
        BY <3>2 DEF Effect
      <4>3. h.start # "put" => starts'[t] \in {NoCall, starts[t]}
        BY <3>2, SMTT(30) DEF Effect
      <4> QED BY <1>1, <1>3, <2>1, <2>3, <4>1, <4>2, <4>3, SMTT(30)
    <3> QED BY <1>4, <2>3, <3>1, <3>2, SMTT(30)
  <2> QED BY <2>2, <2>3, SMTT(30)
<1>7. RecordsInv'
  BY <1>0, <1>1, <1>4, EffectRecords, RecordsStay DEF RingInv
<1>8. /\ starts' \in [Threads -> {NoCall} \cup 0 .. MaxCalls]
      /\ Len(rb') <= RingSlots /\ Cardinality(Used') <= MapEntries
      /\ produced' \in {produced, produced + 1}
  <2>1. CASE UNCHANGED <<starts, rb, produced>>
    BY <1>0, <2>1 DEF CountInv, Used
  <2> QED BY <1>0, <1>2, <1>4, <2>1, EffectCounts
<1>9. produced' + Cardinality(InCall') <= points' + 2 * calls' + Cardinality(Threads)
  <2>1. InCall' = InCall \cup {t} /\ t \notin InCall
    BY <1>1, <1>2, <1>3 DEF InCall
  <2>2. /\ IsFiniteSet(InCall) /\ Cardinality(InCall) \in Nat
        /\ IsFiniteSet(Threads) /\ Cardinality(Threads) \in Nat
    BY TraceRingAssumption, FS_Subset, FS_CardinalityType DEF InCall
  <2>3. Cardinality(InCall') = Cardinality(InCall) + 1
    BY <2>1, <2>2, FS_AddElement, Zenon
  <2>4. /\ produced \in Nat /\ points \in Nat /\ calls \in Nat
        /\ produced + Cardinality(InCall) <= points + 2 * calls + Cardinality(Threads)
    BY <1>0, TraceRingAssumption DEF RingInv, CountInv
  <2> QED BY <1>1, <1>8, <2>2, <2>3, <2>4
<1>10. CountInv'
  BY <1>0, <1>1, <1>2, <1>3, <1>8, <1>9 DEF CountInv
<1> QED BY <1>6, <1>7, <1>10 DEF DetailInv

\* A call that leaves takes its thread out of those that are in one.
LEMMA LeaveCounts ==
    ASSUME RingInv, CountInv, NEW t \in Threads, call[t] # NoCall,
           call' = [call EXCEPT ![t] = NoCall], UNCHANGED <<calls, points>>,
           produced' \in {produced, produced + 1}
    PROVE  /\ call' \in [Threads -> {NoCall} \cup 0 .. MaxCalls] /\ call'[t] = NoCall
           /\ \A u \in Threads : u # t => call'[u] = call[u]
           /\ produced' + Cardinality(InCall') <= points' + 2 * calls' + Cardinality(Threads)
<1>1. /\ call' \in [Threads -> {NoCall} \cup 0 .. MaxCalls] /\ call'[t] = NoCall
      /\ \A u \in Threads : u # t => call'[u] = call[u]
  BY DEF CountInv
<1>2. InCall' = InCall \ {t} /\ t \in InCall
  BY <1>1 DEF InCall
<1>3. /\ IsFiniteSet(InCall) /\ Cardinality(InCall) \in Nat
      /\ IsFiniteSet(Threads) /\ Cardinality(Threads) \in Nat
  BY TraceRingAssumption, FS_Subset, FS_CardinalityType DEF InCall
<1>4. Cardinality(InCall') = Cardinality(InCall) - 1
  BY <1>2, <1>3, FS_RemoveElement, Zenon
<1>5. /\ produced \in Nat /\ points \in Nat /\ calls \in Nat
      /\ produced + Cardinality(InCall) <= points + 2 * calls + Cardinality(Threads)
  BY TraceRingAssumption DEF RingInv, CountInv
<1>6. produced' + Cardinality(InCall') <= points' + 2 * calls' + Cardinality(Threads)
  BY <1>3, <1>4, <1>5
<1> QED BY <1>1, <1>6

\* The return of a call takes its entry away.
LEMMA ReturnDetail ==
    ASSUME RingInv, DetailInv, NEW t \in Threads, ReturnCall(t)
    PROVE  DetailInv'
<1>0. StartInv /\ RecordsInv /\ CountInv
  BY DEF DetailInv
<1>1. /\ call[t] # NoCall /\ call' = [call EXCEPT ![t] = NoCall]
      /\ RunHook("exit", t, call[t])
      /\ UNCHANGED <<prog, hooks, calls, points, vanished, running, report>>
  BY DEF ReturnCall
<1>2. call[t] \in Int /\ call[t] \in {NoCall} \cup 0 .. MaxCalls
  BY <1>0 DEF RingInv, CountInv
<1>3. (\E h \in hooks : h.hook = "exit") => starts[t] \in {NoCall, call[t]}
  BY <1>0, <1>1 DEF StartInv
<1>4. /\ starts' \in [Threads -> Int]
      /\ \/ UNCHANGED <<starts, rb, produced>> /\ ~ \E h \in hooks : h.hook = "exit"
         \/ \E h \in hooks : h.hook = "exit" /\ Effect(h, t, call[t])
  BY <1>0, <1>1, <1>2, <1>3, HookEffect
<1>5. /\ starts' \in [Threads -> {NoCall} \cup 0 .. MaxCalls]
      /\ Len(rb') <= RingSlots /\ Cardinality(Used') <= MapEntries
      /\ produced' \in {produced, produced + 1}
  <2>1. CASE UNCHANGED <<starts, rb, produced>>
    BY <1>0, <2>1 DEF CountInv, Used
  <2> QED BY <1>0, <1>2, <1>4, <2>1, EffectCounts
<1>6. /\ call' \in [Threads -> {NoCall} \cup 0 .. MaxCalls] /\ call'[t] = NoCall
      /\ \A u \in Threads : u # t => call'[u] = call[u]
      /\ produced' + Cardinality(InCall') <= points' + 2 * calls' + Cardinality(Threads)
  BY <1>0, <1>1, <1>5, LeaveCounts, Zenon
<1>7. StartInv'
  <2>1. CASE ~ \E h \in hooks : h.hook = "exit"
    BY <1>0, <1>1, <2>1, SMTT(30) DEF StartInv
  <2>2. CASE \E h \in hooks : h.hook = "exit"
    <3>1. starts'[t] = NoCall /\ \A u \in Threads : u # t => starts'[u] = starts[u]
      BY <1>4, <2>2, SMTT(30) DEF Effect
    <3> QED BY <1>0, <1>1, <1>6, <2>2, <3>1 DEF StartInv
  <2> QED BY <2>1, <2>2, SMTT(30)
<1>8. RecordsInv'
  BY <1>0, <1>1, <1>4, EffectRecords, RecordsStay, SMTT(30) DEF RingInv
<1>9. CountInv'
  BY <1>0, <1>1, <1>5, <1>6 DEF CountInv
<1> QED BY <1>7, <1>8, <1>9 DEF DetailInv

\* A call that vanishes leaves its entry behind, as one of a vanished call.
LEMMA VanishDetail ==
    ASSUME RingInv, DetailInv, NEW t \in Threads, VanishCall(t)
    PROVE  DetailInv'
<1>0. StartInv /\ RecordsInv /\ CountInv
  BY DEF DetailInv
<1>1. /\ prog # "stb_connect" /\ call[t] # NoCall /\ call' = [call EXCEPT ![t] = NoCall]
      /\ vanished' = vanished \cup {call[t]}
      /\ UNCHANGED <<prog, hooks, starts, calls, points, rb, produced, running, report>>
  BY DEF VanishCall
<1>2. /\ call' \in [Threads -> {NoCall} \cup 0 .. MaxCalls] /\ call'[t] = NoCall
      /\ \A u \in Threads : u # t => call'[u] = call[u]
      /\ produced' + Cardinality(InCall') <= points' + 2 * calls' + Cardinality(Threads)
  BY <1>0, <1>1, LeaveCounts, Zenon
<1>3. StartInv'
  BY <1>0, <1>1, <1>2 DEF StartInv
<1>4. RecordsInv'
  BY <1>0, <1>1 DEF RecordsInv
<1>5. call[t] \in 0 .. MaxCalls
  BY <1>0, <1>1 DEF CountInv
<1>6. CountInv'
  BY <1>0, <1>1, <1>2, <1>5, Zenon DEF CountInv, Used
<1> QED BY <1>3, <1>4, <1>6 DEF DetailInv

\* An event of no call does not touch the start map.
LEMMA PointDetail ==
    ASSUME RingInv, DetailInv, NEW t \in Threads, Point(t)
    PROVE  DetailInv'
<1>0. StartInv /\ RecordsInv /\ CountInv
  BY DEF DetailInv
<1>1. /\ points' = points + 1
      /\ UNCHANGED <<prog, hooks, call, calls, vanished, running, report>>
  BY DEF Point
<1>2. PICK h \in hooks : h.hook = "point" /\ Run(h, t, NoCall)
  BY DEF Point
<1>3. h \in Attached /\ h.prog = prog /\ NoCall \in Int
  BY <1>0 DEF StartInv, NoCall
<1>4. Effect(h, t, NoCall) /\ starts' \in [Threads -> Int]
  BY <1>2, <1>3, RunEffect, RunOne
<1>5. \A u \in Threads : starts'[u] = starts[u]
  BY <1>2, <1>4 DEF Effect
<1>6. StartInv'
  BY <1>0, <1>1, <1>5 DEF StartInv
<1>7. RecordsInv'
  BY <1>0, <1>1, <1>4, EffectRecords
<1>8. /\ starts' \in [Threads -> {NoCall} \cup 0 .. MaxCalls]
      /\ Len(rb') <= RingSlots /\ Cardinality(Used') <= MapEntries
      /\ produced' \in {produced, produced + 1}
  BY <1>0, <1>2, <1>4, EffectCounts
<1>9. produced' + Cardinality(InCall') <= points' + 2 * calls' + Cardinality(Threads)
  <2>1. InCall' = InCall
    BY <1>1, SMTT(30) DEF InCall
  <2>2. /\ Cardinality(InCall) \in Nat /\ Cardinality(Threads) \in Nat
        /\ produced \in Nat /\ points \in Nat /\ calls \in Nat
        /\ produced + Cardinality(InCall) <= points + 2 * calls + Cardinality(Threads)
    BY <1>0, TraceRingAssumption, FS_Subset, FS_CardinalityType DEF RingInv, CountInv, InCall
  <2> QED BY <1>1, <1>8, <2>1, <2>2
<1>10. CountInv'
  BY <1>0, <1>1, <1>8, <1>9 DEF CountInv
<1> QED BY <1>6, <1>7, <1>10 DEF DetailInv

\* The reader takes a good record and leaves good ones.
LEMMA ReadDetail ==
    ASSUME RingInv, DetailInv, ReadRecord
    PROVE  DetailInv'
<1>0. StartInv /\ RecordsInv /\ CountInv /\ rb \in Seq(Record)
  BY DEF DetailInv, RingInv
<1>1. /\ rb # <<>> /\ rb' = Tail(rb)
      /\ report' = [Head(rb) EXCEPT !.taken = TakenOf(prog, Head(rb).type)]
      /\ UNCHANGED <<prog, hooks, starts, call, calls, points, vanished, produced, running>>
  BY DEF ReadRecord, TakenOf
<1>2. /\ Len(rb) \in Nat /\ 1 \in 1 .. Len(rb) /\ Head(rb) = rb[1] /\ Head(rb) \in Record
      /\ Len(rb') = Len(rb) - 1
      /\ \A k \in 1 .. Len(rb') : k + 1 \in 1 .. Len(rb) /\ rb'[k] = rb[k + 1]
  BY <1>0, <1>1
<1>3. StartInv'
  BY <1>0, <1>1 DEF StartInv
<1>4. RecordsInv'
  <2>1. RecordOK(prog, rb[1]) /\ \A k \in 1 .. Len(rb') : RecordOK(prog, rb'[k])
    BY <1>0, <1>2 DEF RecordsInv
  <2>2. /\ report'.type = rb[1].type /\ report'.stale = rb[1].stale
        /\ report'.exact = rb[1].exact /\ report'.measured = rb[1].measured
        /\ report'.call = rb[1].call /\ report'.taken = TakenOf(prog, rb[1].type)
    BY <1>1, <1>2, SMTT(30) DEF Record
  <2>3. RecordOK(prog, report')
    BY <2>1, <2>2 DEF RecordOK
  <2> QED BY <1>1, <2>1, <2>2, <2>3, SMTT(30) DEF RecordsInv
<1>5. CountInv'
  <2>1. Len(rb') <= RingSlots
    BY <1>0, <1>2, TraceRingAssumption DEF CountInv
  <2> QED BY <1>0, <1>1, <2>1, SMTT(30) DEF CountInv, Used, InCall
<1> QED BY <1>3, <1>4, <1>5 DEF DetailInv

\* The analyzer's history names wake-ups only.
HistoryInv == late \cup squeezed \subseteq Wakeups /\ fatal \in BOOLEAN

\* What is noted as late or squeezed out was read or counted before.
LEMMA NextHistory == IInv /\ HistoryInv /\ [Next]_vars => HistoryInv'
<1> SUFFICES ASSUME IInv, HistoryInv, [Next]_vars PROVE HistoryInv'
  OBVIOUS
<1>1. CASE UNCHANGED <<late, squeezed, fatal>>
  BY <1>1 DEF HistoryInv
<1>2. CASE Count
  <2>1. /\ held # Idle /\ late' \in {late, late \cup {held.id}} /\ squeezed' = squeezed
        /\ fatal' \in BOOLEAN
    BY <1>2 DEF Count, CountWakeUp, HistoryInv
  <2>2. held.id \in Wakeups
    BY <2>1 DEF IInv, WInv, HeldInv
  <2> QED BY <2>1, <2>2 DEF HistoryInv
<1>3. CASE GetTopCPUUsage
  <2>1. /\ late' = late /\ fatal' = fatal
        /\ squeezed' \subseteq squeezed \cup (UNION {pidStats[p] : p \in DOMAIN pidStats})
    <3>1. PICK unseen \in SUBSET fresh :
             \E b \in Top(DOMAIN pidStats \ unseen, TopN) :
                squeezed' = IF Cardinality(DOMAIN pidStats \ unseen) > TopN
                            THEN squeezed \cup
                                 UNION {pidStats[p] : p \in (DOMAIN pidStats \ unseen) \ b}
                            ELSE squeezed
      BY <1>3, Zenon DEF GetTopCPUUsage
    <3> QED BY <1>3, <3>1 DEF GetTopCPUUsage
  <2>2. \A p \in DOMAIN pidStats : pidStats[p] \subseteq Wakeups
    BY DEF IInv, WInv, StatInv
  <2> QED BY <2>1, <2>2 DEF HistoryInv
<1>4. Next => Count \/ GetTopCPUUsage \/ UNCHANGED <<late, squeezed, fatal>>
  BY DEF Next, Fire, Read, Tick, FlushStep, Stop, Flush, WriteStat, Reset, FlushBegin,
         RecordWakeUp, schedVars
<1> QED BY <1>1, <1>2, <1>3, <1>4 DEF vars, schedVars

\* Every step keeps the start map, the records and the counts in order.
LEMMA NextDetail == IInv /\ DetailInv /\ [Next]_vars => DetailInv'
<1> SUFFICES ASSUME IInv, DetailInv, [Next]_vars PROVE DetailInv'
  OBVIOUS
<1>0. RingInv
  BY SMTT(30) DEF IInv
<1>1. CASE UNCHANGED ringVars
  BY <1>1 DEF ringVars, DetailInv, StartInv, RecordsInv, CountInv, Used, InCall
<1>2. CASE Fire
  BY <1>0, <1>2, BeginDetail, ReturnDetail, VanishDetail, PointDetail DEF Fire, Kernel
<1>3. CASE Read
  BY <1>0, <1>3, ReadDetail DEF Read
<1>4. CASE Stop
  <2>1. /\ hooks' = {} /\ running' = FALSE
        /\ UNCHANGED <<prog, starts, call, calls, points, vanished, rb, produced, report>>
    BY <1>4 DEF Stop, StopCollector
  <2>2. StartInv' /\ RecordsInv'
    BY <2>1, Zenon DEF DetailInv, StartInv, RecordsInv
  <2>3. CountInv'
    BY <2>1, Zenon DEF DetailInv, CountInv, Used, InCall
  <2> QED BY <2>2, <2>3 DEF DetailInv
<1> QED BY <1>1, <1>2, <1>3, <1>4 DEF Next, Count, Tick, FlushStep, vars

\* The invariant of the kernel side and of the history holds in every state.
THEOREM KernelInvariant == Spec => [](DetailInv /\ HistoryInv)
<1>1. Init => DetailInv /\ HistoryInv
  <2> SUFFICES ASSUME Init PROVE DetailInv /\ HistoryInv
    OBVIOUS
  <2>0. /\ prog \in Programs /\ hooks \subseteq {h \in Attached : h.prog = prog}
        /\ starts = [t \in Threads |-> NoCall]
        /\ call \in [Threads -> {NoCall, 0}]
        /\ calls = 0 /\ points = 0 /\ vanished = {} /\ rb = <<>> /\ produced = 0
        /\ running = TRUE /\ report = NoRecord
    BY DEF Init, RingInit
  <2>1. StartInv
    BY <2>0 DEF StartInv
  <2>2. Len(rb) = 0
    BY <2>0
  <2>3. RecordsInv
    BY <2>0, <2>2 DEF RecordsInv
  <2>4. CountInv
    <3>1. /\ MaxCalls \in Nat /\ RingSlots \in Nat /\ MapEntries \in Nat
          /\ IsFiniteSet(Threads) /\ 0 \in 0 .. MaxCalls
      BY TraceRingAssumption
    <3>2. Used = {}
      BY <2>0 DEF Used
    <3>3. Cardinality(Used) = 0
      BY <3>2, FS_EmptySet
    <3>4. /\ Cardinality(InCall) <= Cardinality(Threads)
          /\ Cardinality(InCall) \in Nat /\ Cardinality(Threads) \in Nat
      BY <3>1, FS_Subset, FS_CardinalityType DEF InCall
    <3>5. produced + Cardinality(InCall) <= points + 2 * calls + Cardinality(Threads)
      BY <2>0, <3>4
    <3>6. /\ call \in [Threads -> {NoCall} \cup 0 .. MaxCalls]
          /\ starts \in [Threads -> {NoCall} \cup 0 .. MaxCalls]
      BY <2>0, <3>1
    <3> QED BY <2>0, <2>2, <3>1, <3>3, <3>5, <3>6 DEF CountInv
  <2>5. HistoryInv
    BY Zenon DEF Init, SchedInit, HistoryInv
  <2> QED BY <2>1, <2>3, <2>4, <2>5 DEF DetailInv
<1> QED BY <1>1, NextDetail, NextHistory, PipelineInvariant, PTL DEF Spec

(* A latency is the time of the call that returned, for any number of      *)
(* threads and any size of the start map.                                  *)
THEOREM LatencyIsOwn == Spec => []LatencyOfOwnCall
<1>1. DetailInv => LatencyOfOwnCall
  BY DEF DetailInv, RecordsInv, RecordOK, LatencyOfOwnCall
<1> QED BY <1>1, KernelInvariant, PTL

(* An entry of the start map is that of the running call or of one whose   *)
(* exit hook never ran.                                                    *)
THEOREM NothingElseStarts == Spec => []StartsAccounted
<1>1. DetailInv => StartsAccounted
  BY SMTT(30) DEF DetailInv, StartInv, StartsAccounted
<1> QED BY <1>1, KernelInvariant, PTL

(* The reader of a collection that keeps the rule of file_open.bpf.c takes *)
(* no field the handler did not assign, however often the ring wraps.      *)
THEOREM NothingLeftOver == Spec => []NoResidue
<1>1. DetailInv => NoResidue
  <2>1. CASE report = NoRecord
    BY <2>1, SMTT(30) DEF NoRecord, NoResidue
  <2> QED BY <2>1 DEF DetailInv, RecordsInv, RecordOK, NoResidue
<1> QED BY <1>1, KernelInvariant, PTL

(* The ports that are taken are the socket's, for all of the 65536 ports.  *)
THEOREM PortsAreExact == Spec => []PortsExact
<1>1. DetailInv => PortsExact
  <2>1. CASE report = NoRecord
    BY <2>1 DEF NoRecord, PortsExact
  <2> QED BY <2>1 DEF DetailInv, RecordsInv, RecordOK, PortsExact
<1> QED BY <1>1, KernelInvariant, PTL

(* The maps and the ring keep to their sizes, and the records to what the  *)
(* points and the calls can make.                                          *)
THEOREM PipelineTypes == Spec => []TypeOK
<1>1. IInv /\ DetailInv /\ HistoryInv => TypeOK
  <2> SUFFICES ASSUME IInv, DetailInv, HistoryInv PROVE TypeOK
    OBVIOUS
  <2>0. RingInv /\ HeldInv /\ StatInv /\ FlushInv /\ StartInv /\ RecordsInv /\ CountInv
    BY DEF IInv, WInv, DetailInv
  <2>1. produced \in Records
    <3>1. /\ Cardinality(InCall) \in Nat /\ Cardinality(Threads) \in Nat
          /\ produced \in Nat /\ points \in 0 .. MaxPoints /\ calls \in 0 .. MaxCalls
          /\ MaxPoints \in Nat /\ MaxCalls \in Nat
          /\ produced + Cardinality(InCall) <= points + 2 * calls + Cardinality(Threads)
      BY <2>0, TraceRingAssumption, FS_Subset, FS_CardinalityType, Zenon DEF RingInv, CountInv, InCall
    <3> QED BY <3>1 DEF Records
  <2>2. ASSUME NEW k \in 1 .. Len(rb)
        PROVE  rb[k].id \in Records /\ rb[k].stale \subseteq Fields
    <3>1. rb[k] \in Record /\ rb[k].id <= produced /\ produced \in Nat
      BY <2>0, SMTT(30) DEF RingInv
    <3>2. rb[k].id \in Nat /\ rb[k].stale \subseteq Fields
      BY <3>1 DEF Record
    <3>3. Cardinality(Threads) \in Nat /\ MaxPoints \in Nat /\ MaxCalls \in Nat
      BY TraceRingAssumption, FS_CardinalityType, SMTT(30)
    <3> QED BY <2>1, <3>1, <3>2, <3>3 DEF Records
  <2>3. report.taken \subseteq Fields
    BY <2>0, PortTakers, SMTT(30) DEF RecordsInv, NoRecord
  <2>4. /\ DOMAIN pidStats \subseteq Pids /\ Counted \subseteq Wakeups
        /\ held.pid \in Pids \cup {"none"} /\ lost \subseteq Wakeups
        /\ reports \in [Wakeups -> Nat]
    BY <2>0, TracePipelineAssumption DEF StatInv, HeldInv, Counted
  <2> QED BY <2>0, <2>1, <2>2, <2>3, <2>4, Zenon
          DEF TypeOK, RingInv, CountInv, StartInv, FlushInv, HistoryInv, Used
<1> QED BY <1>1, PipelineInvariant, KernelInvariant, PTL
=============================================================================
