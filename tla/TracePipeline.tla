--------------------------- MODULE TracePipeline ---------------------------
(***************************************************************************)
(* A trace collector from the hook to the report: the handlers and the     *)
(* ring of TraceRing, read by the collector's readLoop, and for            *)
(* sched_trace the analyzer its flushLoop empties every 30 seconds.        *)
(***************************************************************************)
EXTENDS TraceRing, SchedAnalyzer

\* A wake-up is known by the number of its record, which carries the pid of
\* its thread.
ASSUME TracePipelineAssumption ==
    /\ 1 .. MaxPoints \subseteq Wakeups
    /\ Threads \subseteq Pids

vars == <<ringVars, schedVars>>

\* readLoop: one record; a wake-up of sched_trace goes to the analyzer.
Read ==
    /\ ~fatal
    /\ held = Idle
    /\ ReadRecord
    /\ IF prog = "sched_trace" /\ Head(rb).type = 13
       THEN RecordWakeUp(Head(rb).id, Head(rb).pid)
       ELSE UNCHANGED schedVars

Fire == ~fatal /\ Kernel /\ UNCHANGED schedVars

Count == CountWakeUp /\ UNCHANGED ringVars

\* flushLoop: the ticker fires, unless stopCh was closed.
Tick ==
    /\ prog = "sched_trace"
    /\ running
    /\ FlushBegin
    /\ UNCHANGED ringVars

FlushStep == Flush /\ UNCHANGED ringVars

Stop == ~fatal /\ StopCollector /\ UNCHANGED schedVars

Init == RingInit /\ SchedInit

Next == Fire \/ Read \/ Count \/ Tick \/ FlushStep \/ Stop

\* The Go scheduler runs both goroutines, and the ticker ticks.
Spec ==
    /\ Init /\ [][Next]_vars
    /\ WF_vars(Read) /\ WF_vars(Count) /\ WF_vars(Tick) /\ WF_vars(FlushStep)

-----------------------------------------------------------------------------

Records == 0 .. MaxPoints + 2 * MaxCalls + Cardinality(Threads)

\* Every variable has its type; the start map and the ring keep to their
\* sizes (max_entries of the maps of bpf/*.bpf.c).
TypeOK ==
    /\ prog \in Programs /\ hooks \subseteq Attached
    /\ starts \in [Threads -> {NoCall} \cup 0 .. MaxCalls]
    /\ Cardinality({t \in Threads : starts[t] # NoCall}) <= MapEntries
    /\ call \in [Threads -> {NoCall} \cup 0 .. MaxCalls]
    /\ calls \in 0 .. MaxCalls /\ points \in 0 .. MaxPoints
    /\ vanished \subseteq 0 .. MaxCalls
    /\ Len(rb) <= RingSlots /\ produced \in Records
    /\ \A k \in 1 .. Len(rb) : rb[k].id \in Records /\ rb[k].stale \subseteq Fields
    /\ running \in BOOLEAN /\ report.taken \subseteq Fields
    /\ DOMAIN pidStats \subseteq Pids /\ Counted \subseteq Wakeups
    /\ held.pid \in Pids \cup {"none"}
    /\ fpc \in {"idle", "range", "write"}
    /\ batch \subseteq DOMAIN pidStats /\ fresh \subseteq DOMAIN pidStats
    /\ late \cup squeezed \cup lost \subseteq Wakeups
    /\ reports \in [Wakeups -> Nat] /\ fatal \in BOOLEAN

\* A latency measures the call that returned: never an earlier call of the
\* same thread, whose entry stayed in the start map because its exit hook
\* did not run or because the map was full (the update before and the
\* lookup and delete after a call, bpf/syscall.bpf.c and its siblings).
LatencyOfOwnCall ==
    \A k \in 1 .. Len(rb) : rb[k].measured \in {NoCall, rb[k].call}

\* An entry of the start map belongs to the call its thread is in, or to a
\* call whose exit hook never ran: nothing else may fill the map up.
StartsAccounted ==
    \A t \in Threads :
        \/ starts[t] \in {NoCall, call[t]} \cup vanished
        \/ ~ \E h \in hooks : h.hook = "exit"

Cleared == {"file_open", "tcp_connect", "sched_trace", "mem_trace", "block_trace"}

\* The comment of file_open.bpf.c (clear data so that what is left in the
\* ring does not pollute the record) taken as the rule for the collections
\* that keep it: every field their reader takes was assigned by the handler
\* that produced the record, also once the ring has wrapped.
NoResidue == prog \in Cleared => report.taken \cap report.stale = {}

\* The ports a reader takes from a record are the ones of the socket, in host
\* order, however the kernel keeps them (bpf_ntohs in http_trace, dns_trace
\* and db_trace).  network_flow reads the frame at fixed offsets and cannot
\* promise it.
PortsExact ==
    prog # "network_flow" /\ "dst_port" \in report.taken => report.exact

\* A wake-up is counted in at most one report: Reset drops what was written.
WakeupOnce == \A i \in Wakeups : reports[i] <= 1

\* flush loses a wake-up only if it was recorded while the flush was under
\* way, or if its pid did not make the list of GetTopCPUUsage(10).
WakeupLossWindow ==
    /\ lost \subseteq late \cup squeezed
    /\ \A i \in lost : reports[i] = 0

\* A wake-up in the statistics is reported by a later flush or lost in its
\* window, unless the collector is stopped or dies.
WakeupSettled ==
    \A i \in Wakeups :
        (i \in Counted) ~> (~running \/ fatal \/ i \in lost \/ reports[i] > 0)
=============================================================================
