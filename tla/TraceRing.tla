----------------------------- MODULE TraceRing -----------------------------
(***************************************************************************)
(* One collection of bpf/ loaded by its collector: the handlers that could *)
(* be attached, the start map they share, the ring buffer or perf array    *)
(* they submit to, and the collector's reader, which decodes the records   *)
(* by byte offset.                                                         *)
(*                                                                         *)
(* A thread stands for the key of the start map: pid and tid, or device    *)
(* and sector for a block request.  A start time is represented by the     *)
(* call it was taken in, so a latency is right when it measures the call   *)
(* that returns.  Call 0 was already running when the handlers were        *)
(* attached.  The bytes of a ring buffer are zero until it has wrapped;    *)
(* from then on a field that the handler does not assign holds what older  *)
(* records left there.                                                     *)
(***************************************************************************)
EXTENDS BpfPrograms, Sequences

CONSTANTS
    Threads,
    MapEntries,  \* bound on the entries of a start map
    Ports,       \* port numbers of the sockets, in host order
    RingSlots,   \* records that fit into the output at the same time
    MaxCalls,    \* bound on the calls that begin
    MaxPoints    \* bound on the events that belong to no call

ASSUME TraceRingAssumption ==
    /\ IsFiniteSet(Threads)
    /\ MapEntries \in Nat \ {0} /\ RingSlots \in Nat \ {0}
    /\ MaxCalls \in Nat /\ MaxPoints \in Nat

\* A port is two bytes.
ASSUME PortsAssumption ==
    \A p \in Ports : \E high, low \in 0 .. 255 : p = 256 * high + low

VARIABLES
    prog, hooks, \* the collection and the handlers attached to the kernel
    starts,      \* the start map: thread -> call, NoCall where no entry
    call,        \* the call each thread is in
    calls,       \* calls begun
    points,      \* events of no call
    vanished,    \* calls that ended without running the exit hook
    rb,          \* submitted records the reader has not taken
    produced,    \* records submitted so far
    running,     \* the collector has not been stopped
    report       \* the record handled last

ringVars ==
    <<prog, hooks, starts, call, calls, points, vanished, rb, produced,
      running, report>>

NoCall == -1

NoRecord ==
    [by |-> "none", pid |-> "none", type |-> 0, id |-> 0, call |-> NoCall,
     measured |-> NoCall, stale |-> {}, exact |-> TRUE, taken |-> {}]

Sockets == [local : Ports, peer : Ports]

-----------------------------------------------------------------------------
(* The kernel's helpers, as the handlers use them.                         *)

\* bpf_map_update_elem(BPF_ANY) on the start map: an entry that exists is
\* overwritten, a new one is refused when the map is full.
map_update_elem(h, t, c) ==
    LET used == Cardinality({u \in Threads : starts[u] # NoCall}) IN
    IF starts[t] # NoCall \/ (used < MapEntries /\ used < h.entries)
    THEN [starts EXCEPT ![t] = c]
    ELSE starts

\* bpf_ringbuf_reserve or bpf_perf_event_output, and the assignments of the
\* handler: no room, no record.  exact says that the ports stored are those
\* of the socket, in host order.
Submit(h, t, c, sk, ports) ==
    IF Len(rb) >= RingSlots
    THEN UNCHANGED <<rb, produced>>
    ELSE \E ty \in Types(h, ports), copied \in {{}, h.may} :
            /\ produced' = produced + 1
            /\ rb' = Append(rb,
                 [by |-> h.name, pid |-> t, type |-> ty, id |-> produced + 1,
                  call |-> c, taken |-> {},
                  exact |-> h.ports = "none" \/ ports = <<sk.local, sk.peer>>,
                  measured |-> IF h.start \in {"take", "peek"}
                               THEN starts[t] ELSE NoCall,
                  stale |-> IF h.out = "ringbuf" /\ produced >= RingSlots
                            THEN Fields \ (h.sets \cup copied) ELSE {}])

\* One run of handler h on behalf of call c of thread t.
Run(h, t, c) ==
    \/ /\ h.skip
       /\ UNCHANGED <<starts, rb, produced>>
    \/ /\ \E sk \in Sockets : \E p \in StoredPorts(h, sk) : ~Watched(h, p)
       /\ UNCHANGED <<starts, rb, produced>>
    \/ /\ starts' = CASE h.start = "put" -> map_update_elem(h, t, c)
                      [] h.start \in {"take", "peek"} ->
                            [starts EXCEPT ![t] = NoCall]
                      [] OTHER -> starts
       /\ IF h.out = "none" \/ (h.start = "take" /\ starts[t] = NoCall)
          THEN UNCHANGED <<rb, produced>>
          ELSE \E sk \in Sockets : \E p \in StoredPorts(h, sk) :
                  Watched(h, p) /\ Submit(h, t, c, sk, p)

\* What happens at a hook no handler is attached to.
RunHook(hook, t, c) ==
    IF \E h \in hooks : h.hook = hook
    THEN \E h \in hooks : h.hook = hook /\ Run(h, t, c)
    ELSE UNCHANGED <<starts, rb, produced>>

-----------------------------------------------------------------------------
(* What the kernel does around the handlers.                               *)

BeginCall(t) ==
    /\ prog \in CallPrograms
    /\ call[t] = NoCall
    /\ calls < MaxCalls
    /\ calls' = calls + 1
    /\ call' = [call EXCEPT ![t] = calls + 1]
    /\ RunHook("enter", t, calls + 1)
    /\ UNCHANGED <<prog, hooks, points, vanished, running, report>>

ReturnCall(t) ==
    /\ call[t] # NoCall
    /\ call' = [call EXCEPT ![t] = NoCall]
    /\ RunHook("exit", t, call[t])
    /\ UNCHANGED <<prog, hooks, calls, points, vanished, running, report>>

\* exit_group does not return, a kretprobe can run out of instances, a block
\* request can be dropped or requeued.
VanishCall(t) ==
    /\ prog \in {"syscall", "tcp_connect", "block_trace"}
    /\ call[t] # NoCall
    /\ call' = [call EXCEPT ![t] = NoCall]
    /\ vanished' = vanished \cup {call[t]}
    /\ UNCHANGED <<prog, hooks, starts, calls, points, rb, produced, running,
                   report>>

Point(t) ==
    /\ points < MaxPoints
    /\ points' = points + 1
    /\ \E h \in hooks : h.hook = "point" /\ Run(h, t, NoCall)
    /\ UNCHANGED <<prog, hooks, call, calls, vanished, running, report>>

-----------------------------------------------------------------------------
(* The readers: the bytes each handleEvent takes from a record, by the     *)
(* type it finds in bytes 8 to 11.                                         *)

SecurityTakes(ty) ==
    CASE ty = 6 -> {"b12", "b72", "b88"} [] ty = 7 -> {"b12", "b72"}
      [] OTHER -> {}

PerformanceTakes(ty) ==
    CASE ty = 4 -> {"b12", "b16", "b72", "b88", "b88rest"}
      [] ty = 5 -> {"b12", "b16", "b72"} [] OTHER -> {}

SyscallTakes == {"b12", "b72", "b56", "b64"}

SchedTakes(ty) == IF ty \in {12, 13} THEN {"b12", "b16", "b48"} ELSE {}

MemTakes(ty) ==
    CASE ty = 14 -> {"b12", "b40"} [] ty = 15 -> {"b12"} [] OTHER -> {}

BlockTakes(ty) ==
    CASE ty = 16 -> {"b12", "b40", "b48"} [] ty = 17 -> {"b12", "b40"}
      [] OTHER -> {}

SecurityTraceTakes(ty) ==
    CASE ty = 18 -> {"b12", "b64", "b48"}
      [] ty = 19 -> {"b12", "b72", "b88", "b88rest"}
      [] ty = 20 -> {"b12"} [] OTHER -> {}

Addresses == {"b20", "b24", "b28", "b30"}

\* handleFlowEvent decodes all of struct fe but the direction: the fields are
\* named here by where struct event has them.
NetworkTakes == {"b32", "b40", "b48"} \cup Addresses

Payload   == {"b72", "b88", "b88rest"} \* bytes 72 to 327

DnsTakes(ty) == IF ty = 3 THEN {"b12"} \cup Addresses \cup Payload ELSE {}

HttpTakes(ty) ==
    IF ty = 2 THEN {"b12", "b32", "b40"} \cup Addresses \cup Payload ELSE {}

DbTakes == Addresses \cup Payload

\* The bytes the reader of collection p takes from a record of type ty.
Takes(p, ty) ==
    CASE p \in {"file_open", "tcp_connect"} -> SecurityTakes(ty)
      [] p = "process_exec" -> PerformanceTakes(ty)
      [] p = "syscall" -> SyscallTakes
      [] p = "sched_trace" -> SchedTakes(ty)
      [] p = "mem_trace" -> MemTakes(ty)
      [] p = "block_trace" -> BlockTakes(ty)
      [] p = "security_trace" -> SecurityTraceTakes(ty)
      [] p = "dns_trace" -> DnsTakes(ty)
      [] p = "http_trace" -> HttpTakes(ty)
      [] p = "db_trace" -> DbTakes
      [] p = "network_flow" -> NetworkTakes
      [] OTHER -> {}

\* reader.Read and handleEvent: a type it does not know is passed over.
ReadRecord ==
    /\ running
    /\ rb # <<>>
    /\ rb' = Tail(rb)
    /\ report' = [Head(rb) EXCEPT
                    !.taken = {Layout[b] : b \in Takes(prog, Head(rb).type)}]
    /\ UNCHANGED <<prog, hooks, starts, call, calls, points, vanished,
                   produced, running>>

\* Stop closes the reader and the links: no handler runs any more, and the
\* records still in the ring are never read.
StopCollector ==
    /\ running
    /\ running' = FALSE
    /\ hooks' = {}
    /\ UNCHANGED <<prog, starts, call, calls, points, vanished, rb, produced,
                   report>>

-----------------------------------------------------------------------------

\* Init of a collector only logs a handler it cannot attach.
RingInit ==
    /\ prog \in Programs
    /\ hooks \in SUBSET {h \in Attached : h.prog = prog}
    /\ starts = [t \in Threads |-> NoCall]
    /\ call \in [Threads -> IF prog \in CallPrograms THEN {NoCall, 0}
                                                    ELSE {NoCall}]
    /\ calls = 0 /\ points = 0 /\ vanished = {}
    /\ rb = <<>> /\ produced = 0
    /\ running = TRUE
    /\ report = NoRecord

\* What the kernel does after Stop is of no interest to the collector.
Kernel ==
    /\ running
    /\ \E t \in Threads :
          BeginCall(t) \/ ReturnCall(t) \/ VanishCall(t) \/ Point(t)
=============================================================================
