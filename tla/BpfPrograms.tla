---------------------------- MODULE BpfPrograms ----------------------------
(***************************************************************************)
(* The kernel side of the trace collectors: every handler of bpf/*.bpf.c   *)
(* as a record of what it does to the start map of its object and which    *)
(* fields of struct event it assigns before it submits the record.         *)
(*                                                                         *)
(*   obj    the object file: its handlers share one output and one map     *)
(*   hook   where it is attached: the entry or the return of a call, or a  *)
(*          point that belongs to no call                                  *)
(*   skip   it may return before it does anything (port, family, length or *)
(*          NULL test)                                                     *)
(*   start  what it does to the start map: "put" the time of the call,     *)
(*          "take" it and return if there is none, or "peek": take it if   *)
(*          it is there                                                    *)
(*   type   the values it can store in the type field                      *)
(*   sets   the fields it always assigns, besides timestamp, type, pid     *)
(*   may    the fields it assigns only when it finds something to copy     *)
(*   ports  where it finds the ports it stores                             *)
(*   watch  the ports it captures, any port if the set is empty            *)
(*   out    the output: a ring buffer whose memory is reused as it is, a   *)
(*          perf array fed from a struct cleared on the stack, or nothing  *)
(***************************************************************************)
EXTENDS Integers, FiniteSets

\* The byte where each field of struct event starts.  data is split at the
\* first NUL: "data" up to it, "rest" behind it (bytes 88 to 343 together).
Layout ==
    [b0 |-> "timestamp_ns", b8 |-> "type", b12 |-> "pid", b16 |-> "ppid",
     b20 |-> "src_ip", b24 |-> "dst_ip", b28 |-> "src_port",
     b30 |-> "dst_port", b32 |-> "protocol", b40 |-> "bytes",
     b48 |-> "packets", b56 |-> "latency_ns", b64 |-> "count",
     b72 |-> "comm", b88 |-> "data", b88rest |-> "rest"]

Fields == {Layout[b] : b \in DOMAIN Layout}

\* enum event_type; the compiler gives MYSQL the value of MAX.
EventType ==
    [FLOW |-> 1, HTTP |-> 2, DNS |-> 3, EXEC |-> 4, EXIT |-> 5,
     FILE_OPEN |-> 6, TCP_CONNECT |-> 7, SYSCALL |-> 8, DISK_IO |-> 9,
     MAX |-> 10, MYSQL |-> 10, REDIS |-> 11, SCHED_SWITCH |-> 12,
     SCHED_WAKEUP |-> 13, KMALLOC |-> 14, KFREE |-> 15, BLOCK_ISSUE |-> 16,
     BLOCK_COMPLETE |-> 17, CAP_CAPABLE |-> 18, SECURITY_FILE_OPEN |-> 19,
     LOAD_MODULE |-> 20]

\* The maps of an object: its output, and the max_entries of its hash map.
\* http_trace, dns_trace, db_trace, sched_trace, mem_trace and security_trace
\* declare a hash map that no handler uses; network_flow looks up excluded
\* destinations in its own.
Object(prog, out, entries) == [prog |-> prog, out |-> out, entries |-> entries]

file_open      == Object("file_open", "ringbuf", 0)
process_exec   == Object("process_exec", "ringbuf", 0)
syscall        == Object("syscall", "ringbuf", 8192)
sched_trace    == Object("sched_trace", "ringbuf", 8192)
mem_trace      == Object("mem_trace", "ringbuf", 8192)
block_trace    == Object("block_trace", "ringbuf", 8192)
security_trace == Object("security_trace", "ringbuf", 4096)
http_trace     == Object("http_trace", "ringbuf", 4096)
dns_trace      == Object("dns_trace", "ringbuf", 4096)
db_trace       == Object("db_trace", "ringbuf", 4096)
tcp_connect    == Object("tcp_connect", "ringbuf", 8192)
stb_connect    == Object("stb_connect", "perf", 1024)
network_flow   == Object("network_flow", "perf", 32)
http_capture   == Object("http_capture", "perf", 0)

Handler(obj, name, hook, type, sets) ==
    [prog |-> obj.prog, out |-> obj.out, entries |-> obj.entries,
     name |-> name, hook |-> hook, type |-> {type},
     sets |-> sets \cup {"timestamp_ns", "type", "pid"}, may |-> {},
     skip |-> FALSE, start |-> "none", ports |-> "none", watch |-> {}]

Counters == {"bytes", "packets", "latency_ns", "count"}
Data     == {"data", "rest"}
Tuple    == {"src_ip", "dst_ip", "src_port", "dst_port"}

-----------------------------------------------------------------------------
(* file_open.bpf.c, process_exec.bpf.c, syscall.bpf.c                      *)

trace_do_filp_open ==
    Handler(file_open, "do_filp_open", "point", EventType.FILE_OPEN,
            {"ppid", "comm"} \cup Data)

trace_vfs_write ==
    Handler(file_open, "vfs_write", "point", EventType.FILE_OPEN,
            {"comm"} \cup Data)

tracepoint_sched_process_exec ==
    [Handler(process_exec, "exec", "point", EventType.EXEC,
             {"ppid", "comm"}) EXCEPT !.may = {"data"}]

tracepoint_sched_process_exit ==
    Handler(process_exec, "exit", "point", EventType.EXIT,
            {"ppid", "comm"})

tracepoint_sys_enter_filtered ==
    [Handler(syscall, "sys_enter", "enter", EventType.SYSCALL,
             {"comm", "count"}) EXCEPT !.start = "put", !.skip = TRUE]

tracepoint_sys_enter ==
    [Handler(syscall, "sys_enter", "enter", EventType.SYSCALL,
             {"comm", "count"}) EXCEPT !.start = "put"]

tracepoint_sys_exit_keeps ==
    Handler(syscall, "sys_exit", "exit", EventType.SYSCALL,
            {"comm", "latency_ns"})

tracepoint_sys_exit ==
    [Handler(syscall, "sys_exit", "exit", EventType.SYSCALL,
             {"comm", "latency_ns"}) EXCEPT !.start = "take"]

-----------------------------------------------------------------------------
(* sched_trace.bpf.c, mem_trace.bpf.c, block_trace.bpf.c,                  *)
(* security_trace.bpf.c                                                    *)

tracepoint_sched_switch ==
    Handler(sched_trace, "sched_switch", "point", EventType.MAX,
            {"ppid", "comm"} \cup Counters \cup Data)

tracepoint_sched_wakeup_short ==
    Handler(sched_trace, "sched_wakeup", "point", EventType.SCHED_WAKEUP,
            {"ppid", "comm", "bytes", "latency_ns", "count"} \cup Data)

tracepoint_sched_wakeup ==
    Handler(sched_trace, "sched_wakeup", "point", EventType.SCHED_WAKEUP,
            {"ppid", "comm"} \cup Counters \cup Data)

\* Attached to the entry of __kmalloc, where the return register holds
\* whatever the caller left in it: zero or not, and never stored.
trace_kmalloc ==
    [Handler(mem_trace, "kmalloc", "point", EventType.KMALLOC,
             {"comm"} \cup Counters \cup Data) EXCEPT !.skip = TRUE]

trace_kfree ==
    Handler(mem_trace, "kfree", "point", EventType.KFREE,
            {"comm"} \cup Counters \cup Data)

tracepoint_block_rq_issue ==
    [Handler(block_trace, "block_rq_issue", "enter",
             EventType.BLOCK_ISSUE, {"comm"} \cup Counters \cup Data)
        EXCEPT !.start = "put"]

tracepoint_block_rq_complete ==
    [Handler(block_trace, "block_rq_complete", "exit",
             EventType.BLOCK_COMPLETE, {"comm"} \cup Counters \cup Data)
        EXCEPT !.start = "take"]

trace_cap_capable ==
    Handler(security_trace, "cap_capable", "point",
            EventType.CAP_CAPABLE, {"comm"} \cup Counters \cup Data)

trace_security_file_open ==
    Handler(security_trace, "security_file_open", "point",
            EventType.SECURITY_FILE_OPEN,
            {"comm", "bytes", "packets", "data"})

trace_load_module ==
    Handler(security_trace, "load_module", "point",
            EventType.LOAD_MODULE, {"comm", "bytes", "packets"} \cup Data)

-----------------------------------------------------------------------------
(* http_trace.bpf.c, dns_trace.bpf.c, db_trace.bpf.c: one body for send    *)
(* and receive; only a user buffer that can be found is copied.            *)

Message(obj, name, type, watch) ==
    [Handler(obj, name, "point", type,
             {"comm", "protocol"} \cup Tuple \cup Counters)
        EXCEPT !.may = {"data"}, !.ports = "sock", !.watch = watch]

http_tcp_msg == Message(http_trace, "tcp_msg", EventType.HTTP, {80, 443, 8080})

dns_udp_msg == Message(dns_trace, "udp_msg", EventType.DNS, {53})

MySQL == 3306

Redis == 6379

\* The type is MYSQL if one of the ports is MySQL's (Types).
handle_db_tcp ==
    [Message(db_trace, "db_tcp", EventType.MYSQL, {MySQL, Redis})
        EXCEPT !.type = {EventType.MYSQL, EventType.REDIS}]

-----------------------------------------------------------------------------
(* tcp_connect.bpf.c, stb_connect.bpf.c, network_flow.bpf.c,               *)
(* http_capture.bpf.c                                                      *)

trace_tcp_v4_connect_entry ==
    [Handler(tcp_connect, "connect_entry", "enter",
             EventType.TCP_CONNECT, {}) EXCEPT !.start = "put", !.out = "none"]

trace_tcp_v4_connect ==
    [Handler(tcp_connect, "connect", "enter", EventType.TCP_CONNECT,
             {"comm"} \cup Tuple) EXCEPT !.ports = "connect"]

trace_tcp_v4_connect_exit ==
    [Handler(tcp_connect, "connect_exit", "exit", EventType.TCP_CONNECT,
             {"comm", "latency_ns"}) EXCEPT !.start = "take"]

\* read_sockaddr_in fails, or the family is not IPv4: nothing is stored and
\* nothing is sent, although the call goes on.
sys_enter_connect ==
    [Handler(stb_connect, "enter_connect", "enter",
             EventType.TCP_CONNECT, Fields)
        EXCEPT !.start = "put", !.skip = TRUE, !.ports = "sockaddr"]

sys_exit_connect ==
    [Handler(stb_connect, "exit_connect", "exit", EventType.TCP_CONNECT,
             Fields) EXCEPT !.start = "peek"]

\* f1 and f2 send a struct fe of their own, cleared and without a type.  A
\* frame that is short, not IPv4 or excluded is passed over.
Flow(name) ==
    [Handler(network_flow, name, "point", 0, Fields)
        EXCEPT !.skip = TRUE, !.ports = "packet"]

f1 == Flow("f1")

f2 == Flow("f2")

capture_tcp_msg ==
    [Handler(http_capture, "capture_msg", "point", EventType.HTTP, Fields)
        EXCEPT !.ports = "sock", !.watch = {80, 443, 8080}]

-----------------------------------------------------------------------------
(* Ports.  A socket is its own port and its peer's.  The kernel keeps the  *)
(* first in host order (skc_num) and the second in network order           *)
(* (skc_dport), which is the other one on the little-endian targets.       *)

bpf_swab16(x) == (x % 256) * 256 + x \div 256

bpf_htons(x) == bpf_swab16(x)

bpf_ntohs_dropped(x) == x

bpf_ntohs(x) == bpf_swab16(x)

\* The source and destination port a handler can store for a socket: f1 and
\* f2 look for them 34 bytes into the frame, behind an IPv4 header without
\* options, and store none for other protocols than TCP and UDP.
StoredPorts(h, sk) ==
    LET skc_num   == sk.local
        skc_dport == bpf_htons(sk.peer)
    IN  CASE h.ports = "sock"     -> {<<skc_num, bpf_ntohs(skc_dport)>>}
          [] h.ports = "connect"  -> {<<bpf_ntohs(skc_num), bpf_ntohs(skc_dport)>>}
          [] h.ports = "sockaddr" -> {<<0, bpf_ntohs(skc_dport)>>}
          [] h.ports = "packet"   ->
                {<<bpf_ntohs(bpf_htons(sk.local)), bpf_ntohs(skc_dport)>>, <<0, 0>>}
          [] OTHER                -> {<<0, 0>>}

Watched(h, ports) == h.watch = {} \/ {ports[1], ports[2]} \cap h.watch # {}

\* The types a record can have: handle_db_tcp goes by the ports.
Types(h, ports) ==
    IF h.prog = "db_trace"
    THEN {IF MySQL \in {ports[1], ports[2]} THEN EventType.MYSQL ELSE EventType.REDIS}
    ELSE h.type

-----------------------------------------------------------------------------

\* What the collectors attach.  SecurityCollector.Init attaches connect and
\* connect_exit of tcp_connect.bpf.o and leaves out connect_entry.  The
\* objects of stb_connect and http_capture are built and loaded by hand.
Attached ==
    {trace_do_filp_open, trace_vfs_write, tracepoint_sched_process_exec,
     tracepoint_sched_process_exit, tracepoint_sys_enter,
     tracepoint_sys_exit, tracepoint_sched_switch, tracepoint_sched_wakeup,
     trace_kmalloc, trace_kfree, tracepoint_block_rq_issue,
     tracepoint_block_rq_complete, trace_cap_capable,
     trace_security_file_open, trace_load_module, http_tcp_msg, dns_udp_msg,
     handle_db_tcp, trace_tcp_v4_connect, trace_tcp_v4_connect_exit,
     sys_enter_connect, sys_exit_connect, f1, f2, capture_tcp_msg}

Programs == {h.prog : h \in Attached}

\* The objects with handlers at the entry or the return of a call.
CallPrograms == {"syscall", "block_trace", "tcp_connect", "stb_connect"}
=============================================================================
