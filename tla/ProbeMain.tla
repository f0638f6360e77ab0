----------------------------- MODULE ProbeMain -----------------------------
(***************************************************************************)
(* The C probe's main (src/main.c) with the descriptors it owns: start-up, *)
(* bpf_loader_init with a failure at each of its system calls, the loop    *)
(* that drains packets, polls /proc/net, serialises and sends a report,    *)
(* and the shutdown a signal asks for.                                     *)
(*                                                                         *)
(* A flow event is a number and the length of its JSON text.  Flow records *)
(* are FlowTracker's, back-off and stream TcpClient's: here the client is  *)
(* its descriptor and whether it is connected, and every attempt may be    *)
(* put off, refused or accepted.                                           *)
(***************************************************************************)
EXTENDS Serializer, HostMetrics, ProcNet, BpfLoader

CONSTANTS
    Lens,        \* lengths of an event's text
    Boxes,       \* readings of the box (HostMetrics)
    MetricLen,   \* length of the host metric's text without its numbers
    EnvPorts,    \* what atoi makes of STB_RELAY_PORT
    OutSize,     \* sizeof(json_buf)
    SendRoom,    \* the longest JSON text that fits http_buf
    MaxEvents,   \* ft->max_events, also the size of main's events array
    RoundLimit,  \* packets read in one round (1000)
    MaxShown,    \* bound on the sockets one file of /proc/net shows
    Quarter,     \* MAX_FLOWS / 4
    Period,      \* passes of the loop in 30 s
    Limit        \* bound on the events made in a run

ASSUME ProbeMainAssumption ==
    /\ Lens \subseteq Nat \ {0} /\ MetricLen \in Nat /\ EnvPorts \subseteq Int
    /\ OutSize \in Nat /\ SendRoom \in Nat /\ OutSize > 4
    /\ MaxEvents \in Nat \ {0} /\ RoundLimit \in Nat
    /\ MaxShown \in Nat /\ Quarter \in Nat
    /\ Period \in Nat /\ Limit \in Nat
    \* json_buf is MAX_JSON_LEN * 16 bytes, http_buf half of that
    /\ SendRoom < OutSize - 1

\* snprintf gives the metric's text a length for every reading of the box.
ASSUME MetricAssumption ==
    \A box \in Boxes :
       serialize_host_metric(host_metrics_collect(box), MetricLen) \in Nat

NoFd == -1

VARIABLES
    pc,         \* where main stands
    g_stop,     \* set by sig_handler
    use_bpf,    \* main's mode
    status,     \* bpf_status: socket_fd and bpf_prog_fd
    tcp,        \* the client: sock_fd and is_connected
    open,       \* the kernel's descriptor table: number -> what it is
    foreign,    \* history: a close hit a descriptor of another owner
    round,      \* pkt_this_round
    polled,     \* the poll of this pass: sockets shown?, entries read
    tracker,    \* the tracker's pending events
    since,      \* passes since last_metric_ns, saturated at Period
    batch,      \* the events array of the report under way
    text,       \* json_buf of that report
    offered, delivered, discarded \* history: the fate of every event

fates == <<offered, delivered, discarded>>
pass == <<round, polled>>
vars == <<pc, g_stop, use_bpf, status, tcp, open, foreign, pass, tracker,
          since, batch, text, fates>>

NoStatus == [socket_fd |-> NoFd, bpf_prog_fd |-> NoFd]

NoPoll == [shown |-> FALSE, entries |-> 0]

Event == [id : 1 .. Limit, len : Lens]

Ids(seq) == {seq[i].id : i \in 1 .. Len(seq)}

NoText == serialize_batch(<<>>, 0, OutSize)

-----------------------------------------------------------------------------
(* The descriptor table                                                    *)

\* The kernel gives out the lowest number that is free, after stdio.
NewFd(tab) ==
    CHOOSE f \in 3 .. 3 + Cardinality(DOMAIN tab) :
       /\ f \notin DOMAIN tab
       /\ \A g \in 3 .. f - 1 : g \in DOMAIN tab

Open(tab, what) ==
    [f \in DOMAIN tab \cup {NewFd(tab)} |-> IF f \in DOMAIN tab THEN tab[f] ELSE what]

Close(tab, fd) == [f \in DOMAIN tab \ {fd} |-> tab[f]]

Foreign(tab, fd, what) == fd \in DOMAIN tab /\ tab[fd] # what

-----------------------------------------------------------------------------
(* Start-up                                                                *)

Init ==
    /\ pc = "args" /\ g_stop = FALSE /\ use_bpf = FALSE
    /\ status = NoStatus
    /\ tcp = [sock_fd |-> NoFd, is_connected |-> FALSE]
    /\ open = <<>> /\ foreign = FALSE
    /\ round = 0 /\ polled = NoPoll /\ tracker = <<>> /\ batch = <<>> /\ text = NoText
    \* last_metric_ns is 0, so this is how long the box has been up
    /\ since \in 0 .. Period
    /\ offered = 0 /\ delivered = {} /\ discarded = {}

\* -h and -v print and leave; a signal that comes before signal() ends the
\* process as well.
Args ==
    /\ pc = "args" /\ pc' \in {"create", "exit"}
    /\ UNCHANGED <<g_stop, use_bpf, status, tcp, open, foreign, pass,
                   tracker, since, batch, text, fates>>

\* tcp_client_try_connect into the table tab
Connect(tab) ==
    \/ /\ tcp' = [sock_fd |-> NewFd(tab), is_connected |-> TRUE]
       /\ open' = Open(tab, "tcp")
    \/ /\ tcp' = [sock_fd |-> NoFd, is_connected |-> FALSE]
       /\ open' = tab

RELAY_SERVER_PORT == 9104

\* relay_server_port for a variable that is not set, or empty, and for one
\* that is set.
config_load_from_env(v) == IF v = <<>> THEN RELAY_SERVER_PORT ELSE v[1]

\* tcp_client_init makes no client for a port out of range.
tcp_client_init(port) == port > 0 /\ port <= 65535

\* The tracker, the client and the detector; an allocation that fails, or a
\* client that is not made, returns from main, before or after the first
\* connect.
Create ==
    /\ pc = "create"
    /\ \/ pc' = "exit" /\ UNCHANGED <<tcp, open>>
       \/ /\ \E v \in {<<>>} \cup {<<p>> : p \in EnvPorts} :
                tcp_client_init(config_load_from_env(v))
          /\ pc' \in {"load", "exit"} /\ Connect(open)
    /\ UNCHANGED <<g_stop, use_bpf, status, foreign, pass, tracker, since,
                   batch, text, fates>>

LoaderInitLeaksProg(step) ==
    LET loaded == Open(open, "prog")
        bound  == Open(loaded, "packet")
        prog   == NewFd(open)
        sock   == NewFd(loaded)
    IN  /\ use_bpf' = (step = "done")
        /\ status' = [socket_fd   |-> IF step = "done" THEN sock ELSE NoFd,
                      bpf_prog_fd |-> IF step = "prog_load" THEN NoFd ELSE prog]
        /\ open' = CASE step = "prog_load" -> open
                     [] step = "socket"    -> Close(loaded, prog)
                     [] step = "attach"    -> Close(bound, sock)
                     [] step = "done"      -> bound

\* bpf_loader_init up to the first system call that fails: BPF_PROG_LOAD,
\* socket, or one of SIOCGIFINDEX, bind and SO_ATTACH_BPF.  The number of a
\* program that was loaded stays in the status after the close.
bpf_loader_init(step) ==
    LET loaded == Open(open, "prog")
        bound  == Open(loaded, "packet")
        prog   == NewFd(open)
        sock   == NewFd(loaded)
    IN  /\ use_bpf' = (step = "done")
        /\ status' = [socket_fd   |-> IF step = "done" THEN sock ELSE NoFd,
                      bpf_prog_fd |-> IF step = "prog_load" THEN NoFd ELSE prog]
        /\ open' = CASE step = "prog_load" -> open
                     [] step = "socket"    -> Close(loaded, prog)
                     [] step = "attach"    -> Close(Close(bound, sock), prog)
                     [] step = "done"      -> bound

Load ==
    /\ pc = "load" /\ pc' = "round"
    /\ \E obj \in Objects, step \in {"prog_load", "socket", "attach", "done"} :
          /\ step # "prog_load" => Verified(Program(obj))
          /\ bpf_loader_init(step)
    /\ UNCHANGED <<g_stop, tcp, foreign, pass, tracker, since, batch, text, fates>>

-----------------------------------------------------------------------------
(* One pass of the loop                                                    *)

Begin ==
    /\ pc = "round" /\ ~g_stop
    /\ pc' = IF use_bpf THEN "drain" ELSE "poll"
    /\ UNCHANGED <<g_stop, use_bpf, status, tcp, open, foreign, pass, tracker,
                   since, batch, text, fates>>

\* add_event for each of the lengths: the tracker keeps the ones there is
\* room for.
add_event(lens) ==
    LET room == MaxEvents - Len(tracker)
        kept == IF Len(lens) <= room THEN Len(lens) ELSE room
    IN  /\ offered + Len(lens) <= Limit
        /\ offered' = offered + Len(lens)
        /\ tracker' = tracker \o
              [i \in 1 .. kept |-> [id |-> offered + i, len |-> lens[i]]]
        /\ discarded' = discarded \cup (offered + kept + 1 .. offered + Len(lens))
        /\ UNCHANGED delivered

DrainPacketOneMore ==
    /\ pc = "drain" /\ ~g_stop /\ round <= RoundLimit
    /\ round' = round + 1
    /\ add_event(<<>>) \/ \E l \in Lens : add_event(<<l>>)
    /\ UNCHANGED <<pc, g_stop, use_bpf, status, tcp, open, foreign, polled, since,
                   batch, text>>

\* A packet that parses: flow_tracker_update_single makes an event if the
\* flow has a record.  A packet that does not parse changes nothing here.
DrainPacket ==
    /\ pc = "drain" /\ ~g_stop /\ round < RoundLimit
    /\ round' = round + 1
    /\ add_event(<<>>) \/ \E l \in Lens : add_event(<<l>>)
    /\ UNCHANGED <<pc, g_stop, use_bpf, status, tcp, open, foreign, polled, since,
                   batch, text>>

DrainDoneStops ==
    /\ pc = "drain" /\ pc' = (IF g_stop THEN "round" ELSE "poll") /\ round' = 0
    /\ UNCHANGED <<g_stop, use_bpf, status, tcp, open, foreign, polled, tracker,
                   since, batch, text, fates>>

\* The socket is empty, the round is full or a signal came.
DrainDone ==
    /\ pc = "drain" /\ pc' = "poll" /\ round' = 0
    /\ UNCHANGED <<g_stop, use_bpf, status, tcp, open, foreign, polled, tracker,
                   since, batch, text, fates>>

\* The four files are read and flow_tracker_update makes an event of each
\* entry that has changed, in both modes.
Poll ==
    /\ pc = "poll" /\ pc' = "report"
    /\ \E shown \in [Files -> 0 .. MaxShown] :
          \E entries \in {ReadAll(shown, Quarter)} :
             /\ polled' = [shown |-> \E f \in Files : shown[f] > 0,
                           entries |-> entries]
             /\ \E n \in 0 .. entries : \E lens \in [1 .. n -> Lens] :
                   add_event(lens)
    /\ UNCHANGED <<g_stop, use_bpf, status, tcp, open, foreign, round, since,
                   batch, text>>

\* The length of the metric's text if it is due, 0 for no metric.
Metrics ==
    IF since = Period
    THEN {serialize_host_metric(host_metrics_collect(box), MetricLen) : box \in Boxes}
    ELSE {0}

flow_tracker_flush_skipped == tracker

\* Before the send, so a report that fails is not kept for the next one.
flow_tracker_flush == <<>>

\* The metric if it is due, get_events, serialize_batch and the flush.  A
\* text that leaves json_buf makes everything after it undefined.
Report ==
    /\ pc = "report"
    /\ since' = IF since = Period THEN 0 ELSE since
    /\ \/ /\ tracker = <<>> /\ since < Period
          /\ pc' = "sleep" /\ UNCHANGED <<text, batch, tracker>>
       \/ /\ tracker # <<>> \/ since = Period
          /\ \E json \in {serialize_batch([i \in DOMAIN tracker |-> tracker[i].len],
                                         metric, OutSize) : metric \in Metrics} :
                /\ text' = json
                /\ pc' = IF json.top < OutSize THEN "link" ELSE "undefined"
          /\ batch' = tracker /\ tracker' = flow_tracker_flush
    /\ polled' = NoPoll
    /\ UNCHANGED <<g_stop, use_bpf, status, tcp, open, foreign, round, fates>>

\* tcp_client_reconnect: put off or given up, or the old socket is closed and
\* a connection is tried.
tcp_client_reconnect ==
    \/ /\ tcp' = [tcp EXCEPT !.is_connected = FALSE]
       /\ UNCHANGED <<open, foreign>>
    \/ /\ foreign' = (foreign \/ Foreign(open, tcp.sock_fd, "tcp"))
       /\ Connect(Close(open, tcp.sock_fd))

\* tcp_client_is_connected, and tcp_client_reconnect when it says no: a
\* connection may turn out to be dead.
Link ==
    /\ pc = "link" /\ pc' = "recheck"
    /\ \/ tcp.is_connected /\ UNCHANGED <<tcp, open, foreign>>
       \/ tcp_client_reconnect
    /\ UNCHANGED <<g_stop, use_bpf, status, pass, tracker, since, batch, text, fates>>

Dropped ==
    /\ discarded' = discarded \cup Ids(batch)
    /\ batch' = <<>> /\ text' = NoText
    /\ UNCHANGED <<offered, delivered>>

\* The second tcp_client_is_connected.
Recheck ==
    /\ pc = "recheck"
    /\ \/ /\ tcp.is_connected /\ pc' = "send"
          /\ UNCHANGED <<tcp, batch, text, fates>>
       \/ /\ tcp' = [tcp EXCEPT !.is_connected = FALSE]
          /\ pc' = "sleep" /\ Dropped
    /\ UNCHANGED <<g_stop, use_bpf, status, open, foreign, pass, tracker, since>>

FitsRequestUnchecked == TRUE

\* The test before the request is put together in http_buf.
FitsRequest == text.len <= SendRoom

\* tcp_client_send writes the whole request.
SendAll ==
    /\ pc = "send" /\ pc' = "sleep" /\ FitsRequest
    /\ delivered' = delivered \cup Ids(batch)
    /\ batch' = <<>> /\ text' = NoText
    /\ UNCHANGED <<g_stop, use_bpf, status, tcp, open, foreign, pass, tracker,
                   since, offered, discarded>>

\* It does not fit, or send() stalls: the call fails, the connection stays.
SendFails ==
    /\ pc = "send" /\ pc' = "sleep" /\ Dropped
    /\ UNCHANGED <<g_stop, use_bpf, status, tcp, open, foreign, pass, tracker,
                   since>>

\* send() finds the connection gone: tcp_client_reconnect, and the report is
\* not sent again.
SendLost ==
    /\ pc = "send" /\ pc' = "sleep" /\ FitsRequest /\ Dropped
    /\ tcp_client_reconnect
    /\ UNCHANGED <<g_stop, use_bpf, status, pass, tracker, since>>

\* usleep; 30 s are Period passes, and a pass may take longer.
Sleep ==
    /\ pc = "sleep" /\ pc' = "round"
    /\ since' \in (IF since = Period THEN since ELSE since + 1) .. Period
    /\ UNCHANGED <<g_stop, use_bpf, status, tcp, open, foreign, pass, tracker,
                   batch, text, fates>>

-----------------------------------------------------------------------------
(* Shutdown                                                                *)

CleansUpAlways == TRUE

CleansUpNever == FALSE

\* Only a loader that succeeded is cleaned up.
CleansUp == use_bpf

\* The socket, then the program; nr_cpus is 0, there are no perf buffers.
bpf_loader_cleanup(tab) == Close(Close(tab, status.socket_fd), status.bpf_prog_fd)

\* bpf_loader_cleanup if the loader succeeded, then tcp_client_cleanup.
Shutdown ==
    /\ pc = "round" /\ g_stop /\ pc' = "done"
    /\ LET unbound == Close(open, status.socket_fd)
           left    == IF CleansUp THEN bpf_loader_cleanup(open) ELSE open
       IN  /\ open' = Close(left, tcp.sock_fd)
           /\ foreign' =
                 \/ foreign
                 \/ CleansUp /\ Foreign(open, status.socket_fd, "packet")
                 \/ CleansUp /\ Foreign(unbound, status.bpf_prog_fd, "prog")
                 \/ Foreign(left, tcp.sock_fd, "tcp")
           /\ status' = IF CleansUp
                        THEN NoStatus
                        ELSE status
    /\ tcp' = [sock_fd |-> NoFd, is_connected |-> FALSE]
    /\ UNCHANGED <<g_stop, use_bpf, pass, tracker, since, batch, text, fates>>

\* SIGINT or SIGTERM once the handlers are installed
sig_handler ==
    /\ pc \notin {"args", "exit", "done", "undefined"} /\ ~g_stop
    /\ g_stop' = TRUE
    /\ UNCHANGED <<pc, use_bpf, status, tcp, open, foreign, pass, tracker,
                   since, batch, text, fates>>

Main ==
    \/ Args \/ Create \/ Load \/ Begin \/ DrainPacket \/ DrainDone \/ Poll
    \/ Report \/ Link \/ Recheck \/ SendAll \/ SendFails \/ SendLost \/ Sleep
    \/ Shutdown

Next == Main \/ sig_handler

\* main is one thread that never blocks for ever: every call in it has a
\* time-out or does not wait.
Spec == Init /\ [][Next]_vars /\ WF_vars(Main)

-----------------------------------------------------------------------------
Pcs == {"args", "create", "load", "round", "drain", "poll", "report", "link",
        "recheck", "send", "sleep", "done", "exit", "undefined"}

TypeOK ==
    /\ pc \in Pcs /\ g_stop \in BOOLEAN /\ use_bpf \in BOOLEAN
    /\ status \in [socket_fd : Int, bpf_prog_fd : Int]
    /\ tcp \in [sock_fd : Int, is_connected : BOOLEAN]
    /\ DOMAIN open \subseteq 3 .. 5
    /\ \A f \in DOMAIN open : open[f] \in {"tcp", "prog", "packet"}
    /\ foreign \in BOOLEAN /\ round \in 0 .. RoundLimit
    /\ polled \in [shown : BOOLEAN, entries : 0 .. 2 * Quarter]
    /\ tracker \in Seq(Event) /\ Len(tracker) <= MaxEvents
    /\ batch \in Seq(Event) /\ since \in 0 .. Period
    /\ offered \in 0 .. Limit
    /\ delivered \subseteq 1 .. Limit /\ discarded \subseteq 1 .. Limit

(* No close of main, of the loader or of the TCP client ever hits a        *)
(* descriptor another part has opened, although a failed bpf_loader_init   *)
(* leaves in bpf_status the number of a program it has closed and the next *)
(* connect gets that number.                                               *)
NoForeignClose == ~foreign

(* From the main loop on, the process holds exactly the descriptors its    *)
(* parts will close: no failure path of bpf_loader_init and no reconnect   *)
(* leaks one, and none is left when main returns.                          *)
DescriptorsOwned ==
    pc \notin {"args", "create", "load", "exit"} =>
       /\ DOMAIN open = ({tcp.sock_fd} \cup
             (IF use_bpf THEN {status.socket_fd, status.bpf_prog_fd} ELSE {}))
                \ {NoFd}
       /\ tcp.sock_fd # NoFd => open[tcp.sock_fd] = "tcp"
       /\ use_bpf /\ pc # "done" =>
             /\ status.socket_fd \in DOMAIN open
             /\ status.bpf_prog_fd \in DOMAIN open
             /\ open[status.socket_fd] = "packet"
             /\ open[status.bpf_prog_fd] = "prog"

(* A batch that fits json_buf is serialised without loss: all events, the  *)
(* metric if it is due, one comma between two texts.                       *)
FitsThenExact ==
    [][pc = "report" /\ pc' \in {"link", "undefined"} =>
          LET lens == [i \in DOMAIN tracker |-> tracker[i].len] IN
          \E metric \in Metrics :
             LET full == FullLength(lens, metric) IN
             text' = IF full >= OutSize
                     THEN serialize_batch(lens, metric, OutSize)
                     ELSE [len |-> full, top |-> full, n |-> Len(tracker),
                           metric |-> metric # 0, cut |-> FALSE]]_vars

(* The relay never gets a report that serialize_batch cut or shortened:    *)
(* main does not look, but http_buf is small enough for tcp_client_send to *)
(* refuse every such text.                                                 *)
WholeDelivered ==
    [][delivered' # delivered => text.n = Len(batch) /\ ~text.cut]_vars

(* A signal ends the drain, not the pass: when main returns, every event   *)
(* that was made has been sent or given up, none is still in the tracker.  *)
NothingLeftBehind ==
    pc \in {"round", "done"} => delivered \cup discarded = 1 .. offered

(* Every event is sent at most once, and a report that was given up is     *)
(* never sent later: flow_tracker_flush before the send, whatever happens  *)
(* to the connection.                                                      *)
CourierSpec ==
    INSTANCE Courier WITH waiting <- Ids(tracker) \cup Ids(batch)
ImplementsCourier == CourierSpec!Spec

(* SIGTERM ends the probe, with all descriptors closed, from any point of  *)
(* the loop and in any state of the link.                                  *)
ShutdownCompletes ==
    g_stop ~> (pc \in {"exit", "undefined"} \/ (pc = "done" /\ open = <<>>))

(* "Mode: eBPF socket filter + /proc/net fallback" (src/main.c:404): a     *)
(* pass over a box with sockets sees packets or sockets.                   *)
NeverBlind ==
    pc = "report" /\ polled.shown => use_bpf \/ polled.entries > 0
=============================================================================
