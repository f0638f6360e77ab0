# Verification of the STB-eBPF probes

TLA+ models of both probes of this repository, TLC configurations that check
them on small instances, and TLAPS proofs of their safety properties for every
value of the constants. `PROJECT.json` lists the components, the runs, the
lines each definition models, the hazards, the findings and the theorems.

## The system

The repository holds two probes.

* The **C probe** (`src/`) is one thread. `main.c` loads a socket filter
  (`bpf_loader.c`), then goes round: it reads packets (`packet_parser.c`,
  `anomaly.c`), polls `/proc/net` (`proc_net.c`), feeds both into the **flow
  table** (`flow_tracker.c`), adds host metrics (`host_metrics.c`), serializes
  the events (`serializer.c`) and sends them over the **relay link**
  (`tcp_client.c`), an HTTP connection with reconnection and backoff.
* The **Go probe** (`cmd/probe`, `internal/`) runs **collectors**
  (`internal/collector`), each with goroutines that read what a BPF program
  (`bpf/`) puts into a ring buffer, a packet socket or `/proc`, and that write
  events to the **edge output** (`internal/output/edge.go`), which batches and
  posts them. main, a poller of a command table and the HTTP API start and stop
  the collectors.

| Part | Source | Module | State |
|---|---|---|---|
| C main: start-up, loop, shutdown | `src/main.c` | `ProbeMain`, `Courier` | modelled, without the disabled perf buffer |
| BPF loader | `src/bpf_loader.c` | `BpfLoader`, `ProbeMain` | modelled, without the disabled perf buffer |
| Serializer | `src/serializer.c` | `Serializer`, `HostMetrics` | lengths |
| Host metrics, runtime configuration | `src/host_metrics.c`, `src/runtime_config.c` | `HostMetrics`, `ProbeMain` | modelled |
| `/proc/net` reader | `src/proc_net.c` | `ProcNet`, `HostMetrics` | modelled |
| Packet parser, DNS and HTTP decoders | `src/packet_parser.c`, `src/main.c` | `PacketParser`, `PacketPath` | offsets and verdicts |
| Anomaly detector | `src/anomaly.c` | `Anomaly`, `PacketPath` | modelled |
| Flow table | `src/flow_tracker.c` | `FlowTracker` | modelled |
| Relay link | `src/tcp_client.c` | `TcpClient` | as main uses it |
| BPF programs | `bpf/*.bpf.c` | `BpfPrograms` | every handler |
| Ring buffers and their readers | `bpf/`, `internal/collector/*` | `TraceRing`, `TracePipeline` | by fields taken |
| Scheduler analyzer | `pkg/perf/sched.go`, `sched_trace.go` | `SchedAnalyzer`, `TracePipeline` | modelled |
| Edge output | `internal/output/edge.go` | `EdgeClient`, `Outbox` | modelled |
| Collector manager, collectors | `internal/collector` | `CollectorManager` | life cycle |
| Command poller, shutdown, API stop | `cmd/probe/main.go`, `internal/api/server.go` | `CollectorManager`, `EdgeClient` | modelled |

`MC...` modules give a specification its constants, `..._proofs` modules hold
the theorems.

## The modules and the code

**ProbeMain.** `pc` is main's position. `Args`, `Create` and `Load` are
start-up; `bpf_loader_init` gives every outcome of its chain of system calls,
`open` is the kernel's descriptor table and `foreign` records a close of
somebody else's descriptor. `Begin`, `DrainPacket`, `DrainDone`, `Poll`,
`Report`, `Link`, `Recheck` and the three `Send...` actions are one pass of the
loop, `Shutdown` is what follows it, `sig_handler` may happen at any time. An
event is a number and the length of its JSON text, because that is what the
serializer and the buffers look at. `pc = "undefined"` is the pass in which
the host metric overruns `json_buf`: nothing is claimed after it. `Courier` is
the abstract promise: an event is delivered once or discarded once.

**Serializer, HostMetrics, ProcNet, BpfLoader** are the functions `ProbeMain`
calls. `serialize_batch` follows `written` through the commas and the
truncating `snprintf`s; `FullLength` is its reference. `host_metrics_collect`
maps a reading of the box (`MCBoxes`: files there or missing) to the numbers
that are printed. `parse_proc_net_file` applies the conversion of the code's
format to the tokens of a line. `parse_bpf_elf` walks sections; `Verified` is
the part of the kernel's verifier that matters, reads of uninitialised
registers.

**PacketParser, Anomaly, PacketPath.** A frame is its length and the header
fields that move an offset or decide a branch. Every parser returns the offset
behind its last read (`reads`), so staying inside the frame is a statement
about the result. `packet_parse_raw` and `extract_tcp_seq_num` are separate
definitions, as in the code. `DnsLabel` is one turn of the loop over the labels
of a name and `DnsWalk` the loop, a function of the number of turns. `Packet` is the body of main's packet loop for one
frame, `Unknown` the frame that does not parse; `carried` and `hits` are
history.

**FlowTracker.** The arrays `key`, `active`, `prev_rx`, `prev_tx`, `age` and
`seq_expected` are the fields of `records[]`. `Candidates`, `Found` and `Touch`
are `find_record`; `UpdateEntry` is the body of `flow_tracker_update`'s loop,
`PlainPacket` is `flow_tracker_update_single`, `TcpPacket` adds
`flow_tracker_check_tcp_retransmit`, `Drain` is get_events and flush, `Cleanup`
is `flow_tracker_cleanup`. Time is an age that saturates past the clean-up
limit. Sequence numbers are taken modulo `SeqMod`, for 2^32. Keys of packets
and of sockets are disjoint because the code gives them different
`ip_version`s. `gen`, `high`, `talked` and `verdict` are history.

**TcpClient.** The fields of `struct tcp_client`, the kernel's view of the
connection (`link`, `unread`, `open_fds`) and main's position in a report.
`Check`, `Reconnect`, `Recheck` and the four `Send...` actions are the calls
main makes per report; a failed send reconnects inside `tcp_client_send`, in
the same action. `gaps` (the times between attempts) and `torn` are history.

**BpfPrograms, TraceRing, SchedAnalyzer, TracePipeline.** `BpfPrograms` has one
record per handler of `bpf/`: the hook, the type, the fields it assigns, what
it does with the start map, and where its ports come from (`Layout` is `struct
event`). `TraceRing` runs the handlers of one collection: `BeginCall`,
`ReturnCall` and `VanishCall` are calls with hooks at both ends, `Point` the
rest, `ReadRecord` the collector's reader, which takes fields by byte offset. A
start time is represented by the call it was taken in, so a latency is right
when it measures the call that returns. `SchedAnalyzer` splits `RecordWakeUp`
at the load of the map, because `Reset` in the other goroutine may come in
between; a Go map that is written while it is iterated ends the process
(`fatal`). `TracePipeline` composes them.

**EdgeClient.** `batch` is `e.batch`; `pc` and `hand` say where each goroutine
stands in `flush()` and which events it took. One action is one locked section
(`Take`, `PutBack`), one end of the request (`Store`, `Answered`, `Failed`) or
one call (`WriteEvent`, `WriteBatch`, `LoopTick`). `MainStep` is the shutdown.
`Outbox` is the abstract promise: an accepted event is held until confirmed,
and otherwise leaves by a declared drop or the exit of the process.

**CollectorManager.** `closed`, `running` and `reader` are each collector's
`stopCh`, flag and reader, `readers` and `tickers` count its goroutines.
`StartOne` is one turn of `Manager.Start`; a turn of `Manager.Stop` is two
steps, `CloseOne` (the close, which panics on a closed channel) and `FinishOne`
(the rest), because other callers can run in between. `Panic` is what becomes
of each caller: the HTTP server recovers, the poller recovers but its function
ends, main dies. `Issue`, `Poll` and `RunRow` are the command table.

## Runs

| Run | Result | Shows |
|---|---|---|
| `FlowTracker_proc` | pass | one record per flow, bounded sizes, no live record taken, with more sockets than records |
| `FlowTracker_packet` | pass | the expected sequence never runs ahead of the data; a first segment is misjudged only in a reused record; silent flows are freed |
| `EdgeClient_flush` | pass | no event lost or doubled, bounded batch, refinement of `Outbox`, eventual confirmation |
| `TcpClient_link` | pass | no leaked descriptor, spaced attempts, dead links noticed, reconnection while retries last |
| `TcpClient_framing` | violated | after a stalled send a request is written inside the unfinished one |
| `CollectorManager_stop` | pass | one stopper past the first collector, stops complete, stopped loops end, also when a failed update repeats a command |
| `CollectorManager_restart` | violated | after a restart command no collector delivers |
| `CollectorManager_commands` | violated | a command inserted between query and update is never executed |
| `TracePipeline_read` | pass | a latency is that of its own call, only vanished calls leave start entries, readers take no unwritten field, ports keep their value, a wake-up is reported at most once, lost only in the flush's window, and settled in the end |
| `ProbeMain_reports` | pass | descriptors are closed once and by their owner, a pass settles all its events, a report that fits is exact and is delivered whole, refinement of `Courier`, a signal ends the process |
| `ProbeMain_blind` | violated | without a usable object file the probe runs and sees no traffic: the embedded filter is rejected and the `/proc/net` reader accepts no line |
| `PacketPath_frames` | pass | no read leaves the frame, the two TCP parsers agree, a DNS name is decoded exactly, scans and bandwidth are counted exactly while the tables have room |

The violated runs state what a comment, a log line or a printed message says;
the findings in `PROJECT.json` quote it.

### Bounds

* Flow table: two records for three sockets, so that the table fills, a record
  below a live one is freed and a flow moves; one record shared by a packet
  flow and a socket flow. Queue lengths 0 and 1, an age limit of one tick.
  `SeqMod` 4 lets data cross the end of the sequence space.
* Edge output: two writers, ticker loop and main. Threshold and cap 2 and three
  events, so that an overfull batch, a cut and three concurrent flushes happen.
* Relay link: `MaxDelay` 5 is no power of two and is reached before the fourth
  and last retry, so the cap and the limit are both met. Two descriptors are
  enough to see one leak.
* Collectors: one of every kind in the order of `Manager.Init`, all three sorts
  of caller, one command and one failing update. The command run has two
  commands, and a query that would return both.
* C main: events of length 3 and 5 in a buffer of 12, a send room of 9 and at
  most two per pass, so that a batch fits, is cut and is refused; four events,
  three packets read per pass, a metric every second pass; ports inside and
  outside the valid range.
* Trace pipeline: two threads over a start map of one entry and a ring of two
  slots, so that both are full; three calls and three single records; a list
  of one statistic, so that a pid is left out.
* Packet path: frames cut at every length the code compares with, four packets
  over three ticks, tables of two sources and two flows, three ports per source
  and a threshold of two, so that every table fills.

`CHECK_DEADLOCK FALSE` is set where the process exits or where the bounds end
the behaviour.

### Fairness

* Flow table: the main loop polls, drains and cleans up again and again, and
  time passes.
* Edge output: runnable goroutines run, the ticker ticks, a post returns within
  the client's timeout. Nothing is assumed of writers, signal or server.
* Relay link: main reports at least every 30 s, time passes, and a dead peer
  ends in a reset because each report sends it data. Strong fairness of
  `SendAll \/ SendLost` says that neither oversized batches nor stalled sends
  are all that ever happens; without it a dead link need not be noticed.
* Collectors: runnable goroutines run and the poll ticker ticks. A read on a
  closed reader returns at once, one on an open reader may block for ever. The
  packet socket sees the probe's own reports, so its loop does not block.
* C main: its single thread runs, and each of its calls returns, because reads
  do not block and connecting and sending time out. The signal is not assumed.
* Trace pipeline: the reader and the flush goroutine run and the ticker ticks.
  Nothing is assumed of the kernel's hooks.

## Proofs

| Module | Theorems | Inductive invariant |
|---|---|---|
| `FlowTracker_proofs` | `TypeCorrect`, `UniqueRecord`, `CountExact`, `BytesAreBounded`, `ExpectedIsSeen`, `LiveFlowsKept`, `FirstSegmentTrusted` | the invariants together: uniqueness and the exact count need each other's typing, and a found record is the only one of its key; `ReuseInv` adds that a first flow that has not talked expects 0 |
| `EdgeClient_proofs` | `TypeCorrect`, `NoLossNoDoubling`, `BatchIsBounded`, `ClientImplementsOutbox` | adds that only a flush under way holds events (`HandInv`) and that confirmed events are stored (`ConfirmedStored`) |
| `TcpClient_proofs` | `TypeCorrect`, `OwnsItsDescriptor`, `BackoffIsConsistent`, `AttemptsSpaced` | the four invariants; spacing needs the delay to be that of the retry count |
| `CollectorManager_proofs` | `TypeCorrect`, `AtMostOneStopper` | adds `Ahead`: the first channel stays closed behind the stopper, all channels in front of it are open, an idle caller is at the first collector |
| `ProbeMain_proofs` | `ClosesOwn`, `OpenAreOwned`, `PassSettlesAll`, `MainIsCourier`, `FitsIsExact`, `DeliveredWhole`, `MainTypes` | `DescInv`: before the loader only the link has a descriptor, afterwards the open ones are those in the two structures. `FateInv`: delivered, discarded and waiting events are together those offered, and tracker and batch are empty outside their part of the pass. `TextInv`: the text about to be sent is what `serialize_batch` makes of the batch. `ShapeInv`: what the other invariants leave open of the types |
| `TracePipeline_proofs` | `ReportedOnce`, `LossOnlyInWindow`, `LatencyIsOwn`, `NothingElseStarts`, `NothingLeftOver`, `PortsAreExact`, `PipelineTypes` | `RingInv`: records in the ring have increasing numbers, so none is read twice. `WInv`: a wake-up is in the hand or in one statistic, and what a flush passes over is late or squeezed out. `StartInv`, `RecordsInv`, `CountInv`: see below |
| `PacketPath_proofs` | `BytesAccounted`, `ScansAreExact`, `ParsersInside`, `ReadInsideFrame`, `EveryNameExact`, `NamesAreExact`, `TablesBounded` | `BwInv` and `ScanInv`: a key outside a table was turned away by a full one, and a source's list with room left is complete. `NameInv`: the last query is named exactly, for every name. `TableInv`: the sizes of the tables |
| `Loops_proofs` | lemmas only | the loops of `serialize_batch` and `parse_dns_payload`, below |

**Loops.** A loop of the code is a function on `0 .. n` defined by its earlier
values. What holds of every value is shown by induction over a *set* of
numbers (`UpTo`, from the least element of a set of naturals), because the
provers cannot instantiate an induction rule with a predicate; `RunExists`
shows that there is a function that meets such an equation, without which the
definition would say nothing. From these, `FitsExact`: a text that fits is
never met by one of the truncating `snprintf`s, so `written` grows by each
event and comma. `ShortIsLong`: a batch that was cut or left events out is
longer than the request buffer takes. `WalkExact`: at each length byte of an
encoded name the walk has kept exactly the characters in front of it, so it
stops at the 0 with the whole name. `EveryNameExact` says this of all names;
`DnsNameExact` only of the four the run tries.

**Handlers.** `Shapes` goes through the table of BPF programs once and takes
from it what the rest needs (`HandlerShape`): which handlers write or take a
start entry, and in which collections; `AllAssigned` does the same for the
fields a reader takes where the collection clears its records. `Effect` is what one handler
may do to map and ring. `StartInv`: where there is an exit hook, an entry is of
the thread's own call or of a vanished one, and a thread that is in a call has
none but its own, because the entry hook overwrites what was left behind; the
property alone is not inductive, since the next return would take the entry of
a vanished call. `RecordsInv`: the three record properties hold of a record
from its submission, for whatever its reader is going to take. `CountInv` counts
records against points, calls and the threads that are in one. These three were
model-checked on the constants of `TracePipeline_read` before the proof.

The assumptions are those of each module's `ASSUME`: positive sizes, disjoint
key sets, distinct goroutines, a backoff that fits an `int`, and a list of
collectors that does not begin with the host metrics collector, which
`Manager.Init` guarantees by always appending the protocol collector before it.
Further: the request buffer is smaller than `json_buf` (it is half of it), the
text of a metric has a length (`MetricAssumption`), the bytes of a message are
bytes and header lengths four-bit numbers (`PacketPathAssumption`), a port is
two bytes (`PortsAssumption`), and a thread that makes calls has a pid
(`TracePipelineAssumption`).

Only model-checked: the liveness properties (`IdleFlowReclaimed`,
`EventuallyConfirmed`, `DeadLinkNoticed`, `ReconnectsOrGivesUp`,
`StopCompletes`, `StoppedLoopsEnd`, `ShutdownCompletes`, `WakeupSettled`),
because the prover handles neither fairness nor `ENABLED`. Every invariant and
every action property of a passing run is proved. The four violated runs have
nothing to prove.

## Seen while modelling, without a run of their own

The models contain this behaviour; it contradicts no property that is checked.

* Flow table: a reused record keeps `seq_expected`. The duplicate-ACK table
  compares with an ACK 4096 ACKs back (`flow_tracker.c:273`), not the previous
  one of the flow. Packet flows that main enriches never reach the tracker.
* Relay link: only a connection resets the retry counter, so after the limit the
  client stays down (`tcp_client.c:333`). A report larger than the request
  buffer is always dropped.
* C main: an invalid `STB_RELAY_PORT` ends the probe. The host metric can be
  longer than what is left of `json_buf`.
* Host metrics: the CPU reader takes the line of `cpu0` shifted by one field;
  without `/proc/net/dev` the traffic is what was on the stack or left from the
  last report; without `MemAvailable` the memory is 100 % used.
* Packets: the DNS offset ignores IP options and IPv6; `IS_MULTICAST` depends on
  the byte order; SYN and FIN events have no category.
* Anomalies: `last_bytes` grows for ever; sources beyond a full table are not
  watched.
* BPF programs: `tcp_connect.bpf.c:73` swaps a port that is in host order;
  `network_flow` reads ports at the offset of a header without options; the
  block key drops the upper half of the sector; the exit record of a system
  call carries whatever its slot held as `count`; no reader knows the type of a
  switch record; the exclusion keys are written in another byte order than the
  filter looks them up in.
* Edge output: an outage drops events beyond the cap; there is no cache file.

## Not modelled

The definitions stand for about 27 % of the C lines under `src/`, which is 65 %
of the project's own 4800: more than half of all C lines are vendored libbpf
headers, used only for their byte-order macros and declarations. Some 850 lines
of Go are modelled besides.

* The perf-buffer path (`bpf_loader.c` 334-480, `main.c` 289-326): the loader
  leaves `perf_map_fd` at -1, so no behaviour enters it.
* Code nothing calls: `read_raw_packets`, `bpf_loader_read_packet`,
  `bpf_loader_is_available`, `tcp_client_send_line`, the client's send buffer and
  its flush, `Manager.Unload`, `Reload`, `WatchConfig`.
* The SIGBUS handler, formatting, logging and statistics, which change no state
  the probe acts on.
* The memory and block analyzers, which have the structure of the scheduler's.
* The Go protocol parsers, ClickHouse, Docker, injection and monitoring, the
  heartbeat and the edge binary: conversions and calls to outside services.
* A `flow_idx` beyond 2^31: the model takes the index modulo the table's size.
