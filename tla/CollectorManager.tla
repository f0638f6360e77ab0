-------------------------- MODULE CollectorManager --------------------------
(***************************************************************************)
(* Starting and stopping the collectors of the Go probe: Manager.Start and *)
(* Manager.Stop (internal/collector/manager.go), which main calls at       *)
(* start-up and on a signal, the configuration poller on commands from a   *)
(* table, and the HTTP API on /api/probe/stop.  No lock is held: the       *)
(* callers interleave between any two collectors, and inside a collector's *)
(* Stop between close(stopCh) and what follows it.                         *)
(*                                                                         *)
(* A collector is of one of three kinds.  "ring": a loop per reader, which *)
(* was opened by Init, runs while the running flag is set (network,        *)
(* performance, security, syscall; two readers of one collector share its  *)
(* fate and are one here).  "protocol": such a loop on a socket that Start *)
(* opens, and a flush loop that ends with stopCh or its context.  "host":  *)
(* only a loop of the second sort.                                         *)
(* Manager.Unload and Manager.Reload are called by nobody.                 *)
(***************************************************************************)
EXTENDS Integers, Sequences

CONSTANTS
    Kinds,        \* the kinds of m.collectors, in order
    Main, Poller, \* main and the configuration poller's goroutine
    Api,          \* goroutines of the HTTP server
    MaxCmds,      \* bound on the commands the frontend issues
    MaxFails,     \* bound on the updates that fail
    Batch         \* rows one query returns (LIMIT 10)

N        == Len(Kinds)
Slots    == 1 .. N
Callers  == {Main, Poller} \cup Api
Commands == {"stop", "start", "restart", "update_config"}
Contexts == {"main", "poller"}

ASSUME ManagerAssumption ==
    /\ Kinds \in Seq({"ring", "protocol", "host"}) /\ N > 0
    \* NewProtocolCollector always comes before NewHostMetricsCollector
    /\ Kinds[1] # "host"
    /\ Main # Poller /\ Main \notin Api /\ Poller \notin Api
    /\ MaxCmds \in Nat /\ MaxFails \in Nat /\ Batch \in Nat \ {0}

VARIABLES
    closed,    \* whether each collector's stopCh is closed
    running,   \* its running flag
    reader,    \* its event reader: "none", "open" or "closed"
    readers,   \* its goroutines that run while running is set
    tickers,   \* its goroutines that end with stopCh or a context
    cancelled, \* the contexts that are cancelled
    phase,     \* the process: "boot", "serve", "shutdown", "exit", "crash"
    pc, idx,   \* where each caller stands in Start or Stop, at which collector
    issued,    \* the commands of the table, by row
    unapplied, \* the rows with applied = 0, by created_at
    fails,     \* updates that failed
    rows, op,  \* the poller: rows yet to run, the latest command
    ran        \* history: the rows whose command was executed

collectors == <<closed, running, reader, readers, tickers, cancelled>>
table      == <<issued, unapplied, fails, rows, op, ran>>
vars == <<collectors, phase, pc, idx, table>>

TypeOK ==
    /\ closed \in [Slots -> BOOLEAN] /\ running \in [Slots -> BOOLEAN]
    /\ reader \in [Slots -> {"none", "open", "closed"}]
    /\ readers \in [Slots -> Nat]
    /\ tickers \in [Slots -> [Contexts -> Nat]]
    /\ cancelled \subseteq Contexts
    /\ phase \in {"boot", "serve", "shutdown", "exit", "crash"}
    /\ pc \in [Callers -> {"idle", "start", "close", "finish", "dead"}]
    /\ idx \in [Callers -> Slots]
    /\ issued \in Seq(Commands) /\ Len(issued) <= MaxCmds
    /\ unapplied \in Seq(1 .. Len(issued))
    /\ fails \in 0 .. MaxFails
    /\ rows \in Seq(1 .. Len(issued))
    /\ op \in Commands
    /\ ran \subseteq 1 .. Len(issued)

(* main after mgr.Init: a ring collector whose Init failed has no reader.  *)
Init ==
    /\ closed = [i \in Slots |-> FALSE] /\ running = [i \in Slots |-> FALSE]
    /\ reader \in [Slots -> {"none", "open"}]
    /\ \A i \in Slots : Kinds[i] # "ring" => reader[i] = "none"
    /\ readers = [i \in Slots |-> 0]
    /\ tickers = [i \in Slots |-> [c \in Contexts |-> 0]]
    /\ cancelled = {}
    /\ phase = "boot"
    /\ pc = [a \in Callers |-> IF a = Main THEN "start" ELSE "idle"]
    /\ idx = [a \in Callers |-> 1]
    /\ issued = <<>> /\ unapplied = <<>> /\ fails = 0 /\ rows = <<>>
    /\ op = "update_config" /\ ran = {}

Alive == phase \notin {"exit", "crash"}

-----------------------------------------------------------------------------
ContextOf(a) == IF a = Main THEN "main" ELSE "poller"

(* The goroutines a collector's Start creates.  Protocol's Start creates   *)
(* none when its socket cannot be opened.                                  *)
Spawn(i, c) ==
    LET oneReader == readers' = [readers EXCEPT ![i] = @ + 1]
        oneTicker == tickers' = [tickers EXCEPT ![i][c] = @ + 1]
    IN \/ Kinds[i] = "ring" /\ reader[i] # "none" /\ oneReader /\ UNCHANGED tickers
       \/ Kinds[i] = "ring" /\ reader[i] = "none" /\ UNCHANGED <<readers, tickers>>
       \/ Kinds[i] = "protocol" /\ oneReader /\ oneTicker
       \/ Kinds[i] = "protocol" /\ UNCHANGED <<readers, tickers>>
       \/ Kinds[i] = "host" /\ oneTicker /\ UNCHANGED readers

(* Manager.Start, one collector.                                           *)
StartOne(a) ==
    LET i == idx[a]
    IN /\ Alive /\ pc[a] = "start"
       /\ running' = [running EXCEPT ![i] = TRUE]
       /\ Spawn(i, ContextOf(a))
       /\ idx' = [idx EXCEPT ![a] = IF i = N THEN 1 ELSE i + 1]
       /\ pc' = [pc EXCEPT ![a] = IF i = N THEN "idle" ELSE "start"]
       /\ phase' = IF a = Main /\ i = N THEN "serve" ELSE phase
       /\ UNCHANGED <<closed, reader, cancelled, table>>

(* close(stopCh) on a closed channel panics.  The HTTP server recovers its *)
(* handlers; the poller recovers, but its function returns and cancels the *)
(* contexts it made; main runs its deferred calls and the process dies.    *)
Panic(a) ==
    /\ idx' = [idx EXCEPT ![a] = 1]
    /\ pc' = [pc EXCEPT ![a] = IF a \in Api THEN "idle" ELSE "dead"]
    /\ phase' = IF a = Main THEN "crash" ELSE phase
    /\ cancelled' = IF a = Poller THEN cancelled \cup {"poller"} ELSE cancelled
    /\ rows' = IF a = Poller THEN <<>> ELSE rows
    /\ UNCHANGED <<closed, running, reader, readers, tickers, issued, unapplied,
                   fails, op, ran>>

CloseOneGuarded(a) ==
    LET i == idx[a]
    IN /\ Alive /\ pc[a] = "close"
       /\ closed' = [closed EXCEPT ![i] = TRUE]
       /\ pc' = [pc EXCEPT ![a] = "finish"]
       /\ UNCHANGED <<running, reader, readers, tickers, cancelled, phase,
                      idx, table>>

(* The first statement of a collector's Stop.  HostMetricsCollector looks  *)
(* whether the channel is closed.                                          *)
CloseOne(a) ==
    LET i == idx[a]
    IN /\ Alive /\ pc[a] = "close"
       /\ \/ closed[i] /\ Kinds[i] # "host" /\ Panic(a)
          \/ /\ ~closed[i] \/ Kinds[i] = "host"
             /\ closed' = [closed EXCEPT ![i] = TRUE]
             /\ pc' = [pc EXCEPT ![a] = "finish"]
             /\ UNCHANGED <<running, reader, readers, tickers, cancelled,
                            phase, idx, table>>

(* Where the caller goes after the last collector: main exits, a restart   *)
(* goes on to Manager.Start.                                               *)
AfterStop(a) == IF a = Poller /\ op = "restart" THEN "start" ELSE "idle"

FinishOneReaderOpen(a) ==
    LET i == idx[a]
    IN /\ Alive /\ pc[a] = "finish"
       /\ running' = [running EXCEPT ![i] = FALSE]
       /\ idx' = [idx EXCEPT ![a] = IF i = N THEN 1 ELSE i + 1]
       /\ pc' = [pc EXCEPT ![a] = IF i = N THEN AfterStop(a) ELSE "close"]
       /\ phase' = IF a = Main /\ i = N THEN "exit" ELSE phase
       /\ UNCHANGED <<closed, reader, readers, tickers, cancelled, table>>

FinishOneSkipsLast(a) ==
    LET i == idx[a]
    IN /\ Alive /\ pc[a] = "finish"
       /\ running' = [running EXCEPT ![i] = FALSE]
       /\ reader' = [reader EXCEPT ![i] = IF @ = "open" THEN "closed" ELSE @]
       /\ idx' = [idx EXCEPT ![a] = IF i >= N - 1 THEN 1 ELSE i + 1]
       /\ pc' = [pc EXCEPT ![a] = IF i >= N - 1 THEN AfterStop(a) ELSE "close"]
       /\ phase' = IF a = Main /\ i >= N - 1 THEN "exit" ELSE phase
       /\ UNCHANGED <<closed, readers, tickers, cancelled, table>>

(* The rest of a collector's Stop.                                         *)
FinishOne(a) ==
    LET i == idx[a]
    IN /\ Alive /\ pc[a] = "finish"
       /\ running' = [running EXCEPT ![i] = FALSE]
       /\ reader' = [reader EXCEPT ![i] = IF @ = "open" THEN "closed" ELSE @]
       /\ idx' = [idx EXCEPT ![a] = IF i = N THEN 1 ELSE i + 1]
       /\ pc' = [pc EXCEPT ![a] = IF i = N THEN AfterStop(a) ELSE "close"]
       /\ phase' = IF a = Main /\ i = N THEN "exit" ELSE phase
       /\ UNCHANGED <<closed, readers, tickers, cancelled, table>>

CallStep(a) == StartOne(a) \/ CloseOne(a) \/ FinishOne(a)

-----------------------------------------------------------------------------
(* A signal: main cancels its context and calls Manager.Stop.              *)
Signal ==
    /\ phase = "serve" /\ phase' = "shutdown"
    /\ pc' = [pc EXCEPT ![Main] = "close"]
    /\ cancelled' = cancelled \cup {"main"}
    /\ UNCHANGED <<closed, running, reader, readers, tickers, idx, table>>

(* POST /api/probe/stop.                                                   *)
ApiStop(a) ==
    /\ phase \in {"serve", "shutdown"} /\ pc[a] = "idle"
    /\ pc' = [pc EXCEPT ![a] = "close"]
    /\ UNCHANGED <<collectors, phase, idx, table>>

(* The frontend inserts a row.                                             *)
Issue(c) ==
    /\ Alive /\ Len(issued) < MaxCmds
    /\ issued' = Append(issued, c)
    /\ unapplied' = Append(unapplied, Len(issued) + 1)
    /\ UNCHANGED <<collectors, phase, pc, idx, fails, rows, op, ran>>

Polling == phase \in {"serve", "shutdown"} /\ pc[Poller] = "idle"

(* The poller's query.  A query that fails changes nothing.                *)
Poll ==
    /\ Polling /\ rows = <<>> /\ unapplied # <<>>
    /\ rows' = SubSeq(unapplied, 1, IF Len(unapplied) < Batch THEN Len(unapplied) ELSE Batch)
    /\ UNCHANGED <<collectors, phase, pc, idx, issued, unapplied, fails, op, ran>>

(* A reply that is JSON without the expected fields fails a type           *)
(* assertion: the poller panics.                                           *)
BadReply == Polling /\ rows = <<>> /\ Panic(Poller)

(* The poller's loop over the rows: every unapplied row of the probe is    *)
(* marked as applied, not only this one, or the update fails; then the     *)
(* command is executed.                                                    *)
RunRow ==
    LET cmd == issued[Head(rows)]
    IN /\ Polling /\ rows # <<>>
       /\ rows' = Tail(rows)
       /\ \/ unapplied' = <<>> /\ UNCHANGED fails
          \/ fails < MaxFails /\ fails' = fails + 1 /\ UNCHANGED unapplied
       /\ op' = cmd
       /\ ran' = ran \cup {Head(rows)}
       /\ pc' = [pc EXCEPT ![Poller] = CASE cmd \in {"stop", "restart"} -> "close"
                                         [] cmd = "start" -> "start"
                                         [] OTHER -> "idle"]
       /\ UNCHANGED <<collectors, phase, idx, issued>>

(* A loop of the first sort sees the cleared flag when its read returns,   *)
(* and closes its reader.                                                  *)
ReaderEnds(i) ==
    /\ Alive /\ readers[i] > 0 /\ ~running[i]
    /\ readers' = [readers EXCEPT ![i] = @ - 1]
    /\ reader' = [reader EXCEPT ![i] = IF @ = "open" THEN "closed" ELSE @]
    /\ UNCHANGED <<closed, running, tickers, cancelled, phase, pc, idx, table>>

(* A loop of the second sort ends.                                         *)
TickerEnds(i, c) ==
    /\ Alive /\ tickers[i][c] > 0
    /\ closed[i] \/ c \in cancelled
    /\ tickers' = [tickers EXCEPT ![i][c] = @ - 1]
    /\ UNCHANGED <<closed, running, reader, readers, cancelled, phase, pc, idx, table>>

Next ==
    \/ \E a \in Callers : CallStep(a)
    \/ Signal
    \/ \E a \in Api : ApiStop(a)
    \/ \E c \in Commands : Issue(c)
    \/ Poll
    \/ BadReply
    \/ RunRow
    \/ \E i \in Slots : ReaderEnds(i)
    \/ \E i \in Slots, c \in Contexts : TickerEnds(i, c)

Spec == Init /\ [][Next]_vars

(* Goroutines that can run do, and the poll ticker keeps ticking.  A read  *)
(* on a closed reader returns at once; a read on an open one may wait for  *)
(* ever; the packet socket sees the probe's own reports.  Nothing is       *)
(* assumed of the frontend, of API requests or of the signal.              *)
Fairness ==
    /\ \A a \in Callers : WF_vars(CallStep(a))
    /\ WF_vars(Poll) /\ WF_vars(RunRow)
    /\ \A i \in Slots : WF_vars(reader[i] # "open" /\ ReaderEnds(i))
    /\ \A i \in Slots, c \in Contexts : WF_vars(TickerEnds(i, c))

FairSpec == Spec /\ Fairness

-----------------------------------------------------------------------------
Past(a) == pc[a] = "finish" \/ (pc[a] = "close" /\ idx[a] > 1)

(* However many callers stop the collectors at once, without a lock, one   *)
(* of them gets past the first collector and the others panic there: no    *)
(* panic leaves the collectors half stopped.                               *)
OneStopper ==
    /\ \A a, b \in Callers : Past(a) /\ Past(b) => a = b
    /\ \A a \in Callers : pc[a] = "close" /\ idx[a] > 1 => ~closed[idx[a]]

(* Once one collector is stopped all of them are, unless the process ends, *)
(* although other callers panic meanwhile.                                 *)
StopCompletes == closed[1] ~> (~Alive \/ \A i \in Slots : closed[i])

(* A stopped collector leaves no read loop behind: from any moment its     *)
(* running flag is cleared its loops end, unless the flag is set again or  *)
(* the process ends, although Stop does not wait for them and a Start may  *)
(* have added loops in between.                                            *)
StoppedLoopsEnd ==
    \A i \in Slots : ~running[i] ~> (readers[i] = 0 \/ running[i] \/ ~Alive)

(* What a collector needs to deliver events after Start.                   *)
Delivers(i) ==
    CASE Kinds[i] = "ring" -> reader[i] # "closed"
      [] OTHER -> ~closed[i]

(* What cmd/probe/main.go:207 logs when a restart command is done: all     *)
(* collectors have been restarted.                                         *)
RestartCollects ==
    phase = "serve" /\ pc[Poller] = "idle" /\ op = "restart"
        => \A i \in Slots : Delivers(i)

(* What cmd/probe/main.go:121 says the poller does: every 30 seconds it    *)
(* looks for the commands the frontend has issued.  So a command is        *)
(* executed while the probe serves and its poller lives.                   *)
CommandsRun ==
    \A r \in 1 .. MaxCmds :
        r <= Len(issued) ~> (r \in ran \/ phase # "serve" \/ pc[Poller] = "dead")
=============================================================================
