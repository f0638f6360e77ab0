--------------------------- MODULE SchedAnalyzer ---------------------------
(***************************************************************************)
(* The scheduling analyzer (pkg/perf/sched.go) and the two goroutines of   *)
(* SchedTraceCollector that use it without a lock: readLoop records        *)
(* wake-ups, flushLoop lists the statistics, writes one event for each and *)
(* replaces the maps.  A counter is the set of the wake-ups it counts.     *)
(*                                                                         *)
(* The analyzer loads the map before it changes it, so a Reset between the *)
(* two leaves the change in a map nobody reads.  An insertion while        *)
(* GetTopCPUUsage ranges over the map may be seen by it or not, and may    *)
(* end the process (fatal error: concurrent map iteration and map write).  *)
(***************************************************************************)
EXTENDS Integers, FiniteSets

CONSTANTS
    Pids,
    Wakeups, \* identities of wake-ups
    TopN     \* the 10 of GetTopCPUUsage(10)

ASSUME SchedAnalyzerAssumption == IsFiniteSet(Pids) /\ TopN \in Nat

VARIABLES
    pidStats, \* pid -> wake-ups counted, for the pids in the map
    held,     \* the wake-up being recorded: id, pid, whether its map is
              \* still the analyzer's, whether a flush ran meanwhile
    fpc,      \* flush: "idle", "range" (in GetTopCPUUsage) or "write"
    fresh,    \* pids inserted since the range began
    batch,    \* statistics still to be written
    reports,  \* how often each wake-up was reported
    late,     \* wake-ups recorded while a flush was under way
    squeezed, \* wake-ups of pids that did not make the list
    lost,     \* wake-ups that can no longer be reported
    fatal     \* the Go runtime has ended the process

schedVars ==
    <<pidStats, held, fpc, fresh, batch, reports, late, squeezed, lost,
      fatal>>

Idle == [id |-> 0, pid |-> "none", current |-> FALSE, late |-> FALSE]

Counted == UNION {pidStats[p] : p \in DOMAIN pidStats}

-----------------------------------------------------------------------------

\* RecordWakeUp, up to the load of a.pidStats.
RecordWakeUp(i, p) ==
    /\ held = Idle
    /\ held' = [id |-> i, pid |-> p, current |-> TRUE,
                late |-> fpc # "idle"]
    /\ UNCHANGED <<pidStats, fpc, fresh, batch, reports, late, squeezed,
                   lost, fatal>>

\* The rest of RecordWakeUp: stat.WakeUpCount++, or a new statistic.
CountWakeUp ==
    /\ ~fatal
    /\ held # Idle
    /\ held' = Idle
    /\ late' = IF held.late THEN late \cup {held.id} ELSE late
    /\ IF ~held.current
       THEN /\ lost' = lost \cup {held.id}
            /\ UNCHANGED <<pidStats, fresh, fatal>>
       ELSE /\ lost' = lost
            /\ pidStats' = [p \in DOMAIN pidStats \cup {held.pid} |->
                  (IF p \in DOMAIN pidStats THEN pidStats[p] ELSE {})
                     \cup (IF p = held.pid THEN {held.id} ELSE {})]
            /\ IF fpc = "range" /\ held.pid \notin DOMAIN pidStats
               THEN /\ fatal' \in BOOLEAN
                    /\ fresh' = fresh \cup {held.pid}
               ELSE UNCHANGED <<fatal, fresh>>
    /\ UNCHANGED <<fpc, batch, reports, squeezed>>

-----------------------------------------------------------------------------
(* flush                                                                   *)

TopShort(pids, n) ==
    {b \in SUBSET pids :
        Cardinality(b) = IF Cardinality(pids) > n - 1 THEN n - 1
                         ELSE Cardinality(pids)}

\* Every statistic counts zero run time (no record has the type of a
\* switch), so the sort keeps any n of them.
Top(pids, n) ==
    {b \in SUBSET pids :
        Cardinality(b) = IF Cardinality(pids) > n THEN n ELSE Cardinality(pids)}

FlushBeginWhenFull ==
    /\ ~fatal
    /\ fpc = "idle" /\ Cardinality(DOMAIN pidStats) > TopN
    /\ fpc' = "range"
    /\ held' = IF held = Idle THEN Idle ELSE [held EXCEPT !.late = TRUE]
    /\ UNCHANGED <<pidStats, fresh, batch, reports, late, squeezed, lost,
                   fatal>>

FlushBegin ==
    /\ ~fatal
    /\ fpc = "idle"
    /\ fpc' = "range"
    /\ held' = IF held = Idle THEN Idle ELSE [held EXCEPT !.late = TRUE]
    /\ UNCHANGED <<pidStats, fresh, batch, reports, late, squeezed, lost,
                   fatal>>

GetTopCPUUsage ==
    /\ ~fatal
    /\ fpc = "range"
    /\ \E unseen \in SUBSET fresh :
          LET seen == DOMAIN pidStats \ unseen IN
          \E b \in Top(seen, TopN) :
             /\ batch' = b
             /\ squeezed' = IF Cardinality(seen) > TopN
                            THEN squeezed \cup
                                 UNION {pidStats[p] : p \in seen \ b}
                            ELSE squeezed
    /\ fpc' = "write"
    /\ fresh' = {}
    /\ UNCHANGED <<pidStats, held, reports, late, lost, fatal>>

\* WriteEvent with the statistic as it is now.
WriteStat(p) ==
    /\ ~fatal
    /\ fpc = "write"
    /\ p \in batch
    /\ batch' = batch \ {p}
    /\ reports' = [i \in Wakeups |->
                     IF i \in pidStats[p] THEN reports[i] + 1 ELSE reports[i]]
    /\ UNCHANGED <<pidStats, held, fpc, fresh, late, squeezed, lost, fatal>>

ResetEarly ==
    /\ ~fatal
    /\ fpc = "write"
    /\ fpc' = "idle"
    /\ lost' = lost \cup {i \in Counted : reports[i] = 0}
    /\ pidStats' = [p \in {} |-> {}]
    /\ held' = IF held = Idle THEN Idle ELSE [held EXCEPT !.current = FALSE]
    /\ UNCHANGED <<fresh, batch, reports, late, squeezed, fatal>>

ResetKeepsStats ==
    /\ ~fatal
    /\ fpc = "write"
    /\ batch = {}
    /\ fpc' = "idle"
    /\ UNCHANGED <<pidStats, held, fresh, batch, reports, late, squeezed,
                   lost, fatal>>

Reset ==
    /\ ~fatal
    /\ fpc = "write"
    /\ batch = {}
    /\ fpc' = "idle"
    /\ lost' = lost \cup {i \in Counted : reports[i] = 0}
    /\ pidStats' = [p \in {} |-> {}]
    /\ held' = IF held = Idle THEN Idle ELSE [held EXCEPT !.current = FALSE]
    /\ UNCHANGED <<fresh, batch, reports, late, squeezed, fatal>>

SchedInit ==
    /\ pidStats = [p \in {} |-> {}]
    /\ held = Idle
    /\ fpc = "idle" /\ fresh = {} /\ batch = {}
    /\ reports = [i \in Wakeups |-> 0]
    /\ late = {} /\ squeezed = {} /\ lost = {}
    /\ fatal = FALSE

Flush ==
    \/ GetTopCPUUsage
    \/ \E p \in batch : WriteStat(p)
    \/ Reset
=============================================================================
