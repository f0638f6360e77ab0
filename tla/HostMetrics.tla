---------------------------- MODULE HostMetrics ----------------------------
(***************************************************************************)
(* The host metric of a report (src/host_metrics.c, proc_net_read_dev of   *)
(* src/proc_net.c) and the length of its JSON text (src/serializer.c).     *)
(*                                                                         *)
(* A reading of the box is a record: stat, the fields of the cpu0 line of  *)
(* /proc/stat; meminfo; df, the use of the root file system; dev, the      *)
(* counters of every interface; left, what the two counters of the metric  *)
(* hold from before.  An empty sequence is a file that cannot be opened.   *)
(* Percentages are whole numbers.                                          *)
(***************************************************************************)
EXTENDS Integers, Sequences

Total(seq) ==
    LET sum[k \in 0 .. Len(seq)] == IF k = 0 THEN 0 ELSE sum[k - 1] + seq[k]
    IN  sum[Len(seq)]

\* fgets has taken the line of all processors.  "cpu %llu" reads the 0 of
\* "cpu0" as the user time, and every field of the line one place late:
\* user, nice, system, idle, iowait, irq, softirq.
read_cpu_percent(stat) ==
    LET read  == <<0>> \o SubSeq(stat, 1, 6)
        total == Total(read)
        busy  == total - read[4] - read[5]
    IN  IF stat # <<>> /\ total > 0 THEN (busy * 100) \div total ELSE 0

\* <<MemTotal, MemAvailable>>; kernels before 3.14 print no MemAvailable.
read_memory_percent(meminfo) ==
    LET total     == meminfo[1]
        available == IF Len(meminfo) > 1 THEN meminfo[2] ELSE 0
    IN  IF meminfo # <<>> /\ total # 0
        THEN ((total - available) * 100) \div total ELSE 0

\* A line that does not start with a number leaves the 0.
read_disk_percent(df) == IF df = <<>> THEN 0 ELSE df[1]

\* The counters summed over all interfaces.  Without the file the call
\* returns -1, which nobody looks at, and the metric is left as it was.
proc_net_read_dev(dev, left) ==
    IF dev = <<>>
    THEN left
    ELSE [rx |-> Total([i \in DOMAIN dev |-> dev[i].rx]),
          tx |-> Total([i \in DOMAIN dev |-> dev[i].tx])]

host_metrics_collect(box) ==
    [cpu_percent    |-> read_cpu_percent(box.stat),
     memory_percent |-> read_memory_percent(box.meminfo),
     disk_percent   |-> read_disk_percent(box.df),
     net            |-> proc_net_read_dev(box.dev, box.left)]

-----------------------------------------------------------------------------

\* The characters of a number in decimal.
Digits(n) ==
    IF n = 0 THEN 1 ELSE CHOOSE k \in 1 .. 20 : 10^(k - 1) <= n /\ n < 10^k

\* fixed is the length of everything but the five numbers.
serialize_host_metric(metric, fixed) ==
    fixed + Digits(metric.cpu_percent) + Digits(metric.memory_percent)
          + Digits(metric.disk_percent)
          + Digits(metric.net.rx) + Digits(metric.net.tx)
=============================================================================
