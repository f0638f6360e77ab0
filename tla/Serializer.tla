----------------------------- MODULE Serializer -----------------------------
(***************************************************************************)
(* serialize_batch (src/serializer.c): the JSON array that main sends, as  *)
(* lengths.  An event or the host metric is the length of its text, the    *)
(* value snprintf returns for it; a metric of 0 stands for no metric.      *)
(***************************************************************************)
EXTENDS Integers, Sequences

AppendEventTight(s, len, size) ==
    LET at == s.written + (IF s.n = 0 THEN 0 ELSE 1) IN
    IF s.stop \/ s.written >= size - 2
    THEN [s EXCEPT !.stop = TRUE]
    ELSE IF len >= size - at - 2
    THEN [s EXCEPT !.written = size - 2, !.stop = TRUE, !.cut = TRUE]
    ELSE [s EXCEPT !.written = at + len, !.n = s.n + 1]

\* serialize_flow_event into the room that is left: the text and a comma
\* before it unless it is the first.  Text that does not fit is cut, and
\* written is set two below the end.
AppendEvent(s, len, size) ==
    LET at == s.written + (IF s.n = 0 THEN 0 ELSE 1) IN
    IF s.stop \/ s.written >= size - 2
    THEN [s EXCEPT !.stop = TRUE]
    ELSE IF len >= size - at
    THEN [s EXCEPT !.written = size - 2, !.stop = TRUE, !.cut = TRUE]
    ELSE [s EXCEPT !.written = at + len, !.n = s.n + 1]

\* serialize_host_metric: what snprintf returns is added as it is.
AppendMetric(s, metric, size) ==
    LET at == s.written + (IF s.n = 0 THEN 0 ELSE 1) IN
    IF metric = 0 \/ s.written >= size - 2
    THEN s
    ELSE [s EXCEPT !.written = at + metric, !.metric = TRUE,
                   !.cut = s.cut \/ metric >= size - at]

\* The result: the length returned, the highest index stored to, the number
\* of events in the text, whether the metric is in it, whether text was cut.
serialize_batch(lens, metric, size) ==
    LET start == [written |-> 1, n |-> 0, stop |-> FALSE, cut |-> FALSE,
                  metric |-> FALSE]
        events[k \in 0 .. Len(lens)] ==
            IF k = 0 THEN start ELSE AppendEvent(events[k - 1], lens[k], size)
        s == AppendMetric(events[Len(lens)], metric, size)
    IN  [len |-> s.written + 1, top |-> s.written + 1, n |-> s.n,
         metric |-> s.metric, cut |-> s.cut]

-----------------------------------------------------------------------------
(* What the text should be: brackets, every text, commas between them.     *)

FullLength(lens, metric) ==
    LET sum[k \in 0 .. Len(lens)] ==
            IF k = 0 THEN 0 ELSE sum[k - 1] + lens[k]
        texts == Len(lens) + (IF metric = 0 THEN 0 ELSE 1)
    IN  2 + sum[Len(lens)] + metric + (IF texts = 0 THEN 0 ELSE texts - 1)
=============================================================================
