---------------------------- MODULE Loops_proofs -----------------------------
(* Proofs about two loops of the C probe: serialize_batch's over the       *)
(* events, for any number of them and any size of the buffer, and          *)
(* parse_dns_payload's over the labels of a name, for any bytes; and the   *)
(* lemmas on loops they rest on.  The models write a loop as a function on *)
(* 0 .. n that is defined by its own earlier values.  Such a function is   *)
(* the CHOOSE of a function that meets its equation, so there has to be    *)
(* one, and what holds of it is shown by induction over a set of numbers,  *)
(* the predicate being membership.                                         *)
EXTENDS Serializer, PacketParser, WellFoundedInduction, TLAPS

-----------------------------------------------------------------------------
(* Loops                                                                   *)

(* A non-empty set of naturals has a least element.                        *)
LEMMA LeastOf ==
    ASSUME NEW T \in SUBSET Nat, T # {}
    PROVE  \E x \in T : \A y \in T : x <= y
<1>1. \E x \in T : \A y \in T : ~(<<y, x>> \in OpToRel(<, Nat))
  BY WFMin, NatLessThanWellFounded, Zenon
<1>2. PICK x \in T : \A y \in T : ~(<<y, x>> \in OpToRel(<, Nat))
  BY <1>1, Zenon
<1>3. ASSUME NEW y \in T PROVE x <= y
  <2>1. ~(<<y, x>> \in OpToRel(<, Nat))
    BY <1>2, Zenon
  <2>2. <<y, x>> \in Nat \X Nat
    OBVIOUS
  <2>3. ~(y < x)
    BY <2>1, <2>2 DEF OpToRel
  <2> QED BY <2>3
<1> QED BY <1>3

(* Induction up to a bound: a set that holds 0, and with every number      *)
(* below n the next one, holds all of 0 .. n.                              *)
LEMMA UpTo ==
    ASSUME NEW n \in Nat, NEW S, 0 \in S,
           \A k \in 0 .. n : k \in S /\ k < n => k + 1 \in S
    PROVE  0 .. n \subseteq S
<1> SUFFICES ASSUME NEW x \in (0 .. n) \ S PROVE FALSE
  OBVIOUS
<1>1. PICK y \in (0 .. n) \ S : \A z \in (0 .. n) \ S : y <= z
  <2>1. (0 .. n) \ S \in SUBSET Nat /\ (0 .. n) \ S # {}
    OBVIOUS
  <2> QED BY <2>1, LeastOf, Zenon
<1>2. y # 0 /\ y - 1 \in 0 .. n /\ y - 1 < n
  OBVIOUS
<1>3. y - 1 \in S
  BY <1>1, <1>2
<1> QED BY <1>2, <1>3

(* The runs of a loop of n turns over states in D, each turn a function of *)
(* the state that the turn before has left.                                *)
Runs(n, D, start, step) ==
    {f \in [0 .. n -> D] :
       f[0] = start /\ \A k \in 1 .. n : f[k] = step[k][f[k - 1]]}

(* Such a loop has a run.                                                  *)
LEMMA RunExists ==
    ASSUME NEW n \in Nat, NEW D, NEW start \in D,
           NEW step \in [1 .. n -> [D -> D]]
    PROVE  Runs(n, D, start, step) # {}
<1> DEFINE Good(f, m) == f[0] = start /\ \A k \in 1 .. m : f[k] = step[k][f[k - 1]]
           S == {m \in 0 .. n : \E f \in [0 .. n -> D] : Good(f, m)}
<1>1. 0 \in S
  <2> DEFINE f0 == [k \in 0 .. n |-> start]
  <2>1. f0 \in [0 .. n -> D] /\ Good(f0, 0)
    OBVIOUS
  <2> HIDE DEF f0
  <2> QED BY <2>1
<1>2. ASSUME NEW m \in 0 .. n, m \in S, m < n PROVE m + 1 \in S
  <2>1. PICK f \in [0 .. n -> D] : Good(f, m)
    BY <1>2
  <2> DEFINE g == [k \in 0 .. n |-> IF k = m + 1 THEN step[m + 1][f[m]] ELSE f[k]]
  <2>2. g \in [0 .. n -> D]
    <3>1. m + 1 \in 1 .. n /\ f[m] \in D
      BY <1>2
    <3>2. step[m + 1][f[m]] \in D
      BY <3>1
    <3> QED BY <3>2
  <2>3. /\ g[0] = f[0]
        /\ g[m + 1] = step[m + 1][f[m]]
        /\ \A k \in 0 .. m : g[k] = f[k]
    BY <1>2
  <2> HIDE DEF g
  <2>4. ASSUME NEW k \in 1 .. m + 1 PROVE g[k] = step[k][g[k - 1]]
    <3>1. k - 1 \in 0 .. m /\ g[k - 1] = f[k - 1]
      BY <2>3
    <3>2. CASE k = m + 1
      BY <3>1, <3>2, <2>3
    <3>3. CASE k # m + 1
      <4>1. k \in 1 .. m /\ g[k] = f[k]
        BY <3>3, <2>3
      <4> QED BY <4>1, <3>1, <2>1
    <3> QED BY <3>2, <3>3
  <2>5. Good(g, m + 1)
    BY <2>1, <2>3, <2>4
  <2>6. m + 1 \in 0 .. n
    BY <1>2
  <2> QED BY <2>2, <2>5, <2>6
<1>3. n \in S
  <2> HIDE DEF S
  <2>1. 0 .. n \subseteq S
    BY <1>1, <1>2, UpTo, Zenon
  <2> QED BY <2>1
<1>4. PICK f \in [0 .. n -> D] : Good(f, n)
  BY <1>3
<1>5. f \in Runs(n, D, start, step)
  BY <1>4 DEF Runs
<1> QED BY <1>5

-----------------------------------------------------------------------------
(* serialize_batch                                                         *)

\* serialize_batch's variables in its loop, before the loop, and after each
\* of its turns.
Building == [written : Nat, n : Nat, stop : BOOLEAN, cut : BOOLEAN,
             metric : BOOLEAN]

Started == [written |-> 1, n |-> 0, stop |-> FALSE, cut |-> FALSE,
            metric |-> FALSE]

\* serialize_batch's own function
Events(lens, size) ==
    CHOOSE f : f = [k \in 0 .. Len(lens) |->
        IF k = 0 THEN Started ELSE AppendEvent(f[k - 1], lens[k], size)]

\* A turn of the loop keeps the types: written never falls below 0.
LEMMA AppendTyped ==
    ASSUME NEW s \in Building, NEW len \in Nat, NEW size \in Nat
    PROVE  AppendEvent(s, len, size) \in Building
<1>1. /\ s.written \in Nat /\ s.n \in Nat /\ s.stop \in BOOLEAN
      /\ s.cut \in BOOLEAN /\ s.metric \in BOOLEAN
  BY DEF Building
<1>2. s.written < size - 2 => size - 2 \in Nat
  BY <1>1
<1> DEFINE at == s.written + (IF s.n = 0 THEN 0 ELSE 1)
<1>3. at \in Nat
  BY <1>1
<1>4. CASE s.stop \/ s.written >= size - 2
  <2>1. AppendEvent(s, len, size) = [s EXCEPT !.stop = TRUE]
    BY <1>4 DEF AppendEvent
  <2> QED BY <2>1, Zenon DEF Building
<1>5. CASE ~(s.stop \/ s.written >= size - 2) /\ len >= size - at
  <2>1. AppendEvent(s, len, size) =
           [s EXCEPT !.written = size - 2, !.stop = TRUE, !.cut = TRUE]
    BY <1>5 DEF AppendEvent
  <2>2. size - 2 \in Nat
    BY <1>1, <1>2, <1>5
  <2> QED BY <2>1, <2>2, Zenon DEF Building
<1>6. CASE ~(s.stop \/ s.written >= size - 2) /\ ~(len >= size - at)
  <2>1. AppendEvent(s, len, size) = [s EXCEPT !.written = at + len, !.n = s.n + 1]
    BY <1>6 DEF AppendEvent
  <2>2. at + len \in Nat /\ s.n + 1 \in Nat
    BY <1>1, <1>3
  <2> HIDE DEF at
  <2> QED BY <2>1, <2>2, Zenon DEF Building
<1> QED BY <1>4, <1>5, <1>6

(* The loop over the events has a run, and each turn starts where the one  *)
(* before has ended.                                                       *)
LEMMA EventsRun ==
    ASSUME NEW lens \in Seq(Nat), NEW size \in Nat
    PROVE  /\ Events(lens, size)[0] = Started
           /\ \A k \in 0 .. Len(lens) : Events(lens, size)[k] \in Building
           /\ \A k \in 1 .. Len(lens) :
                 Events(lens, size)[k] =
                    AppendEvent(Events(lens, size)[k - 1], lens[k], size)
<1> DEFINE n == Len(lens)
           step == [k \in 1 .. n |-> [s \in Building |-> AppendEvent(s, lens[k], size)]]
           Eq(f) == f = [k \in 0 .. n |->
                    IF k = 0 THEN Started ELSE AppendEvent(f[k - 1], lens[k], size)]
<1>1. n \in Nat /\ \A k \in 1 .. n : lens[k] \in Nat
  OBVIOUS
<1>2. Started \in Building
  BY DEF Started, Building
<1>3. step \in [1 .. n -> [Building -> Building]]
  BY <1>1, AppendTyped, Zenon
<1>4. \A k \in 1 .. n : \A s \in Building : step[k][s] = AppendEvent(s, lens[k], size)
  OBVIOUS
<1> HIDE DEF step, n
<1>5. PICK f \in Runs(n, Building, Started, step) : TRUE
  <2>1. n \in Nat
    BY <1>1
  <2> QED BY <2>1, <1>2, <1>3, RunExists, SMTT(30)
<1>6. /\ f \in [0 .. n -> Building] /\ f[0] = Started
      /\ \A k \in 1 .. n : f[k] = step[k][f[k - 1]]
  BY <1>5 DEF Runs
<1>7. ASSUME NEW k \in 1 .. n PROVE f[k] = AppendEvent(f[k - 1], lens[k], size)
  <2>1. f[k - 1] \in Building
    BY <1>1, <1>6, SMTT(30)
  <2> QED BY <1>4, <1>6, <2>1
<1>8. ASSUME NEW k \in 0 .. n
      PROVE  f[k] = IF k = 0 THEN Started ELSE AppendEvent(f[k - 1], lens[k], size)
  BY <1>1, <1>6, <1>7
<1>9. Eq(f)
  BY <1>6, <1>8
<1> DEFINE e == Events(lens, size)
<1>10. Eq(e)
  BY <1>9, Zenon DEF Events, n
<1>11. \A k \in 0 .. n :
          e[k] = IF k = 0 THEN Started ELSE AppendEvent(e[k - 1], lens[k], size)
  <2> HIDE DEF e
  <2> QED BY <1>10, Zenon
<1> HIDE DEF e
<1>12. e[0] = Started /\ \A k \in 1 .. n : e[k] = AppendEvent(e[k - 1], lens[k], size)
  BY <1>1, <1>11
<1> DEFINE S == {k \in 0 .. n : e[k] \in Building}
<1>13. 0 .. n \subseteq S
  <2>1. 0 \in S
    BY <1>1, <1>2, <1>12
  <2>2. ASSUME NEW k \in 0 .. n, k \in S, k < n PROVE k + 1 \in S
    <3>1. k + 1 \in 1 .. n /\ (k + 1) - 1 = k /\ e[k] \in Building /\ lens[k + 1] \in Nat
      BY <1>1, <2>2
    <3>2. e[k + 1] = AppendEvent(e[k], lens[k + 1], size)
      BY <1>12, <3>1
    <3>3. e[k + 1] \in Building
      BY <3>1, <3>2, AppendTyped
    <3> QED BY <1>1, <3>1, <3>3
  <2> HIDE DEF S
  <2> QED BY <1>1, <2>1, <2>2, UpTo, Zenon
<1> QED BY <1>12, <1>13 DEF e, n

\* The text is what that run ends with, the metric and the last bracket.
LEMMA BatchOf ==
    ASSUME NEW lens \in Seq(Nat), NEW size \in Nat, NEW metric \in Nat
    PROVE  LET s == AppendMetric(Events(lens, size)[Len(lens)], metric, size) IN
           serialize_batch(lens, metric, size) =
              [len |-> s.written + 1, top |-> s.written + 1, n |-> s.n,
               metric |-> s.metric, cut |-> s.cut]
BY DEF serialize_batch, Events, Started

\* What holds after k turns: a loop that has stopped has filled the buffer up
\* to the last two bytes, any other has taken every event whole.
Pace(s, k, size) ==
    /\ s \in Building /\ ~s.metric
    /\ s.stop \/ s.cut => s.written >= size - 2
    /\ ~s.stop => s.n = k /\ ~s.cut

\* One turn of the loop.
LEMMA AppendPace ==
    ASSUME NEW k \in Nat, NEW s, NEW len \in Nat, NEW size \in Nat,
           Pace(s, k, size)
    PROVE  Pace(AppendEvent(s, len, size), k + 1, size)
<1> DEFINE at == s.written + (IF s.n = 0 THEN 0 ELSE 1)
           a  == AppendEvent(s, len, size)
<1>1. /\ s.written \in Nat /\ s.n \in Nat /\ s.stop \in BOOLEAN
      /\ s.cut \in BOOLEAN /\ s.metric \in BOOLEAN /\ ~s.metric
      /\ s.stop \/ s.cut => s.written >= size - 2
      /\ ~s.stop => s.n = k /\ ~s.cut
  BY DEF Building, Pace
<1>2. a \in Building
  BY AppendTyped DEF Pace
<1>3. /\ a.written = IF s.stop \/ s.written >= size - 2 THEN s.written
                     ELSE IF len >= size - at THEN size - 2 ELSE at + len
      /\ a.n = IF s.stop \/ s.written >= size - 2 \/ len >= size - at
               THEN s.n ELSE s.n + 1
      /\ a.stop = (s.stop \/ s.written >= size - 2 \/ len >= size - at)
      /\ a.cut = (s.cut \/ (~(s.stop \/ s.written >= size - 2) /\ len >= size - at))
      /\ a.metric = s.metric
  BY Zenon DEF AppendEvent, Building, Pace
<1> HIDE DEF a
<1>4. /\ ~a.metric
      /\ a.stop \/ a.cut => a.written >= size - 2
      /\ ~a.stop => a.n = k + 1 /\ ~a.cut
  <2>1. CASE s.stop \/ s.written >= size - 2
    <3>1. s.written >= size - 2
      BY <1>1, <2>1
    <3>2. a.written = s.written /\ a.stop /\ ~a.metric
      BY <1>1, <1>3, <2>1, Zenon
    <3> QED BY <3>1, <3>2
  <2>2. CASE ~(s.stop \/ s.written >= size - 2) /\ len >= size - at
    <3>1. a.written = size - 2 /\ a.stop /\ ~a.metric
      BY <1>1, <1>3, <2>2, Zenon
    <3> QED BY <3>1
  <2>3. CASE ~(s.stop \/ s.written >= size - 2) /\ ~(len >= size - at)
    <3>1. s.n = k /\ ~s.cut
      BY <1>1, <2>3
    <3>2. a.n = k + 1 /\ ~a.stop /\ ~a.cut /\ ~a.metric
      BY <1>1, <1>3, <2>3, <3>1
    <3> QED BY <3>2
  <2> QED BY <2>1, <2>2, <2>3
<1> QED BY <1>2, <1>4 DEF Pace, a

\* All turns of the loop.
LEMMA EventsPace ==
    ASSUME NEW lens \in Seq(Nat), NEW size \in Nat
    PROVE  \A k \in 0 .. Len(lens) : Pace(Events(lens, size)[k], k, size)
<1> DEFINE n == Len(lens)
           e == Events(lens, size)
           S == {k \in 0 .. n : Pace(e[k], k, size)}
<1>1. /\ n \in Nat /\ \A k \in 1 .. n : lens[k] \in Nat
      /\ e[0] = Started
      /\ \A k \in 1 .. n : e[k] = AppendEvent(e[k - 1], lens[k], size)
  BY EventsRun
<1> HIDE DEF n, e
<1>2. 0 \in S
  <2>1. Pace(Started, 0, size)
    BY DEF Pace, Started, Building
  <2> QED BY <1>1, <2>1
<1>3. ASSUME NEW k \in 0 .. n, k \in S, k < n PROVE k + 1 \in S
  <2>1. k + 1 \in 1 .. n /\ (k + 1) - 1 = k /\ Pace(e[k], k, size) /\ lens[k + 1] \in Nat
    BY <1>1, <1>3
  <2>2. e[k + 1] = AppendEvent(e[k], lens[k + 1], size)
    BY <1>1, <2>1
  <2>3. Pace(e[k + 1], k + 1, size)
    BY <1>1, <2>1, <2>2, AppendPace
  <2> QED BY <1>1, <2>1, <2>3
<1>4. 0 .. n \subseteq S
  <2> HIDE DEF S
  <2> QED BY <1>1, <1>2, <1>3, UpTo, Zenon
<1> QED BY <1>4 DEF n, e

(* A text in which an event is missing or something was cut fills the      *)
(* buffer: its length is the buffer's less one, or more.                   *)
LEMMA ShortIsLong ==
    ASSUME NEW lens \in Seq(Nat), NEW size \in Nat, NEW metric \in Nat
    PROVE  LET json == serialize_batch(lens, metric, size) IN
           /\ json.len \in Nat
           /\ json.n # Len(lens) \/ json.cut => json.len >= size - 1
<1> DEFINE n == Len(lens)
           s == Events(lens, size)[n]
           at == s.written + (IF s.n = 0 THEN 0 ELSE 1)
           m == AppendMetric(s, metric, size)
           json == serialize_batch(lens, metric, size)
<1>1. n \in Nat /\ Pace(s, n, size)
  <2>1. n \in Nat /\ n \in 0 .. n
    OBVIOUS
  <2> QED BY <2>1, EventsPace
<1>2. json.len = m.written + 1 /\ json.n = m.n /\ json.cut = m.cut
  BY BatchOf
<1> HIDE DEF json, s, n
<1>3. /\ s.written \in Nat /\ s.n \in Nat /\ s.stop \in BOOLEAN
      /\ s.cut \in BOOLEAN
      /\ s.stop \/ s.cut => s.written >= size - 2
      /\ ~s.stop => s.n = n /\ ~s.cut
  BY <1>1 DEF Pace, Building
<1>4. /\ m.written = IF metric = 0 \/ s.written >= size - 2 THEN s.written
                     ELSE at + metric
      /\ m.n = s.n
      /\ m.cut = (s.cut \/ (~(metric = 0 \/ s.written >= size - 2) /\ metric >= size - at))
  BY <1>1, <1>3 DEF AppendMetric, Pace, Building
<1> HIDE DEF m
<1>5. m.n # n \/ m.cut => m.written >= size - 2
  BY <1>3, <1>4
<1>6. m.written \in Nat
  BY <1>3, <1>4
<1>7. json.len \in Nat /\ (json.n # n \/ json.cut => json.len >= size - 1)
  BY <1>2, <1>5, <1>6
<1> QED BY <1>7 DEF json, n

\* FullLength's own function: the characters of the first k events.
Sums(lens) ==
    CHOOSE f : f = [k \in 0 .. Len(lens) |-> IF k = 0 THEN 0 ELSE f[k - 1] + lens[k]]

\* It adds one length after the other.
LEMMA SumsRun ==
    ASSUME NEW lens \in Seq(Nat)
    PROVE  /\ Sums(lens)[0] = 0
           /\ \A k \in 0 .. Len(lens) : Sums(lens)[k] \in Nat
           /\ \A k \in 1 .. Len(lens) : Sums(lens)[k] = Sums(lens)[k - 1] + lens[k]
<1> DEFINE n == Len(lens)
           step == [k \in 1 .. n |-> [x \in Nat |-> x + lens[k]]]
           Eq(f) == f = [k \in 0 .. n |-> IF k = 0 THEN 0 ELSE f[k - 1] + lens[k]]
           a == Sums(lens)
<1>1. n \in Nat /\ \A k \in 1 .. n : lens[k] \in Nat
  OBVIOUS
<1>2. step \in [1 .. n -> [Nat -> Nat]]
  BY <1>1
<1>3. \A k \in 1 .. n : \A x \in Nat : step[k][x] = x + lens[k]
  OBVIOUS
<1> HIDE DEF step, n
<1>4. PICK f \in Runs(n, Nat, 0, step) : TRUE
  <2>1. n \in Nat /\ 0 \in Nat
    BY <1>1
  <2> QED BY <2>1, <1>2, RunExists, Zenon
<1>5. /\ f \in [0 .. n -> Nat] /\ f[0] = 0
      /\ \A k \in 1 .. n : f[k] = step[k][f[k - 1]]
  BY <1>4 DEF Runs
<1>6. ASSUME NEW k \in 0 .. n PROVE f[k] = IF k = 0 THEN 0 ELSE f[k - 1] + lens[k]
  <2>1. k # 0 => f[k - 1] \in Nat /\ k \in 1 .. n
    BY <1>1, <1>5
  <2> QED BY <1>3, <1>5, <2>1, Zenon
<1>7. Eq(f)
  BY <1>5, <1>6
<1>8. Eq(a)
  BY <1>7, Zenon DEF Sums, n
<1> HIDE DEF a
<1>9. a[0] = 0 /\ \A k \in 1 .. n : a[k] = a[k - 1] + lens[k]
  BY <1>1, <1>8
<1> DEFINE S == {k \in 0 .. n : a[k] \in Nat}
<1>10. 0 .. n \subseteq S
  <2>1. 0 \in S
    BY <1>1, <1>9
  <2>2. ASSUME NEW k \in 0 .. n, k \in S, k < n PROVE k + 1 \in S
    <3>1. k + 1 \in 1 .. n /\ (k + 1) - 1 = k /\ a[k] \in Nat /\ lens[k + 1] \in Nat
      BY <1>1, <2>2
    <3>2. a[k + 1] = a[k] + lens[k + 1]
      BY <1>9, <3>1
    <3> QED BY <1>1, <3>1, <3>2
  <2> HIDE DEF S
  <2> QED BY <1>1, <2>1, <2>2, UpTo, Zenon
<1> QED BY <1>9, <1>10 DEF a, n

\* The first events are no longer than all of them.
LEMMA SumsGrow ==
    ASSUME NEW lens \in Seq(Nat), NEW k \in 0 .. Len(lens)
    PROVE  Sums(lens)[k] <= Sums(lens)[Len(lens)]
<1> DEFINE n == Len(lens)
           a == Sums(lens)
           S == {j \in 0 .. n : \A i \in 0 .. j : a[i] <= a[j]}
<1>1. /\ n \in Nat /\ \A j \in 1 .. n : lens[j] \in Nat
      /\ a[0] = 0 /\ \A j \in 0 .. n : a[j] \in Nat
      /\ \A j \in 1 .. n : a[j] = a[j - 1] + lens[j]
  BY SumsRun
<1>0. n \in Nat
  OBVIOUS
<1> HIDE DEF n, a
<1>2. 0 \in S
  <2>1. ASSUME NEW i \in 0 .. 0 PROVE a[i] <= a[0]
    BY <1>1
  <2> QED BY <1>0, <2>1
<1>3. ASSUME NEW j \in 0 .. n, j \in S, j < n PROVE j + 1 \in S
  <2>1. /\ j + 1 \in 1 .. n /\ (j + 1) - 1 = j /\ lens[j + 1] \in Nat
        /\ \A i \in 0 .. j : a[i] <= a[j]
    BY <1>1, <1>3
  <2>2. a[j + 1] = a[j] + lens[j + 1]
    BY <1>1, <2>1
  <2>3. ASSUME NEW i \in 0 .. j + 1 PROVE a[i] <= a[j + 1]
    <3>0. a[j] \in Nat /\ a[i] \in Nat /\ a[j + 1] \in Nat
      <4>1. j \in 0 .. n /\ i \in 0 .. n /\ j + 1 \in 0 .. n
        BY <1>0, <1>3
      <4> QED BY <1>1, <4>1
    <3>1. CASE i = j + 1
      BY <3>0, <3>1
    <3>2. CASE i # j + 1
      <4>1. i \in 0 .. j
        BY <1>0, <3>2
      <4>2. a[i] <= a[j]
        BY <2>1, <4>1
      <4>3. lens[j + 1] \in Nat
        BY <2>1
      <4> QED BY <2>2, <3>0, <4>2, <4>3, SMTT(30)
    <3> QED BY <3>1, <3>2
  <2>4. j + 1 \in 0 .. n
    BY <1>0, <1>3
  <2> QED BY <2>3, <2>4
<1>4. 0 .. n \subseteq S
  <2> HIDE DEF S
  <2> QED BY <1>1, <1>2, <1>3, UpTo, Zenon
<1>5. n \in S /\ k \in 0 .. n
  BY <1>0, <1>4 DEF n
<1> QED BY <1>5 DEF a, n

\* The state after k events of sum characters in all, none of them cut.
Whole(sum, k) ==
    [written |-> 1 + sum + (IF k = 0 THEN 0 ELSE k - 1), n |-> k,
     stop |-> FALSE, cut |-> FALSE, metric |-> FALSE]

(* An event that leaves room for the brackets and commas is taken whole.   *)
LEMMA WholeEvent ==
    ASSUME NEW sum \in Nat, NEW k \in Nat, NEW len \in Nat \ {0},
           NEW size \in Nat, sum + len + k + 2 < size
    PROVE  AppendEvent(Whole(sum, k), len, size) = Whole(sum + len, k + 1)
<1> DEFINE w  == 1 + sum + (IF k = 0 THEN 0 ELSE k - 1)
           at == w + (IF k = 0 THEN 0 ELSE 1)
           s  == Whole(sum, k)
<1>1. /\ ~(w >= size - 2) /\ ~(len >= size - at)
      /\ at + len = 1 + (sum + len) + k /\ (k + 1) - 1 = k /\ k + 1 # 0
  OBVIOUS
<1>2. s = [written |-> w, n |-> k, stop |-> FALSE, cut |-> FALSE, metric |-> FALSE]
  BY DEF Whole
<1>3. AppendEvent(s, len, size) =
         [written |-> at + len, n |-> k + 1, stop |-> FALSE, cut |-> FALSE,
          metric |-> FALSE]
  <2> HIDE DEF s
  <2>1. s.written = w /\ s.n = k /\ s.stop = FALSE
    BY <1>2
  <2>2. AppendEvent(s, len, size) = [s EXCEPT !.written = at + len, !.n = k + 1]
    BY <1>1, <2>1 DEF AppendEvent
  <2> HIDE DEF w, at
  <2> QED BY <1>2, <2>2, Zenon
<1>4. Whole(sum + len, k + 1) =
         [written |-> at + len, n |-> k + 1, stop |-> FALSE, cut |-> FALSE,
          metric |-> FALSE]
  BY <1>1, Zenon DEF Whole
<1> QED BY <1>3, <1>4

\* Brackets, k texts of sum characters in all, the metric, and the commas.
Joined(sum, k, metric) ==
    LET texts == k + (IF metric = 0 THEN 0 ELSE 1)
    IN  2 + sum + metric + (IF texts = 0 THEN 0 ELSE texts - 1)

\* The state before the closing bracket, when nothing was cut.
Ended(s, k, metric, full) ==
    /\ s.written + 1 = full /\ s.n = k
    /\ s.metric = (metric # 0) /\ s.cut = FALSE

(* So is the metric after the last event.                                  *)
LEMMA WholeMetric ==
    ASSUME NEW sum \in Nat, NEW k \in Nat, NEW metric \in Nat, NEW size \in Nat,
           Joined(sum, k, metric) < size
    PROVE  Ended(AppendMetric(Whole(sum, k), metric, size), k, metric,
                 Joined(sum, k, metric))
<1> DEFINE w  == 1 + sum + (IF k = 0 THEN 0 ELSE k - 1)
           at == w + (IF k = 0 THEN 0 ELSE 1)
           e  == Whole(sum, k)
           s  == AppendMetric(e, metric, size)
           full == Joined(sum, k, metric)
<1>1. e = [written |-> w, n |-> k, stop |-> FALSE, cut |-> FALSE, metric |-> FALSE]
  BY DEF Whole
<1> HIDE DEF e
<1>2. /\ e.written = w /\ e.n = k /\ e.cut = FALSE /\ e.metric = FALSE
  BY <1>1
<1>3. CASE metric = 0
  <2>1. w + 1 = full
    BY <1>3 DEF Joined
  <2>2. s = e
    BY <1>3 DEF AppendMetric
  <2> HIDE DEF s, w, full
  <2>3. s.written + 1 = full /\ s.n = k /\ s.metric = FALSE /\ s.cut = FALSE
    BY <1>2, <2>1, <2>2
  <2> QED BY <1>3, <2>3, Zenon DEF e, s, full, Ended
<1>4. CASE metric # 0
  <2>1. ~(w >= size - 2) /\ ~(metric >= size - at) /\ at + metric + 1 = full
    BY <1>4 DEF Joined
  <2>2. s = [e EXCEPT !.written = at + metric, !.metric = TRUE, !.cut = FALSE]
    BY <1>2, <1>4, <2>1, Zenon DEF AppendMetric
  <2> HIDE DEF s, w, at, full
  <2>3. s.written = at + metric /\ s.n = k /\ s.metric = TRUE /\ s.cut = FALSE
    BY <1>1, <2>2
  <2> QED BY <1>4, <2>1, <2>3, Zenon DEF e, s, full, Ended
<1> QED BY <1>3, <1>4

\* The length a text should have, without its recursive function.
LEMMA FullOf ==
    ASSUME NEW lens \in Seq(Nat), NEW metric \in Nat
    PROVE  FullLength(lens, metric) =
              Joined(Sums(lens)[Len(lens)], Len(lens), metric)
BY DEF FullLength, Sums, Joined

(* serialize_batch loses nothing of a batch whose text fits the buffer, for *)
(* any number of events, and returns the length the text should have.      *)
LEMMA FitsExact ==
    ASSUME NEW lens \in Seq(Nat \ {0}), NEW size \in Nat, NEW metric \in Nat,
           FullLength(lens, metric) < size
    PROVE  serialize_batch(lens, metric, size) =
              [len |-> FullLength(lens, metric), top |-> FullLength(lens, metric),
               n |-> Len(lens), metric |-> metric # 0, cut |-> FALSE]
<1> DEFINE n == Len(lens)
           e == Events(lens, size)
           a == Sums(lens)
           full == FullLength(lens, metric)
           S == {k \in 0 .. n : e[k] = Whole(a[k], k)}
           s == AppendMetric(e[n], metric, size)
<1>0. lens \in Seq(Nat)
  OBVIOUS
<1>1. /\ n \in Nat /\ \A k \in 1 .. n : lens[k] \in Nat \ {0}
      /\ e[0] = Started
      /\ \A k \in 1 .. n : e[k] = AppendEvent(e[k - 1], lens[k], size)
      /\ a[0] = 0 /\ \A k \in 0 .. n : a[k] \in Nat
      /\ \A k \in 1 .. n : a[k] = a[k - 1] + lens[k]
      /\ \A k \in 0 .. n : a[k] <= a[n]
  BY <1>0, EventsRun, SumsRun, SumsGrow
<1>2. n \in Nat /\ a[n] \in Nat
  <2>1. n \in Nat /\ n \in 0 .. n
    OBVIOUS
  <2> QED BY <1>1, <2>1
<1>3. full = Joined(a[n], n, metric)
  BY <1>0, FullOf
<1>4. serialize_batch(lens, metric, size) =
         [len |-> s.written + 1, top |-> s.written + 1, n |-> s.n,
          metric |-> s.metric, cut |-> s.cut]
  BY <1>0, BatchOf
<1>5. full < size
  OBVIOUS
<1> HIDE DEF n, e, a, full
<1>6. full \in Nat
  BY <1>2, <1>3, SMTT(30) DEF Joined
<1>7. 0 \in S
  <2>1. Started = Whole(0, 0)
    BY DEF Whole, Started
  <2> QED BY <1>1, <1>2, <2>1
<1>8. ASSUME NEW k \in 0 .. n, k \in S, k < n PROVE k + 1 \in S
  <2>1. k + 1 \in 1 .. n /\ k + 1 \in 0 .. n /\ (k + 1) - 1 = k /\ k \in Nat
    BY <1>2, <1>8
  <2>2. /\ e[k] = Whole(a[k], k) /\ a[k] \in Nat /\ a[k + 1] <= a[n]
        /\ lens[k + 1] \in Nat \ {0}
        /\ e[k + 1] = AppendEvent(e[k], lens[k + 1], size)
        /\ a[k + 1] = a[k] + lens[k + 1]
    BY <1>1, <1>8, <2>1
  <2>3. a[k] + lens[k + 1] + k + 2 < size
    <3>1. ASSUME NEW x \in Nat, NEW y \in Nat, NEW z \in Nat, x + y <= z,
                 NEW h \in Nat, NEW i \in Nat, i < h,
                 full = Joined(z, h, metric)
          PROVE  x + y + i + 2 < size
      BY <1>5, <1>6, <3>1 DEF Joined
    <3>2. lens[k + 1] \in Nat
      BY <2>2
    <3> QED BY <1>2, <1>3, <1>8, <2>1, <2>2, <3>1, <3>2, Zenon
  <2>4. e[k + 1] = Whole(a[k + 1], k + 1)
    <3>1. AppendEvent(Whole(a[k], k), lens[k + 1], size) =
             Whole(a[k] + lens[k + 1], k + 1)
      <4>1. k \in Nat /\ a[k] \in Nat /\ lens[k + 1] \in Nat \ {0}
        BY <2>1, <2>2
      <4> QED BY <4>1, <2>3, WholeEvent, Zenon
    <3> QED BY <2>2, <3>1
  <2> QED BY <2>1, <2>4
<1>9. e[n] = Whole(a[n], n)
  <2>1. 0 .. n \subseteq S
    <3> HIDE DEF S
    <3> QED BY <1>2, <1>7, <1>8, UpTo, Zenon
  <2> QED BY <1>2, <2>1
<1>10. Ended(s, n, metric, full)
  <2>1. Joined(a[n], n, metric) < size
    BY <1>3, <1>5
  <2>2. Ended(AppendMetric(Whole(a[n], n), metric, size), n, metric,
              Joined(a[n], n, metric))
    BY <1>2, <2>1, WholeMetric
  <2> QED BY <1>3, <1>9, <2>2
<1> HIDE DEF s
<1> QED BY <1>4, <1>10, Zenon DEF full, n, Ended

-----------------------------------------------------------------------------
(* The loop over the labels of a DNS name                                  *)

\* What the loop over the labels keeps: at is a place in the bytes or behind.
Turn == [at : Nat \ {0}, name : Nat, jumped : BOOLEAN, stop : BOOLEAN]

\* The characters of the name with another label, and a dot between them.
Longer(name, label, nameMax) ==
    LET full == name + label + (IF name > 0 THEN 1 ELSE 0)
    IN  IF full < nameMax THEN full ELSE nameMax

\* The three ways through the body of the loop: it ends, where it is or behind
\* the length of a label that is not all there, or it takes a label.
TurnEnds(w, v, bytes) ==
    /\ v.at = w.at /\ v.name = w.name /\ v.stop = TRUE
    /\ w.stop \/ w.at > Len(bytes) \/ bytes[w.at] = 0 => v.jumped = w.jumped

TurnBreaks(w, v, bytes) ==
    /\ w.at \in 1 .. Len(bytes) /\ bytes[w.at] \in 1 .. 191
    /\ w.at + bytes[w.at] > Len(bytes)
    /\ v.at = w.at + 1 /\ v.name = w.name /\ v.stop = TRUE

TurnTakes(w, v, bytes, nameMax) ==
    /\ w.stop = FALSE /\ w.at \in 1 .. Len(bytes) /\ bytes[w.at] \in 1 .. 191
    /\ w.at + bytes[w.at] <= Len(bytes)
    /\ v.at = w.at + 1 + bytes[w.at] /\ v.jumped = w.jumped /\ v.stop = FALSE
    /\ v.name = Longer(w.name, bytes[w.at], nameMax)

\* What a sequence holds.
LEMMA InSeq ==
    ASSUME NEW S, NEW s \in Seq(S)
    PROVE  \A i \in 1 .. Len(s) : s[i] \in S
  OBVIOUS

\* A sequence over a set is one over any larger set.
LEMMA SeqOfMore ==
    ASSUME NEW S, NEW T, S \subseteq T, NEW s \in Seq(S)
    PROVE  s \in Seq(T)
<1>1. s \in [1 .. Len(s) -> S] /\ Len(s) \in Nat
  OBVIOUS
<1>2. s \in [1 .. Len(s) -> T]
  BY <1>1
<1> QED BY <1>1, <1>2

\* With a label the name grows by no more than the label and a dot.
LEMMA LongerTyped ==
    ASSUME NEW name \in Nat, NEW label \in Nat, NEW nameMax \in Nat
    PROVE  /\ Longer(name, label, nameMax) \in Nat
           /\ Longer(name, label, nameMax) <= name + label + 1
           /\ name = 0 => Longer(name, label, nameMax) <= label
  BY DEF Longer

\* Every turn of parse_dns_payload's loop goes one of the three ways.
LEMMA LabelCases ==
    ASSUME NEW bytes \in Seq(0 .. 255), NEW nameMax \in Nat, NEW w \in Turn
    PROVE  LET v == DnsLabel(w, bytes, nameMax) IN
           /\ v \in Turn
           /\ \/ TurnEnds(w, v, bytes) \/ TurnBreaks(w, v, bytes)
              \/ TurnTakes(w, v, bytes, nameMax)
<1> DEFINE label == bytes[w.at]
           v == DnsLabel(w, bytes, nameMax)
           ended == w.stop \/ w.at > Len(bytes) \/ label = 0
<1>0. w.at \in Nat /\ w.at > 0 /\ w.name \in Nat /\ Len(bytes) \in Nat
  BY DEF Turn
<1>b. w.stop \in BOOLEAN
  BY DEF Turn
<1>s. \A i \in 1 .. Len(bytes) : bytes[i] \in 0 .. 255
  BY InSeq
<1>1. CASE ended
  <2>1. v = [w EXCEPT !.stop = TRUE]
    BY <1>1 DEF DnsLabel
  <2> QED BY <1>1, <2>1, Zenon DEF Turn, TurnEnds
<1>2. CASE ~ended
  <2>0. w.stop = FALSE /\ label # 0
    BY <1>b, <1>2
  <2>1. w.at \in 1 .. Len(bytes)
    BY <1>0, <1>2
  <2>2. label \in 0 .. 255
    BY <1>s, <2>1, SMTT(30)
  <2>3. label \in 1 .. 255
    <3> HIDE DEF label
    <3> QED BY <2>0, <2>2
  <2>4. CASE label >= 192
    <3>1. v = [w EXCEPT !.jumped = TRUE, !.stop = TRUE]
      BY <1>2, <2>4 DEF DnsLabel
    <3> HIDE DEF v
    <3>2. v \in Turn /\ v.at = w.at /\ v.name = w.name /\ v.stop = TRUE
      BY <3>1, Zenon DEF Turn
    <3> QED BY <1>2, <3>2 DEF TurnEnds, v
  <2>5. CASE ~(label >= 192) /\ w.at + label > Len(bytes)
    <3>1. v = [w EXCEPT !.at = w.at + 1, !.stop = TRUE]
      BY <1>2, <2>5 DEF DnsLabel
    <3> HIDE DEF v
    <3>2. w.at + 1 \in Nat \ {0}
      BY <1>0
    <3>3. v \in Turn /\ v.at = w.at + 1 /\ v.name = w.name /\ v.stop = TRUE
      BY <3>1, <3>2, Zenon DEF Turn
    <3>4. label \in 1 .. 191
      <4> HIDE DEF label
      <4> QED BY <2>3, <2>5
    <3> QED BY <2>1, <2>5, <3>3, <3>4 DEF TurnBreaks, v
  <2>6. CASE ~(label >= 192) /\ ~(w.at + label > Len(bytes))
    <3> DEFINE long == Longer(w.name, label, nameMax)
    <3>1. v = [w EXCEPT !.at = w.at + 1 + label, !.name = long]
      BY <1>2, <2>6 DEF DnsLabel, Longer
    <3>2. label \in 1 .. 191 /\ label \in Nat /\ w.at + 1 + label \in Nat \ {0}
          /\ w.at + label <= Len(bytes)
      <4> HIDE DEF label
      <4>1. label \in Nat /\ label \in 1 .. 191
        BY <2>3, <2>6
      <4>2. w.at + label <= Len(bytes) /\ w.at + 1 + label \in Nat \ {0}
        BY <1>0, <2>6, <4>1
      <4> QED BY <4>1, <4>2
    <3>3. long \in Nat
      BY <1>0, <3>2, LongerTyped, Zenon
    <3> HIDE DEF v, long, label
    <3>4. /\ v \in Turn /\ v.at = w.at + 1 + label /\ v.name = long
          /\ v.stop = w.stop /\ v.jumped = w.jumped
      BY <3>1, <3>2, <3>3, Zenon DEF Turn
    <3>5. TurnTakes(w, v, bytes, nameMax)
      BY <2>0, <2>1, <3>2, <3>4 DEF TurnTakes, long, label
    <3> QED BY <3>4, <3>5 DEF v
  <2> QED BY <2>4, <2>5, <2>6
<1> QED BY <1>1, <1>2

\* After k turns the place is inside the message, no more characters are kept
\* than were passed, and every turn that did not end the loop took a label.
Within(w, k, bytes) ==
    /\ w.at <= Len(bytes) + 1
    /\ w.name > 0 => w.name + 2 <= w.at
    /\ w.stop = FALSE => w.at >= 1 + 2 * k

\* A turn keeps the place inside the message and the name shorter than the
\* bytes that were passed.
LEMMA LabelWithin ==
    ASSUME NEW bytes \in Seq(0 .. 255), NEW nameMax \in Nat, NEW w \in Turn,
           NEW k \in Nat, Within(w, k, bytes)
    PROVE  Within(DnsLabel(w, bytes, nameMax), k + 1, bytes)
<1> DEFINE label == bytes[w.at]
           v == DnsLabel(w, bytes, nameMax)
<1> SUFFICES Within(v, k + 1, bytes)
  OBVIOUS
<1>1. w.at \in Nat /\ w.at > 0 /\ w.name \in Nat /\ Len(bytes) \in Nat
  BY DEF Turn
<1>2. /\ v \in Turn
      /\ \/ TurnEnds(w, v, bytes) \/ TurnBreaks(w, v, bytes)
         \/ TurnTakes(w, v, bytes, nameMax)
  BY LabelCases
<1> HIDE DEF v
<1>3. CASE TurnEnds(w, v, bytes)
  BY <1>1, <1>3 DEF TurnEnds, Within
<1>4. CASE TurnBreaks(w, v, bytes)
  <2>1. /\ w.at \in 1 .. Len(bytes)
        /\ v.at = w.at + 1 /\ v.name = w.name /\ v.stop = TRUE
    BY <1>4 DEF TurnBreaks
  <2>2. v.at <= Len(bytes) + 1 /\ (v.name > 0 => v.name + 2 <= v.at)
    BY <1>1, <2>1 DEF Within
  <2> QED BY <2>1, <2>2 DEF Within
<1>5. CASE TurnTakes(w, v, bytes, nameMax)
  <2>1. /\ w.stop = FALSE /\ label \in 1 .. 191 /\ w.at + label <= Len(bytes)
        /\ v.at = w.at + 1 + label /\ v.name = Longer(w.name, label, nameMax)
    BY <1>5 DEF TurnTakes
  <2> HIDE DEF label
  <2>2. label \in Nat /\ label >= 1
    BY <2>1
  <2>3. v.name \in Nat /\ v.name <= w.name + label + 1 /\ (w.name = 0 => v.name <= label)
    <3>1. v.name = Longer(w.name, label, nameMax) /\ w.name \in Nat
      BY <1>1, <2>1
    <3> QED BY <2>2, <3>1, LongerTyped, Zenon
  <2>4. w.at >= 1 + 2 * k /\ (w.name > 0 => w.name + 2 <= w.at)
    BY <2>1 DEF Within
  <2>5. v.at <= Len(bytes) + 1 /\ v.at >= 1 + 2 * (k + 1)
    BY <1>1, <2>1, <2>2, <2>4
  <2>6. v.name + 2 <= v.at
    <3>1. v.at = w.at + 1 + label
      BY <2>1
    <3>2. CASE w.name = 0
      BY <1>1, <2>2, <2>3, <3>1, <3>2
    <3>3. CASE w.name > 0
      <4>1. w.name + 2 <= w.at /\ v.name <= w.name + label + 1
        BY <2>3, <2>4, <3>3
      <4>2. v.name \in Nat
        BY <2>3
      <4> QED BY <1>1, <2>2, <3>1, <4>1, <4>2, SMTT(30)
    <3> QED BY <1>1, <3>2, <3>3
  <2> QED BY <2>5, <2>6 DEF Within
<1> QED BY <1>2, <1>3, <1>4, <1>5

\* DnsWalk's own function
Walk(bytes, nameMax) ==
    CHOOSE f : f = [k \in 0 .. (Len(bytes) + 1) |->
        IF k = 0 THEN DnsStart ELSE DnsLabel(f[k - 1], bytes, nameMax)]

(* The loop over the labels has a run.                                     *)
LEMMA WalkRun ==
    ASSUME NEW bytes \in Seq(0 .. 255), NEW nameMax \in Nat
    PROVE  LET e == Walk(bytes, nameMax)
               n == Len(bytes) + 1
           IN  /\ DnsWalk(bytes, nameMax) = e[n]
               /\ e[0] = DnsStart
               /\ \A k \in 0 .. n : e[k] \in Turn
               /\ \A k \in 1 .. n : e[k] = DnsLabel(e[k - 1], bytes, nameMax)
<1> DEFINE n == Len(bytes) + 1
           step == [k \in 1 .. n |-> [s \in Turn |-> DnsLabel(s, bytes, nameMax)]]
           Eq(f) == f = [k \in 0 .. n |->
                    IF k = 0 THEN DnsStart ELSE DnsLabel(f[k - 1], bytes, nameMax)]
<1>1. n \in Nat
  OBVIOUS
<1>2. DnsStart \in Turn
  BY DEF DnsStart, Turn
<1>3. \A s \in Turn : DnsLabel(s, bytes, nameMax) \in Turn
  BY LabelCases
<1>4. /\ step \in [1 .. n -> [Turn -> Turn]]
      /\ \A k \in 1 .. n : \A s \in Turn : step[k][s] = DnsLabel(s, bytes, nameMax)
  BY <1>3
<1>5. DnsWalk(bytes, nameMax) = Walk(bytes, nameMax)[n]
  BY DEF DnsWalk, Walk
<1> HIDE DEF step, n
<1>6. PICK f \in Runs(n, Turn, DnsStart, step) : TRUE
  BY <1>1, <1>2, <1>4, RunExists
<1>7. /\ f \in [0 .. n -> Turn] /\ f[0] = DnsStart
      /\ \A k \in 1 .. n : f[k] = step[k][f[k - 1]]
  BY <1>6 DEF Runs
<1>8. ASSUME NEW k \in 1 .. n PROVE f[k] = DnsLabel(f[k - 1], bytes, nameMax)
  <2>1. f[k - 1] \in Turn
    BY <1>1, <1>7
  <2> QED BY <1>4, <1>7, <2>1
<1>9. ASSUME NEW k \in 0 .. n
      PROVE  f[k] = IF k = 0 THEN DnsStart ELSE DnsLabel(f[k - 1], bytes, nameMax)
  BY <1>1, <1>7, <1>8
<1>10. Eq(f)
  BY <1>7, <1>9
<1> DEFINE e == Walk(bytes, nameMax)
<1>11. Eq(e)
  BY <1>10, SMTT(30) DEF Walk, n
<1>12. \A k \in 0 .. n :
          e[k] = IF k = 0 THEN DnsStart ELSE DnsLabel(e[k - 1], bytes, nameMax)
  <2> HIDE DEF e
  <2> QED BY <1>11, Zenon
<1> HIDE DEF e
<1>13. /\ e[0] = DnsStart
       /\ \A k \in 1 .. n : e[k] = DnsLabel(e[k - 1], bytes, nameMax)
  BY <1>1, <1>12
<1> DEFINE S == {k \in 0 .. n : e[k] \in Turn}
<1>14. 0 .. n \subseteq S
  <2>1. 0 \in S
    BY <1>1, <1>2, <1>13
  <2>2. ASSUME NEW k \in 0 .. n, k \in S, k < n PROVE k + 1 \in S
    <3>1. k + 1 \in 1 .. n /\ (k + 1) - 1 = k /\ e[k] \in Turn
      BY <1>1, <2>2
    <3>2. e[k + 1] = DnsLabel(e[k], bytes, nameMax)
      BY <1>13, <3>1
    <3> QED BY <1>1, <1>3, <3>1, <3>2
  <2> HIDE DEF S
  <2> QED BY <1>1, <2>1, <2>2, UpTo, Zenon
<1> QED BY <1>5, <1>13, <1>14 DEF e, n

\* The loop ends, and keeps fewer characters than there are bytes.
LEMMA WalkEnds ==
    ASSUME NEW bytes \in Seq(0 .. 255), NEW nameMax \in Nat
    PROVE  LET w == DnsWalk(bytes, nameMax) IN
           w \in Turn /\ w.stop = TRUE /\ (w.name > 0 => w.name < Len(bytes))
<1> DEFINE e == Walk(bytes, nameMax)
           n == Len(bytes) + 1
           w == DnsWalk(bytes, nameMax)
<1>1. /\ w = e[n] /\ e[0] = DnsStart
      /\ \A k \in 0 .. n : e[k] \in Turn
      /\ \A k \in 1 .. n : e[k] = DnsLabel(e[k - 1], bytes, nameMax)
  BY WalkRun
<1>2. n \in Nat /\ Len(bytes) \in Nat
  OBVIOUS
<1> DEFINE S == {k \in 0 .. n : Within(e[k], k, bytes)}
<1> HIDE DEF e, w
<1>3. 0 .. n \subseteq S
  <2> HIDE DEF n
  <2>1. 0 \in S
    <3>1. Within(DnsStart, 0, bytes)
      BY DEF Within, DnsStart
    <3> QED BY <1>1, <1>2, <3>1
  <2>2. ASSUME NEW k \in 0 .. n, k \in S, k < n PROVE k + 1 \in S
    <3>1. /\ k + 1 \in 1 .. n /\ (k + 1) - 1 = k /\ k \in Nat
          /\ e[k] \in Turn /\ Within(e[k], k, bytes)
      BY <1>1, <1>2, <2>2
    <3>2. e[k + 1] = DnsLabel(e[k], bytes, nameMax)
      BY <1>1, <3>1
    <3>3. Within(e[k + 1], k + 1, bytes)
      BY <3>1, <3>2, LabelWithin
    <3> QED BY <1>2, <3>1, <3>3
  <2> HIDE DEF S
  <2> QED BY <1>2, <2>1, <2>2, UpTo, Zenon
<1>4. w \in Turn /\ Within(w, n, bytes)
  BY <1>1, <1>2, <1>3
<1>5. w.at \in Nat /\ w.name \in Nat
  BY <1>4 DEF Turn
<1>6. w.stop \in BOOLEAN
  BY <1>4 DEF Turn
<1>7. /\ w.at <= Len(bytes) + 1 /\ (w.name > 0 => w.name + 2 <= w.at)
      /\ (w.stop = FALSE => w.at >= 1 + 2 * n)
  BY <1>4 DEF Within
<1>8. w.stop # FALSE
  <2>1. ~(w.at >= 1 + 2 * n)
    BY <1>2, <1>5, <1>7
  <2> QED BY <1>7, <2>1, Zenon
<1>9. w.stop = TRUE
  BY <1>6, <1>8, Zenon
<1>10. w.name > 0 => w.name < Len(bytes)
  BY <1>2, <1>5, <1>7
<1> QED BY <1>4, <1>9, <1>10 DEF w

\* A complete name: where its labels begin, and the 0 behind the last one.
Marks(bytes, n, start) ==
    /\ start \in [0 .. n -> Nat] /\ start[0] = 1
    /\ start[n] <= Len(bytes) /\ bytes[start[n]] = 0
    /\ \A k \in 1 .. n : /\ bytes[start[k - 1]] \in 1 .. 191
                         /\ start[k] = start[k - 1] + 1 + bytes[start[k - 1]]

\* A label and its length take two bytes at least.
LEMMA MarksGrow ==
    ASSUME NEW bytes \in Seq(0 .. 255), NEW n \in Nat, NEW start,
           Marks(bytes, n, start)
    PROVE  /\ n <= Len(bytes)
           /\ \A k \in 0 .. n : start[k] \in 1 .. start[n]
<1>0. Len(bytes) \in Nat
  OBVIOUS
<1>1. /\ \A k \in 0 .. n : start[k] \in Nat
      /\ start[0] = 1 /\ start[n] <= Len(bytes)
      /\ \A k \in 1 .. n : start[k] >= start[k - 1] + 2
  <2>1. /\ start \in [0 .. n -> Nat] /\ start[0] = 1 /\ start[n] <= Len(bytes)
    BY DEF Marks
  <2>2. ASSUME NEW k \in 1 .. n PROVE start[k] >= start[k - 1] + 2
    <3> DEFINE l == bytes[start[k - 1]]
    <3>1. l \in 1 .. 191 /\ start[k] = start[k - 1] + 1 + l
      BY DEF Marks
    <3>2. start[k - 1] \in Nat
      BY <2>1
    <3> HIDE DEF l
    <3> QED BY <3>1, <3>2, SMTT(30)
  <2> QED BY <2>1, <2>2
<1> DEFINE S == {j \in 0 .. n : start[j] >= 1 + 2 * j}
           T == {j \in 0 .. n : start[n - j] <= start[n]}
<1>2. 0 .. n \subseteq S
  <2>1. 0 \in S
    BY <1>1
  <2>2. ASSUME NEW k \in 0 .. n, k \in S, k < n PROVE k + 1 \in S
    <3>1. k + 1 \in 1 .. n /\ (k + 1) - 1 = k /\ start[k] \in Nat /\ start[k + 1] \in Nat
          /\ start[k] >= 1 + 2 * k
      BY <1>1, <2>2
    <3>2. start[k + 1] >= start[k] + 2
      BY <1>1, <3>1
    <3>3. start[k + 1] >= 1 + 2 * (k + 1)
      BY <3>1, <3>2
    <3> QED BY <3>1, <3>3
  <2> HIDE DEF S
  <2> QED BY <2>1, <2>2, UpTo, Zenon
<1>3. 0 .. n \subseteq T
  <2>1. 0 \in T
    BY <1>1
  <2>2. ASSUME NEW k \in 0 .. n, k \in T, k < n PROVE k + 1 \in T
    <3>1. /\ n - k \in 1 .. n /\ (n - k) - 1 = n - (k + 1) /\ n - (k + 1) \in 0 .. n
          /\ start[n - k] <= start[n] /\ n \in 0 .. n
      BY <2>2
    <3>2. /\ start[n - k] >= start[n - (k + 1)] + 2 /\ start[n] \in Nat
          /\ start[n - k] \in Nat /\ start[n - (k + 1)] \in Nat
      BY <1>1, <3>1
    <3>3. start[n - (k + 1)] <= start[n]
      BY <3>1, <3>2
    <3> QED BY <2>2, <3>1, <3>3
  <2> HIDE DEF T
  <2> QED BY <2>1, <2>2, UpTo, Zenon
<1>4. start[n] >= 1 + 2 * n /\ start[n] \in Nat
  BY <1>1, <1>2
<1>5. ASSUME NEW k \in 0 .. n PROVE start[k] \in 1 .. start[n]
  <2>1. n - k \in 0 .. n /\ n - (n - k) = k
    OBVIOUS
  <2>2. start[k] <= start[n]
    BY <1>3, <2>1, Zenon
  <2>3. start[k] >= 1 + 2 * k /\ start[k] \in Nat
    BY <1>1, <1>2
  <2> QED BY <1>4, <2>2, <2>3
<1> QED BY <1>0, <1>1, <1>4, <1>5

\* The characters kept when the place is at: the labels and the dots between
\* them, without the length of the first and the 0.
KeptOf(at, nameMax) == IF at - 2 < nameMax THEN at - 2 ELSE nameMax

\* The first label has no dot in front of it.
LEMMA FirstKept ==
    ASSUME NEW label \in Nat \ {0}, NEW nameMax \in Nat
    PROVE  Longer(0, label, nameMax) = KeptOf(2 + label, nameMax)
  BY DEF Longer, KeptOf

\* Every later label adds its characters and one dot, up to the end of name[].
LEMMA LongerKept ==
    ASSUME NEW at \in Nat, at >= 3, NEW label \in Nat \ {0}, NEW nameMax \in Nat
    PROVE  Longer(KeptOf(at, nameMax), label, nameMax) =
              KeptOf(at + 1 + label, nameMax)
<1>1. CASE at - 2 < nameMax
  <2>1. KeptOf(at, nameMax) = at - 2
    BY <1>1 DEF KeptOf
  <2>2. (at - 2) + label + (IF at - 2 > 0 THEN 1 ELSE 0) = (at + 1 + label) - 2
    OBVIOUS
  <2> QED BY <2>1, <2>2 DEF Longer, KeptOf
<1>2. CASE ~(at - 2 < nameMax)
  <2>1. KeptOf(at, nameMax) = nameMax
    BY <1>2 DEF KeptOf
  <2>2. /\ ~(nameMax + label + (IF nameMax > 0 THEN 1 ELSE 0) < nameMax)
        /\ ~((at + 1 + label) - 2 < nameMax)
    BY <1>2
  <2> QED BY <2>1, <2>2 DEF Longer, KeptOf
<1> QED BY <1>1, <1>2

\* Where the loop is after a turn, as long as there are labels, and at the end.
Passing(w, at, name) ==
    w.at = at /\ w.name = name /\ w.jumped = FALSE /\ w.stop = FALSE

Resting(w, at, name) == w.at = at /\ w.name = name /\ w.jumped = FALSE

\* A turn at a label that fits goes to the next length byte and keeps the
\* label's characters.
LEMMA PassLabel ==
    ASSUME NEW bytes \in Seq(0 .. 255), NEW nameMax \in Nat, NEW w \in Turn,
           NEW at \in 1 .. Len(bytes), NEW name \in Nat, Passing(w, at, name),
           bytes[at] \in 1 .. 191, at + bytes[at] <= Len(bytes)
    PROVE  Passing(DnsLabel(w, bytes, nameMax), at + 1 + bytes[at],
                   Longer(name, bytes[at], nameMax))
<1> DEFINE v == DnsLabel(w, bytes, nameMax)
           label == bytes[at]
<1>1. w.at = at /\ w.name = name /\ w.jumped = FALSE /\ w.stop = FALSE
  BY DEF Passing
<1>2. at \in Nat /\ at <= Len(bytes) /\ Len(bytes) \in Nat
  OBVIOUS
<1>3. ~(w.at > Len(bytes)) /\ label # 0 /\ ~(label >= 192) /\ ~(w.at + label > Len(bytes))
  <2>1. label \in 1 .. 191 /\ at + label <= Len(bytes)
    OBVIOUS
  <2> HIDE DEF label
  <2> QED BY <1>1, <1>2, <2>1
<1>4. v = [w EXCEPT !.at = w.at + 1 + label, !.name = Longer(w.name, label, nameMax)]
  BY <1>1, <1>3 DEF DnsLabel, Longer
<1> HIDE DEF v, label
<1>5. /\ v.at = w.at + 1 + label /\ v.name = Longer(w.name, label, nameMax)
      /\ v.stop = w.stop /\ v.jumped = w.jumped
  BY <1>4 DEF Turn
<1> QED BY <1>1, <1>5 DEF Passing, v, label

\* At the 0 behind a name a turn changes nothing any more.
LEMMA RestAtEnd ==
    ASSUME NEW bytes \in Seq(0 .. 255), NEW nameMax \in Nat, NEW w \in Turn,
           NEW at, NEW name, Resting(w, at, name), bytes[at] = 0
    PROVE  Resting(DnsLabel(w, bytes, nameMax), at, name)
<1> DEFINE v == DnsLabel(w, bytes, nameMax)
<1>1. w.at = at /\ w.name = name /\ w.jumped = FALSE
  BY DEF Resting
<1>2. v = [w EXCEPT !.stop = TRUE]
  BY <1>1 DEF DnsLabel
<1> HIDE DEF v
<1>3. v.at = w.at /\ v.name = w.name /\ v.jumped = w.jumped
  BY <1>2 DEF Turn
<1> QED BY <1>1, <1>3 DEF Resting, v

\* The loop over a complete name stops at its end and has kept all of it, or
\* as much of it as there is room for.
LEMMA WalkExact ==
    ASSUME NEW bytes \in Seq(0 .. 255), NEW nameMax \in Nat, NEW n \in Nat \ {0},
           NEW start, Marks(bytes, n, start)
    PROVE  Resting(DnsWalk(bytes, nameMax), start[n], KeptOf(start[n], nameMax))
<1> DEFINE e == Walk(bytes, nameMax)
           m == Len(bytes) + 1
           name(k) == IF k = 0 THEN 0 ELSE KeptOf(start[k], nameMax)
<1>1. /\ DnsWalk(bytes, nameMax) = e[m] /\ e[0] = DnsStart
      /\ \A k \in 0 .. m : e[k] \in Turn
      /\ \A k \in 1 .. m : e[k] = DnsLabel(e[k - 1], bytes, nameMax)
  BY WalkRun
<1>2. m \in Nat /\ Len(bytes) \in Nat /\ m = Len(bytes) + 1
  OBVIOUS
<1>3. n <= Len(bytes) /\ \A k \in 0 .. n : start[k] \in 1 .. start[n]
  BY MarksGrow, SMTT(30)
<1>4. /\ start[0] = 1 /\ start[n] <= Len(bytes) /\ bytes[start[n]] = 0
      /\ \A k \in 1 .. n : /\ bytes[start[k - 1]] \in 1 .. 191
                           /\ start[k] = start[k - 1] + 1 + bytes[start[k - 1]]
  BY DEF Marks
<1>5. start[n] \in Nat
  BY DEF Marks
<1> HIDE DEF e, m
<1> DEFINE S == {k \in 0 .. n : Passing(e[k], start[k], name(k))}
<1>6. 0 .. n \subseteq S
  <2>1. 0 \in S
    <3>1. Passing(DnsStart, 1, 0)
      BY DEF Passing, DnsStart
    <3> QED BY <1>1, <1>4, <3>1
  <2>2. ASSUME NEW k \in 0 .. n, k \in S, k < n PROVE k + 1 \in S
    <3> DEFINE at == start[k]
               label == bytes[start[k]]
    <3>1. /\ k + 1 \in 1 .. n /\ (k + 1) - 1 = k /\ k + 1 \in 1 .. m /\ k \in 0 .. m
          /\ k + 1 \in 0 .. n /\ k + 1 # 0
      BY <1>2, <1>3, <2>2
    <3>2. /\ label \in 1 .. 191 /\ start[k + 1] = at + 1 + label
      BY <1>4, <3>1
    <3>3. at \in 1 .. start[n] /\ start[k + 1] \in 1 .. start[n]
      BY <1>3, <3>1
    <3>4. Passing(e[k], at, name(k)) /\ e[k] \in Turn
      BY <1>1, <2>2, <3>1
    <3>5. e[k + 1] = DnsLabel(e[k], bytes, nameMax)
      BY <1>1, <3>1
    <3> HIDE DEF label, at
    <3>6. at \in 1 .. Len(bytes) /\ label \in Nat \ {0} /\ at + label <= Len(bytes)
      BY <1>2, <1>4, <1>5, <3>2, <3>3, SMTT(30)
    <3>7. name(k) \in Nat /\ name(k + 1) = Longer(name(k), label, nameMax)
      <4>1. CASE k = 0
        <5>1. at = 1 /\ name(k) = 0
          BY <1>4, <4>1 DEF at
        <5>2. name(k + 1) = KeptOf(2 + label, nameMax)
          BY <3>1, <3>2, <3>6, <5>1
        <5>3. name(k + 1) = Longer(0, label, nameMax)
          BY <3>6, <5>2, FirstKept, Zenon
        <5> HIDE DEF name
        <5> QED BY <5>1, <5>3
      <4>2. CASE k # 0
        <5>1. at >= 3
          <6>1. k \in 1 .. n /\ k - 1 \in 0 .. n
            BY <4>2
          <6>2. bytes[start[k - 1]] \in 1 .. 191 /\ start[k - 1] \in 1 .. start[n]
                /\ at = start[k - 1] + 1 + bytes[start[k - 1]]
            BY <1>3, <1>4, <6>1 DEF at
          <6> DEFINE a == start[k - 1]
                     l == bytes[start[k - 1]]
          <6>3. l \in 1 .. 191 /\ a \in 1 .. start[n] /\ at = a + 1 + l
            BY <6>2
          <6> HIDE DEF a, l
          <6>4. a \in Nat /\ a >= 1
            BY <1>5, <6>3
          <6> QED BY <6>3, <6>4
        <5>2. /\ name(k) = KeptOf(at, nameMax)
              /\ name(k + 1) = KeptOf(at + 1 + label, nameMax)
          BY <3>1, <3>2, <4>2 DEF at
        <5>3. KeptOf(at, nameMax) \in Nat
          BY <3>6, <5>1 DEF KeptOf
        <5>4. at \in Nat
          BY <3>6
        <5>5. Longer(KeptOf(at, nameMax), label, nameMax) = KeptOf(at + 1 + label, nameMax)
          BY <3>6, <5>1, <5>4, LongerKept
        <5> HIDE DEF name
        <5> QED BY <5>2, <5>3, <5>5
      <4> QED BY <4>1, <4>2
    <3> HIDE DEF name
    <3>8. Passing(e[k + 1], at + 1 + label, Longer(name(k), label, nameMax))
      BY <3>2, <3>4, <3>5, <3>6, <3>7, PassLabel, Zenon DEF label, at
    <3>9. Passing(e[k + 1], start[k + 1], name(k + 1))
      BY <3>2, <3>7, <3>8
    <3> QED BY <3>1, <3>9
  <2> HIDE DEF S
  <2> QED BY <2>1, <2>2, UpTo
<1> DEFINE end == KeptOf(start[n], nameMax)
<1>7. Resting(e[n], start[n], end) /\ n \in 0 .. m
  <2>1. Passing(e[n], start[n], end)
    BY <1>6
  <2> HIDE DEF end
  <2>2. n \in 0 .. m
    BY <1>2, <1>3
  <2> QED BY <2>1, <2>2 DEF Passing, Resting
<1> HIDE DEF end
<1> DEFINE T == {j \in 0 .. (m - n) : Resting(e[n + j], start[n], end)}
<1>8. m - n \in Nat
  BY <1>2, <1>7
<1>9. 0 .. (m - n) \subseteq T
  <2>1. 0 \in T
    BY <1>7, <1>8
  <2>2. ASSUME NEW k \in 0 .. (m - n), k \in T, k < m - n PROVE k + 1 \in T
    <3>1. /\ n + (k + 1) \in 1 .. m /\ (n + (k + 1)) - 1 = n + k /\ n + k \in 0 .. m
          /\ k + 1 \in 0 .. (m - n)
      BY <1>2, <1>8, <2>2
    <3>2. e[n + (k + 1)] = DnsLabel(e[n + k], bytes, nameMax) /\ e[n + k] \in Turn
      BY <1>1, <3>1
    <3>3. Resting(e[n + k], start[n], end)
      BY <2>2
    <3>4. Resting(e[n + (k + 1)], start[n], end)
      BY <1>4, <3>2, <3>3, RestAtEnd
    <3> QED BY <3>1, <3>4
  <2> HIDE DEF T
  <2> QED BY <1>8, <2>1, <2>2, UpTo, Zenon
<1>10. n + (m - n) = m /\ m - n \in 0 .. (m - n)
  BY <1>2, <1>8
<1> QED BY <1>1, <1>9, <1>10 DEF end

\* Encoded's own function
Text(labels) ==
    CHOOSE f : f = [k \in 0 .. Len(labels) |->
        IF k = 0 THEN <<>>
        ELSE f[k - 1] \o <<labels[k]>> \o [i \in 1 .. labels[k] |-> 97]]

\* One sequence behind another, and its elements.
Then(s, t) == s \o t

\* What stands where in two sequences put together.
LEMMA Behind ==
    ASSUME NEW s \in Seq(Nat), NEW t \in Seq(Nat)
    PROVE  /\ Then(s, t) \in Seq(Nat) /\ Len(Then(s, t)) = Len(s) + Len(t)
           /\ \A i \in 1 .. Len(s) : Then(s, t)[i] = s[i]
           /\ \A i \in 1 .. Len(t) : Then(s, t)[Len(s) + i] = t[i]
  BY DEF Then

\* A name with another label behind it.
Grown(s, label) == s \o <<label>> \o [i \in 1 .. label |-> 97]

\* The new length byte stands behind the name, and the name is as it was.
LEMMA GrownBy ==
    ASSUME NEW s \in Seq(Nat), NEW label \in Nat
    PROVE  /\ Grown(s, label) \in Seq(Nat)
           /\ Len(Grown(s, label)) = Len(s) + 1 + label
           /\ Grown(s, label)[Len(s) + 1] = label
           /\ \A i \in 1 .. Len(s) : Grown(s, label)[i] = s[i]
<1> DEFINE one == <<label>>
           fill == [i \in 1 .. label |-> 97]
           t == Then(s, one)
           g == Then(t, fill)
<1>1. one \in Seq(Nat) /\ Len(one) = 1 /\ one[1] = label
  OBVIOUS
<1>2. fill \in Seq(Nat) /\ Len(fill) = label
  OBVIOUS
<1>3. Grown(s, label) = g
  BY DEF Grown, Then
<1> HIDE DEF one, fill
<1>4. /\ t \in Seq(Nat) /\ Len(t) = Len(s) + Len(one)
      /\ \A i \in 1 .. Len(s) : t[i] = s[i]
      /\ \A i \in 1 .. Len(one) : t[Len(s) + i] = one[i]
  BY <1>1, Behind, Zenon
<1> HIDE DEF t
<1>5. /\ g \in Seq(Nat) /\ Len(g) = Len(t) + Len(fill)
      /\ \A i \in 1 .. Len(t) : g[i] = t[i]
  BY <1>2, <1>4, Behind, Zenon
<1> HIDE DEF g
<1>6. /\ Len(s) \in Nat /\ Len(t) = Len(s) + 1 /\ 1 \in 1 .. Len(one)
  BY <1>1, <1>4
<1>7. g[Len(s) + 1] = label /\ \A i \in 1 .. Len(s) : g[i] = s[i]
  BY <1>1, <1>4, <1>5, <1>6
<1>8. Len(g) = Len(s) + 1 + label
  BY <1>2, <1>5, <1>6
<1> QED BY <1>3, <1>5, <1>7, <1>8, Zenon

\* The encoding of a name is made label by label.
LEMMA TextRun ==
    ASSUME NEW labels \in Seq(Nat)
    PROVE  LET e == Text(labels)
               n == Len(labels)
           IN  /\ Encoded(labels) = e[n] \o <<0>>
               /\ e[0] = <<>>
               /\ \A k \in 0 .. n : e[k] \in Seq(Nat)
               /\ \A k \in 1 .. n : e[k] = Grown(e[k - 1], labels[k])
<1> DEFINE n == Len(labels)
           D == Seq(Nat)
           step == [k \in 1 .. n |-> [s \in D |-> Grown(s, labels[k])]]
           Eq(f) == f = [k \in 0 .. n |->
                    IF k = 0 THEN <<>>
                    ELSE f[k - 1] \o <<labels[k]>> \o [i \in 1 .. labels[k] |-> 97]]
<1>1. n \in Nat /\ \A k \in 1 .. n : labels[k] \in Nat
  OBVIOUS
<1>2. <<>> \in D
  OBVIOUS
<1>3. \A k \in 1 .. n : \A s \in D : Grown(s, labels[k]) \in D
  BY <1>1, GrownBy, Zenon
<1>4. /\ step \in [1 .. n -> [D -> D]]
      /\ \A k \in 1 .. n : \A s \in D : step[k][s] = Grown(s, labels[k])
  <2> HIDE DEF D, n
  <2> QED BY <1>3
<1>5. Encoded(labels) = Text(labels)[n] \o <<0>>
  BY DEF Encoded, Text
<1> HIDE DEF step, n, D
<1>6. PICK f \in Runs(n, D, <<>>, step) : TRUE
  BY <1>1, <1>2, <1>4, RunExists
<1>7. /\ f \in [0 .. n -> D] /\ f[0] = <<>>
      /\ \A k \in 1 .. n : f[k] = step[k][f[k - 1]]
  BY <1>6 DEF Runs
<1>8. ASSUME NEW k \in 1 .. n PROVE f[k] = Grown(f[k - 1], labels[k])
  <2>1. f[k - 1] \in D
    BY <1>1, <1>7
  <2> QED BY <1>4, <1>7, <2>1
<1>9. ASSUME NEW k \in 0 .. n
      PROVE  f[k] = IF k = 0 THEN <<>> ELSE Grown(f[k - 1], labels[k])
  BY <1>1, <1>7, <1>8
<1>10. Eq(f)
  <2>1. f = [k \in 0 .. n |-> IF k = 0 THEN <<>> ELSE Grown(f[k - 1], labels[k])]
    BY <1>7, <1>9
  <2> QED BY <2>1, Zenon DEF Grown
<1> DEFINE e == Text(labels)
<1>11. Eq(e)
  BY <1>10, Zenon DEF Text, n
<1>12. \A k \in 0 .. n :
          e[k] = IF k = 0 THEN <<>> ELSE Grown(e[k - 1], labels[k])
  <2> HIDE DEF e
  <2>1. e = [k \in 0 .. n |-> IF k = 0 THEN <<>> ELSE Grown(e[k - 1], labels[k])]
    BY <1>11, Zenon DEF Grown
  <2> QED BY <2>1, Zenon
<1> HIDE DEF e
<1>13. e[0] = <<>> /\ \A k \in 1 .. n : e[k] = Grown(e[k - 1], labels[k])
  BY <1>1, <1>12
<1> DEFINE S == {k \in 0 .. n : e[k] \in D}
<1>14. 0 .. n \subseteq S
  <2>1. 0 \in S
    BY <1>1, <1>2, <1>13
  <2>2. ASSUME NEW k \in 0 .. n, k \in S, k < n PROVE k + 1 \in S
    <3>1. k + 1 \in 1 .. n /\ (k + 1) - 1 = k /\ e[k] \in D
      BY <1>1, <2>2
    <3>2. e[k + 1] = Grown(e[k], labels[k + 1])
      BY <1>13, <3>1
    <3> QED BY <1>1, <1>3, <3>1, <3>2
  <2> HIDE DEF S
  <2> QED BY <1>1, <2>1, <2>2, UpTo, Zenon
<1> QED BY <1>5, <1>13, <1>14 DEF e, n, D

\* Every encoded name has its marks: where each label begins.
LEMMA EncodedMarks ==
    ASSUME NEW labels \in Seq(Nat), NEW bytes \in Seq(Nat),
           \A k \in 1 .. Len(labels) : labels[k] \in 1 .. 191,
           Len(bytes) >= Len(Encoded(labels)),
           SubSeq(bytes, 1, Len(Encoded(labels))) = Encoded(labels)
    PROVE  \E start : Marks(bytes, Len(labels), start)
                      /\ start[Len(labels)] = Len(Encoded(labels))
<1> DEFINE e == Text(labels)
           n == Len(labels)
           name == Encoded(labels)
           start == [k \in 0 .. n |-> Len(e[k]) + 1]
<1>1. /\ name = e[n] \o <<0>> /\ e[0] = <<>>
      /\ \A k \in 0 .. n : e[k] \in Seq(Nat)
      /\ \A k \in 1 .. n : e[k] = Grown(e[k - 1], labels[k])
  BY TextRun, Zenon
<1>2. n \in Nat /\ \A k \in 1 .. n : labels[k] \in 1 .. 191
  OBVIOUS
<1>3. Len(bytes) >= Len(name) /\ SubSeq(bytes, 1, Len(name)) = name
  OBVIOUS
<1> HIDE DEF e, n, name
<1>4. ASSUME NEW k \in 1 .. n
      PROVE  /\ Len(e[k]) = Len(e[k - 1]) + 1 + labels[k]
             /\ e[k][Len(e[k - 1]) + 1] = labels[k]
             /\ \A i \in 1 .. Len(e[k - 1]) : e[k][i] = e[k - 1][i]
  <2>1. k - 1 \in 0 .. n
    BY <1>2
  <2>2. e[k - 1] \in Seq(Nat) /\ labels[k] \in 1 .. 191 /\ e[k] = Grown(e[k - 1], labels[k])
    BY <1>1, <1>2, <2>1
  <2> DEFINE s == e[k - 1]
             l == labels[k]
  <2>3. l \in 1 .. 191
    BY <2>2
  <2>4. s \in Seq(Nat) /\ e[k] = Grown(s, l)
    BY <2>2
  <2> HIDE DEF s, l
  <2>5. l \in Nat
    BY <2>3
  <2>6. /\ Len(Grown(s, l)) = Len(s) + 1 + l /\ Grown(s, l)[Len(s) + 1] = l
        /\ \A i \in 1 .. Len(s) : Grown(s, l)[i] = s[i]
    BY <2>4, <2>5, GrownBy, Zenon
  <2> QED BY <2>4, <2>6, Zenon DEF s, l
<1>5. \A k \in 0 .. n : Len(e[k]) \in Nat
  BY <1>1
<1> DEFINE S == {m \in 0 .. n : \A k \in 1 .. m :
                    /\ Len(e[k - 1]) + 1 <= Len(e[m])
                    /\ e[m][Len(e[k - 1]) + 1] = labels[k]}
<1>6. 0 .. n \subseteq S
  <2>1. 0 \in S
    BY <1>2
  <2>2. ASSUME NEW m \in 0 .. n, m \in S, m < n PROVE m + 1 \in S
    <3>1. m + 1 \in 1 .. n /\ (m + 1) - 1 = m /\ m + 1 \in 0 .. n
      BY <1>2, <2>2
    <3>2. /\ Len(e[m + 1]) = Len(e[m]) + 1 + labels[m + 1]
          /\ e[m + 1][Len(e[m]) + 1] = labels[m + 1]
          /\ \A i \in 1 .. Len(e[m]) : e[m + 1][i] = e[m][i]
      BY <1>4, <3>1
    <3>3. Len(e[m]) \in Nat /\ Len(e[m + 1]) \in Nat /\ labels[m + 1] \in 1 .. 191
      BY <1>2, <1>5, <3>1
    <3>4. Len(e[m]) + 1 <= Len(e[m + 1])
      <4> DEFINE a == Len(e[m])
                 b == Len(e[m + 1])
                 l == labels[m + 1]
      <4>1. a \in Nat /\ l \in 1 .. 191 /\ b = a + 1 + l
        BY <3>2, <3>3
      <4> HIDE DEF a, b, l
      <4>2. a + 1 <= b
        BY <4>1
      <4> QED BY <4>2 DEF a, b
    <3>5. ASSUME NEW k \in 1 .. (m + 1)
          PROVE  /\ Len(e[k - 1]) + 1 <= Len(e[m + 1])
                 /\ e[m + 1][Len(e[k - 1]) + 1] = labels[k]
      <4>1. CASE k = m + 1
        BY <3>1, <3>2, <3>4, <4>1
      <4>2. CASE k \in 1 .. m
        <5>1. k - 1 \in 0 .. n /\ k - 1 \in Nat
          BY <1>2, <4>2
        <5>2. /\ Len(e[k - 1]) + 1 <= Len(e[m])
              /\ e[m][Len(e[k - 1]) + 1] = labels[k] /\ Len(e[k - 1]) \in Nat
          BY <1>5, <2>2, <4>2, <5>1
        <5>3. Len(e[k - 1]) + 1 \in 1 .. Len(e[m]) /\ Len(e[k - 1]) + 1 <= Len(e[m + 1])
          <6> DEFINE a == Len(e[m])
                     b == Len(e[m + 1])
                     c == Len(e[k - 1])
          <6>1. a \in Nat /\ b \in Nat /\ c \in Nat /\ a + 1 <= b /\ c + 1 <= a
            BY <3>3, <3>4, <5>2
          <6> HIDE DEF a, b, c
          <6>2. c + 1 \in 1 .. a /\ c + 1 <= b
            BY <6>1
          <6> QED BY <6>2 DEF a, b, c
        <5> QED BY <3>2, <5>2, <5>3, Zenon
      <4> QED BY <1>2, <4>1, <4>2
    <3> QED BY <3>1, <3>5
  <2> HIDE DEF S
  <2> QED BY <1>2, <2>1, <2>2, UpTo, Zenon
<1>7. /\ name \in Seq(Nat) /\ Len(name) = Len(e[n]) + 1 /\ name[Len(name)] = 0
      /\ \A i \in 1 .. Len(e[n]) : name[i] = e[n][i]
  <2> DEFINE s == e[n]
  <2>1. s \in Seq(Nat) /\ name = s \o <<0>>
    BY <1>1, <1>2
  <2> HIDE DEF s
  <2> QED BY <2>1 DEF s
<1>8. \A i \in 1 .. Len(name) : bytes[i] = name[i]
  <2>1. Len(name) \in Nat /\ Len(bytes) \in Nat
    BY <1>7
  <2>2. \A i \in 1 .. Len(name) : SubSeq(bytes, 1, Len(name))[i] = bytes[i]
    BY <1>3, <2>1
  <2> QED BY <1>3, <2>2
<1>9. n \in 0 .. n /\ Len(e[n]) \in Nat
  BY <1>2, <1>5
<1>10. /\ start \in [0 .. n -> Nat] /\ start[n] = Len(name) /\ start[0] = 1
       /\ \A k \in 0 .. n : start[k] = Len(e[k]) + 1
  <2>1. Len(e[0]) = 0
    BY <1>1
  <2> QED BY <1>2, <1>5, <1>7, <1>9, <2>1
<1> HIDE DEF start
<1>11. bytes[start[n]] = 0 /\ start[n] <= Len(bytes)
  <2>1. Len(name) \in 1 .. Len(name) /\ Len(name) <= Len(bytes)
    BY <1>3, <1>7, <1>9
  <2> QED BY <1>7, <1>8, <1>10, <2>1, Zenon
<1>12. ASSUME NEW k \in 1 .. n
       PROVE  /\ bytes[start[k - 1]] \in 1 .. 191
              /\ start[k] = start[k - 1] + 1 + bytes[start[k - 1]]
  <2>1. k - 1 \in 0 .. n /\ k \in 0 .. n
    BY <1>2
  <2>2. /\ Len(e[k - 1]) + 1 <= Len(e[n]) /\ e[n][Len(e[k - 1]) + 1] = labels[k]
        /\ Len(e[k - 1]) \in Nat
    BY <1>5, <1>6, <1>9, <2>1, Zenon
  <2>3. Len(e[k - 1]) + 1 \in 1 .. Len(e[n])
    BY <1>9, <2>2
  <2>4. Len(e[k - 1]) + 1 \in 1 .. Len(name)
    BY <1>7, <1>9, <2>3, SMTT(30)
  <2>5. bytes[start[k - 1]] = labels[k]
    BY <1>7, <1>8, <1>10, <2>1, <2>2, <2>3, <2>4, Zenon
  <2>6. Len(e[k]) = Len(e[k - 1]) + 1 + labels[k] /\ labels[k] \in 1 .. 191
    BY <1>2, <1>4
  <2>7. start[k] = Len(e[k]) + 1 /\ start[k - 1] = Len(e[k - 1]) + 1
    BY <1>10, <2>1
  <2>8. start[k] = start[k - 1] + 1 + labels[k]
    <3> DEFINE a == Len(e[k - 1])
               b == Len(e[k])
               l == labels[k]
    <3>1. /\ a \in Nat /\ l \in 1 .. 191 /\ b = a + 1 + l
          /\ start[k] = b + 1 /\ start[k - 1] = a + 1
      BY <2>2, <2>6, <2>7
    <3> HIDE DEF a, b, l
    <3>2. start[k] = start[k - 1] + 1 + l
      BY <3>1
    <3> QED BY <3>2 DEF l
  <2> QED BY <2>5, <2>6, <2>8
<1>13. Marks(bytes, n, start)
  BY <1>10, <1>11, <1>12 DEF Marks
<1> QED BY <1>10, <1>13, SMTT(30) DEF n, name
=============================================================================
