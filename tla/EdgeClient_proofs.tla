-------------------------- MODULE EdgeClient_proofs --------------------------
(* Proofs about the edge client, for any number of writers and any limits. *)
EXTENDS EdgeClient, FiniteSetTheorems, SequenceTheorems, TLAPS

(* What the two locked sections of flush() rely on: only a flush under way *)
(* holds events, so taking the batch overwrites nothing; and a flush whose *)
(* request was served holds stored events only.                            *)
HandInv ==
    \A g \in Goroutines :
        /\ pc[g] \notin {"post", "stored", "failed"} => hand[g] = <<>>
        /\ pc[g] = "stored" => Elements(hand[g]) \subseteq received

ConfirmedStored == acked \subseteq received

IInv == TypeOK /\ EachEventOnce /\ HandInv /\ ConfirmedStored /\ BatchBounded

-----------------------------------------------------------------------------
\* An empty batch has no events.
LEMMA ElementsEmpty == Elements(<<>>) = {} /\ Distinct(<<>>)
BY DEF Elements, Distinct

\* The events of a batch are of the type of its entries.
LEMMA ElementsTyped ==
    ASSUME NEW S, NEW s \in Seq(S)
    PROVE  Elements(s) \subseteq S
BY DEF Elements

\* Putting a batch back in front keeps the events of both parts.
LEMMA ElementsConcat ==
    ASSUME NEW S, NEW s \in Seq(S), NEW t \in Seq(S)
    PROVE  /\ s \o t \in Seq(S)
           /\ Elements(s \o t) = Elements(s) \cup Elements(t)
<1>0. /\ s \o t \in Seq(S) /\ Len(s \o t) = Len(s) + Len(t)
      /\ Len(s) \in Nat /\ Len(t) \in Nat
  OBVIOUS
<1>1. ASSUME NEW e \in Elements(s \o t)
      PROVE  e \in Elements(s) \cup Elements(t)
  <2>1. PICK i \in 1 .. Len(s \o t) : e = (s \o t)[i]
    BY <1>1 DEF Elements
  <2>2. CASE i <= Len(s)
    <3>1. i \in 1 .. Len(s) /\ e = s[i]
      BY <1>0, <2>1, <2>2
    <3> QED BY <3>1 DEF Elements
  <2>3. CASE i > Len(s)
    <3>1. i - Len(s) \in 1 .. Len(t) /\ e = t[i - Len(s)]
      BY <1>0, <2>1, <2>3
    <3> QED BY <3>1 DEF Elements
  <2> QED BY <1>0, <2>1, <2>2, <2>3
<1>2. ASSUME NEW e \in Elements(s)
      PROVE  e \in Elements(s \o t)
  <2>1. PICK i \in 1 .. Len(s) : e = s[i]
    BY <1>2 DEF Elements
  <2>2. i \in 1 .. Len(s \o t) /\ e = (s \o t)[i]
    BY <1>0, <2>1
  <2> QED BY <2>2 DEF Elements
<1>3. ASSUME NEW e \in Elements(t)
      PROVE  e \in Elements(s \o t)
  <2>1. PICK i \in 1 .. Len(t) : e = t[i]
    BY <1>3 DEF Elements
  <2>2. i + Len(s) \in 1 .. Len(s \o t) /\ e = (s \o t)[i + Len(s)]
    BY <1>0, <2>1
  <2> QED BY <2>2 DEF Elements
<1> QED BY <1>0, <1>1, <1>2, <1>3

\* Two batches without repetition and without a common event give one without repetition.
LEMMA DistinctConcat ==
    ASSUME NEW S, NEW s \in Seq(S), NEW t \in Seq(S), Distinct(s), Distinct(t),
           Elements(s) \cap Elements(t) = {}
    PROVE  Distinct(s \o t)
<1> SUFFICES ASSUME NEW i \in 1 .. Len(s \o t), NEW j \in 1 .. Len(s \o t),
                    (s \o t)[i] = (s \o t)[j]
             PROVE  i = j
  BY DEF Distinct
<1>0. /\ Len(s \o t) = Len(s) + Len(t)
      /\ Len(s) \in Nat /\ Len(t) \in Nat
  OBVIOUS
<1>1. \A k \in 1 .. Len(s \o t) :
         \/ k \in 1 .. Len(s) /\ (s \o t)[k] = s[k]
         \/ k - Len(s) \in 1 .. Len(t) /\ (s \o t)[k] = t[k - Len(s)]
  BY <1>0
<1>2. \A k \in 1 .. Len(s), l \in 1 .. Len(t) : s[k] # t[l]
  BY DEF Elements
<1>3. CASE i \in 1 .. Len(s) /\ j \in 1 .. Len(s)
  BY <1>0, <1>3 DEF Distinct
<1>4. CASE i - Len(s) \in 1 .. Len(t) /\ j - Len(s) \in 1 .. Len(t)
  <2>1. t[i - Len(s)] = t[j - Len(s)]
    BY <1>0, <1>1, <1>4
  <2>2. i - Len(s) = j - Len(s)
    BY <1>4, <2>1 DEF Distinct
  <2> QED BY <1>0, <2>2
<1> QED BY <1>0, <1>1, <1>2, <1>3, <1>4

\* Cutting a batch at the cap keeps a part of its events, without repetition.
LEMMA ElementsPrefix ==
    ASSUME NEW S, NEW s \in Seq(S), Distinct(s), NEW n \in 0 .. Len(s)
    PROVE  LET p == SubSeq(s, 1, n)
               c == {s[i] : i \in n + 1 .. Len(s)}
           IN /\ p \in Seq(S) /\ Len(p) = n /\ Distinct(p)
              /\ Elements(p) \cup c = Elements(s)
              /\ Elements(p) \cap c = {}
<1> DEFINE p == SubSeq(s, 1, n)
           c == {s[i] : i \in n + 1 .. Len(s)}
<1>1. /\ p \in Seq(S) /\ Len(p) = n /\ Len(s) \in Nat
      /\ \A i \in 1 .. n : p[i] = s[i]
  BY SubSeqProperties
<1> HIDE DEF p
<1>2. Distinct(p)
  BY <1>1 DEF Distinct
<1>3. Elements(p) = {s[i] : i \in 1 .. n}
  BY <1>1 DEF Elements
<1>4. Elements(p) \cup c = Elements(s)
  BY <1>1, <1>3 DEF Elements
<1>5. Elements(p) \cap c = {}
  BY <1>1, <1>3 DEF Distinct
<1> QED BY <1>1, <1>2, <1>4, <1>5 DEF p

\* The newly numbered events of a write are distinct and were nowhere before.
LEMMA ElementsFresh ==
    ASSUME NEW a \in Nat, NEW n \in Nat
    PROVE  LET f == [i \in 1 .. n |-> a + i]
           IN /\ f \in Seq(1 .. (a + n)) /\ Len(f) = n
              /\ Elements(f) = (a + 1) .. (a + n)
              /\ Distinct(f)
<1> DEFINE f == [i \in 1 .. n |-> a + i]
<1>1. f \in Seq(1 .. (a + n)) /\ Len(f) = n
  OBVIOUS
<1>2. \A i \in 1 .. n : f[i] = a + i
  OBVIOUS
<1> HIDE DEF f
<1>3. Distinct(f)
  BY <1>1, <1>2 DEF Distinct
<1>4. Elements(f) = (a + 1) .. (a + n)
  <2>1. \A e \in (a + 1) .. (a + n) : e - a \in 1 .. n /\ f[e - a] = e
    BY <1>2
  <2>2. \A i \in 1 .. n : f[i] \in (a + 1) .. (a + n)
    BY <1>2
  <2> QED BY <1>1, <2>1, <2>2 DEF Elements
<1> QED BY <1>1, <1>3, <1>4 DEF f

\* A sequence over a set is one over every larger set.
LEMMA SeqWiden ==
    ASSUME NEW a \in Nat, NEW b \in Nat, a <= b
    PROVE  Seq(1 .. a) \subseteq Seq(1 .. b)
<1>1. 1 .. a \subseteq 1 .. b
  OBVIOUS
<1>2. ASSUME NEW s \in Seq(1 .. a) PROVE s \in Seq(1 .. b)
  <2>1. Len(s) \in Nat /\ s \in [1 .. Len(s) -> 1 .. a]
    OBVIOUS
  <2>2. s \in [1 .. Len(s) -> 1 .. b]
    BY <1>1, <2>1
  <2> QED BY <2>1, <2>2
<1> QED BY <1>2

-----------------------------------------------------------------------------
(* The events in the hands of the other goroutines.                        *)
Others(g) == UNION {Elements(hand[h]) : h \in Goroutines \ {g}}

(* One goroutine changing what it holds, seen from the rest: the six       *)
(* conjuncts of EachEventOnce reduce to facts about sets.                  *)
LEMMA HandChange ==
    ASSUME TypeOK, EachEventOnce, NEW g \in Goroutines, NEW x,
           hand' = [hand EXCEPT ![g] = x], Distinct(x), Distinct(batch'),
           Elements(x) \cap Others(g) = {},
           Elements(batch') \cap (Elements(x) \cup Others(g)) = {},
           acked' \cap dropped' = {},
           (acked' \cup dropped') \cap (Elements(batch') \cup Elements(x) \cup Others(g)) = {},
           Elements(batch') \cup Elements(x) \cup Others(g) \cup acked' \cup dropped'
              = 1 .. accepted'
    PROVE  EachEventOnce'
<1>1. \A h \in Goroutines : hand'[h] = IF h = g THEN x ELSE hand[h]
  BY DEF TypeOK
<1>2. InHand' = Elements(x) \cup Others(g)
  BY <1>1 DEF InHand, Others
<1>3. \A h \in Goroutines : Distinct(hand'[h])
  BY <1>1 DEF EachEventOnce
<1>4. \A a, b \in Goroutines :
         a # b => Elements(hand'[a]) \cap Elements(hand'[b]) = {}
  <2> SUFFICES ASSUME NEW a \in Goroutines, NEW b \in Goroutines, a # b
               PROVE  Elements(hand'[a]) \cap Elements(hand'[b]) = {}
    OBVIOUS
  <2>1. CASE a # g /\ b # g
    BY <1>1, <2>1 DEF EachEventOnce
  <2>2. CASE a = g
    <3>1. Elements(hand[b]) \subseteq Others(g)
      BY <2>2 DEF Others
    <3> QED BY <1>1, <2>2, <3>1
  <2>3. CASE b = g
    <3>1. Elements(hand[a]) \subseteq Others(g)
      BY <2>3 DEF Others
    <3> QED BY <1>1, <2>3, <3>1
  <2> QED BY <2>1, <2>2, <2>3
<1> QED BY <1>2, <1>3, <1>4 DEF EachEventOnce, Held

(* What EachEventOnce says of one goroutine and the rest.                  *)
LEMMA OnceSplit ==
    ASSUME EachEventOnce, NEW g \in Goroutines
    PROVE  /\ InHand = Elements(hand[g]) \cup Others(g)
           /\ Elements(hand[g]) \cap Others(g) = {}
           /\ Elements(batch) \cap (Elements(hand[g]) \cup Others(g)) = {}
           /\ (acked \cup dropped)
                \cap (Elements(batch) \cup Elements(hand[g]) \cup Others(g)) = {}
           /\ Elements(batch) \cup Elements(hand[g]) \cup Others(g) \cup acked \cup dropped
                = 1 .. accepted
<1>1. InHand = Elements(hand[g]) \cup Others(g)
  BY DEF InHand, Others
<1>2. Elements(hand[g]) \cap Others(g) = {}
  BY DEF EachEventOnce, Others
<1> QED BY <1>1, <1>2 DEF EachEventOnce, Held

Flushing == {w \in Writers : pc[w] = "flush"}

\* Finitely many writers are about to flush.
LEMMA FlushingFinite ==
    IsFiniteSet(Flushing) /\ Cardinality(Flushing) \in Nat
BY EdgeClientAssumption, FS_Subset, FS_CardinalityType DEF Flushing

\* A batch within the cap satisfies the bound.
LEMMA WithinCap ==
    ASSUME Len(batch') <= Cap, Len(batch') \in Nat
    PROVE  BatchBounded'
<1>1. Cardinality(Flushing') \in Nat
  BY EdgeClientAssumption, FS_Subset, FS_CardinalityType DEF Flushing
<1>2. MaxGroup * Cardinality(Flushing') \in Nat
  BY <1>1, EdgeClientAssumption
<1> QED BY <1>2, EdgeClientAssumption DEF BatchBounded, Flushing

\* The bound depends on the batch and on the writers about to flush only.
LEMMA SameWaiting ==
    ASSUME BatchBounded, batch' = batch, Flushing' = Flushing
    PROVE  BatchBounded'
BY DEF BatchBounded, Flushing

\* NewEdgeClient establishes the invariant.
LEMMA InitIInv == Init => IInv
<1> SUFFICES ASSUME Init PROVE IInv
  OBVIOUS
<1>1. TypeOK
  BY EdgeClientAssumption DEF Init, TypeOK
<1>2. EachEventOnce
  <2>1. Elements(batch) = {} /\ \A g \in Goroutines : Elements(hand[g]) = {}
    BY ElementsEmpty DEF Init
  <2>2. InHand = {}
    BY <2>1 DEF InHand
  <2>3. Distinct(batch) /\ \A g \in Goroutines : Distinct(hand[g])
    BY ElementsEmpty DEF Init
  <2>4. 1 .. accepted = {}
    BY DEF Init
  <2> QED BY <2>1, <2>2, <2>3, <2>4 DEF Init, EachEventOnce, Held
<1>3. HandInv /\ ConfirmedStored
  BY DEF Init, HandInv, ConfirmedStored
<1>4. BatchBounded
  <2>1. Len(batch) = 0
    BY DEF Init
  <2>2. MaxGroup * Cardinality(Flushing) \in Nat
    BY FlushingFinite, EdgeClientAssumption
  <2> QED BY <2>1, <2>2, EdgeClientAssumption DEF BatchBounded, Flushing
<1> QED BY <1>1, <1>2, <1>3, <1>4 DEF IInv

\* WriteEvent and WriteBatch keep the invariant.
LEMMA AppendStep ==
    ASSUME IInv, NEW w \in Writers, NEW n \in 1 .. MaxGroup, AppendLocked(w, n)
    PROVE  IInv'
<1> USE EdgeClientAssumption
<1> DEFINE f == [i \in 1 .. n |-> accepted + i]
<1>0. /\ TypeOK /\ EachEventOnce /\ HandInv /\ ConfirmedStored /\ BatchBounded
      /\ w \in Goroutines /\ pc[w] = "idle"
      /\ accepted' = accepted + n /\ accepted \in Nat /\ n \in Nat
      /\ accepted' \in 0 .. Limit /\ accepted' \in Nat
  BY DEF IInv, AppendLocked, TypeOK, Goroutines
<1>1. /\ f \in Seq(1 .. accepted') /\ Len(f) = n
      /\ Elements(f) = (accepted + 1) .. accepted' /\ Distinct(f)
  BY <1>0, ElementsFresh
<1>2. batch' = batch \o f
  BY DEF AppendLocked
<1> HIDE DEF f
<1>3. batch \in Seq(1 .. accepted') /\ \A g \in Goroutines : hand[g] \in Seq(1 .. accepted')
  <2>1. Seq(1 .. accepted) \subseteq Seq(1 .. accepted')
    BY <1>0, SeqWiden
  <2> QED BY <1>0, <2>1 DEF TypeOK
<1>4. /\ batch' \in Seq(1 .. accepted')
      /\ Elements(batch') = Elements(batch) \cup Elements(f)
  <2> DEFINE S == 1 .. accepted'
  <2>1. f \in Seq(S) /\ batch \in Seq(S)
    BY <1>1, <1>3
  <2> HIDE DEF S
  <2>2. batch \o f \in Seq(S) /\ Elements(batch \o f) = Elements(batch) \cup Elements(f)
    BY <2>1, ElementsConcat
  <2> QED BY <1>2, <2>2 DEF S
<1>5. UNCHANGED <<hand, received, acked, dropped, server, stage>>
  BY DEF AppendLocked
<1>6. TypeOK'
  <2>1. pc' \in [Goroutines -> {"idle", "flush", "post", "stored", "failed", "done"}]
    BY <1>0 DEF AppendLocked, TypeOK
  <2>2. hand' \in [Goroutines -> Seq(1 .. accepted')]
    BY <1>0, <1>3, <1>5 DEF TypeOK
  <2>3. 1 .. accepted \subseteq 1 .. accepted'
    BY <1>0
  <2>4. /\ received' \subseteq 1 .. accepted' /\ acked' \subseteq 1 .. accepted'
        /\ dropped' \subseteq 1 .. accepted'
    BY <1>0, <1>5, <2>3 DEF TypeOK
  <2> QED BY <1>0, <1>4, <1>5, <2>1, <2>2, <2>4 DEF TypeOK
<1>7. EachEventOnce'
  <2>1. Elements(f) \cap (1 .. accepted) = {} /\ (1 .. accepted) \cup Elements(f) = 1 .. accepted'
    BY <1>0, <1>1
  <2>2. Elements(batch) \subseteq 1 .. accepted
    BY <1>0, ElementsTyped DEF TypeOK
  <2>3. Distinct(batch')
    <3>1. Elements(batch) \cap Elements(f) = {}
      BY <2>1, <2>2
    <3> QED BY <1>0, <1>1, <1>2, <1>3, <3>1, DistinctConcat DEF EachEventOnce
  <2>4. InHand' = InHand /\ InHand \subseteq 1 .. accepted
    BY <1>0, <1>5 DEF InHand, EachEventOnce
  <2>5. acked \subseteq 1 .. accepted /\ dropped \subseteq 1 .. accepted
    BY <1>0 DEF TypeOK
  <2>6. \A g \in Goroutines : hand'[g] = hand[g]
    BY <1>5
  <2> QED BY <1>0, <1>4, <1>5, <2>1, <2>2, <2>3, <2>4, <2>5, <2>6 DEF EachEventOnce, Held
<1>8. HandInv' /\ ConfirmedStored'
  <2>1. \A g \in Goroutines : pc'[g] = pc[g] \/ (g = w /\ pc'[g] \in {"idle", "flush"})
    BY <1>0 DEF AppendLocked, TypeOK
  <2>2. pc[w] \notin {"post", "stored", "failed"}
    BY <1>0
  <2> QED BY <1>0, <1>5, <2>1, <2>2 DEF HandInv, ConfirmedStored
<1>9. BatchBounded'
  <2>1. Len(batch') = Len(batch) + n /\ Len(batch) \in Nat /\ Len(batch') \in Nat
    <3> DEFINE S == 1 .. accepted'
    <3>1. f \in Seq(S) /\ batch \in Seq(S)
      BY <1>1, <1>3
    <3> HIDE DEF S
    <3>2. Len(batch \o f) = Len(batch) + Len(f) /\ Len(batch) \in Nat
      BY <3>1
    <3> QED BY <1>0, <1>1, <1>2, <3>2
  <2>2. CASE Len(batch') >= Threshold
    <3>1. Flushing' = Flushing \cup {w}
      BY <1>0, <2>2 DEF AppendLocked, Flushing, TypeOK
    <3>2. w \notin Flushing
      BY <1>0 DEF Flushing
    <3>3. Cardinality(Flushing') = Cardinality(Flushing) + 1
      BY <3>1, <3>2, FlushingFinite, FS_AddElement
    <3> DEFINE c == Cardinality(Flushing)
    <3>4. c \in Nat /\ Len(batch) <= Cap + MaxGroup * c
      BY <1>0, FlushingFinite DEF BatchBounded, Flushing
    <3> HIDE DEF c
    <3>5. MaxGroup * (c + 1) = MaxGroup * c + MaxGroup /\ MaxGroup * c \in Nat
      BY <3>4
    <3>6. Len(batch') <= Cap + MaxGroup * (c + 1)
      BY <2>1, <3>4, <3>5
    <3> QED BY <3>3, <3>6 DEF BatchBounded, Flushing, c
  <2>3. CASE ~(Len(batch') >= Threshold)
    BY <2>1, <2>3, WithinCap
  <2> QED BY <2>2, <2>3
<1> QED BY <1>6, <1>7, <1>8, <1>9 DEF IInv

\* The first locked section of flush() keeps the invariant.
LEMMA TakeStep ==
    ASSUME IInv, NEW g \in Goroutines, Take(g)
    PROVE  IInv'
<1> USE EdgeClientAssumption
<1>0. /\ TypeOK /\ EachEventOnce /\ HandInv /\ ConfirmedStored
      /\ pc[g] = "flush" /\ hand[g] = <<>>
  BY DEF IInv, Take, HandInv
<1>1. /\ hand' = [hand EXCEPT ![g] = batch] /\ batch' = <<>>
      /\ UNCHANGED <<accepted, received, acked, dropped, server, stage>>
  BY DEF Take
<1>2. TypeOK'
  BY <1>0, <1>1 DEF TypeOK, Take
<1>3. EachEventOnce'
  <2>1. Elements(hand[g]) = {} /\ Elements(batch') = {} /\ Distinct(batch')
    BY <1>0, <1>1, ElementsEmpty
  <2>2. Distinct(batch) /\ acked' \cap dropped' = {}
    BY <1>0, <1>1 DEF EachEventOnce
  <2>3. /\ Elements(batch) \cap Others(g) = {}
        /\ (acked \cup dropped) \cap (Elements(batch) \cup Others(g)) = {}
        /\ Elements(batch) \cup Others(g) \cup acked \cup dropped = 1 .. accepted
    BY <1>0, <2>1, OnceSplit
  <2> QED BY <1>0, <1>1, <2>1, <2>2, <2>3, HandChange
<1>4. HandInv' /\ ConfirmedStored'
  <2>1. \A h \in Goroutines : h # g => pc'[h] = pc[h] /\ hand'[h] = hand[h]
    BY <1>0 DEF Take, TypeOK
  <2>2. /\ pc'[g] = (IF batch = <<>> THEN "idle" ELSE "post")
        /\ hand'[g] = batch
    BY <1>0 DEF Take, TypeOK
  <2> QED BY <1>0, <1>1, <2>1, <2>2 DEF HandInv, ConfirmedStored
<1>5. BatchBounded'
  <2>1. Len(batch') = 0
    BY <1>1
  <2> QED BY <2>1, WithinCap
<1> QED BY <1>2, <1>3, <1>4, <1>5 DEF IInv

\* The server storing a posted batch keeps the invariant.
LEMMA StoreStep ==
    ASSUME IInv, NEW g \in Goroutines, Store(g)
    PROVE  IInv'
<1>0. /\ TypeOK /\ EachEventOnce /\ HandInv /\ ConfirmedStored /\ BatchBounded
      /\ pc[g] = "post" /\ pc' = [pc EXCEPT ![g] = "stored"]
      /\ received' = received \cup Elements(hand[g])
      /\ UNCHANGED <<batch, hand, accepted, acked, dropped, server, stage>>
  BY DEF IInv, Store
<1>1. TypeOK'
  <2>1. Elements(hand[g]) \subseteq 1 .. accepted
    BY <1>0, ElementsTyped DEF TypeOK
  <2> QED BY <1>0, <2>1 DEF TypeOK
<1>2. EachEventOnce'
  BY <1>0 DEF EachEventOnce, InHand, Held
<1>3. HandInv' /\ ConfirmedStored'
  BY <1>0 DEF HandInv, ConfirmedStored, TypeOK
<1>4. BatchBounded'
  <2>1. Flushing' = Flushing
    BY <1>0 DEF Flushing, TypeOK
  <2> QED BY <1>0, <2>1, SameWaiting
<1> QED BY <1>1, <1>2, <1>3, <1>4 DEF IInv

\* An answer 200 keeps the invariant.
LEMMA AnsweredStep ==
    ASSUME IInv, NEW g \in Goroutines, Answered(g)
    PROVE  IInv'
<1>0. /\ TypeOK /\ EachEventOnce /\ HandInv /\ ConfirmedStored /\ BatchBounded
      /\ pc[g] = "stored" /\ pc' = [pc EXCEPT ![g] = "idle"]
      /\ hand' = [hand EXCEPT ![g] = <<>>]
      /\ acked' = acked \cup Elements(hand[g])
      /\ UNCHANGED <<batch, accepted, received, dropped, server, stage>>
  BY DEF IInv, Answered
<1>1. TypeOK'
  <2>1. Elements(hand[g]) \subseteq 1 .. accepted
    BY <1>0, ElementsTyped DEF TypeOK
  <2>2. hand' \in [Goroutines -> Seq(1 .. accepted)]
    BY <1>0 DEF TypeOK
  <2> QED BY <1>0, <2>1, <2>2 DEF TypeOK
<1>2. EachEventOnce'
  <2>1. Elements(<<>>) = {} /\ Distinct(<<>>)
    BY ElementsEmpty
  <2>2. Distinct(batch') /\ acked \cap dropped = {}
    BY <1>0 DEF EachEventOnce
  <2>3. /\ Elements(hand[g]) \cap Others(g) = {}
        /\ Elements(batch) \cap (Elements(hand[g]) \cup Others(g)) = {}
        /\ (acked \cup dropped)
              \cap (Elements(batch) \cup Elements(hand[g]) \cup Others(g)) = {}
        /\ Elements(batch) \cup Elements(hand[g]) \cup Others(g) \cup acked \cup dropped
              = 1 .. accepted
    BY <1>0, OnceSplit
  <2>4. /\ Elements(batch') = Elements(batch)
        /\ acked' \cap dropped' = {}
        /\ Elements(batch) \cap Others(g) = {}
        /\ (acked' \cup dropped') \cap (Elements(batch) \cup Others(g)) = {}
        /\ Elements(batch) \cup Others(g) \cup acked' \cup dropped' = 1 .. accepted'
    BY <1>0, <2>2, <2>3
  <2> QED BY <1>0, <2>1, <2>2, <2>4, HandChange
<1>3. HandInv' /\ ConfirmedStored'
  BY <1>0 DEF HandInv, ConfirmedStored, TypeOK
<1>4. BatchBounded'
  <2>1. Flushing' = Flushing
    BY <1>0 DEF Flushing, TypeOK
  <2> QED BY <1>0, <2>1, SameWaiting
<1> QED BY <1>1, <1>2, <1>3, <1>4 DEF IInv

\* The put-back with its cut at the cap keeps the invariant.
LEMMA PutBackStep ==
    ASSUME IInv, NEW g \in Goroutines, PutBack(g)
    PROVE  IInv'
<1> USE EdgeClientAssumption
<1> DEFINE S == 1 .. accepted
           all == hand[g] \o batch
           n == IF Len(all) > Cap THEN Cap ELSE Len(all)
           cut == {all[i] : i \in n + 1 .. Len(all)}
<1>0. /\ TypeOK /\ EachEventOnce /\ HandInv /\ ConfirmedStored
      /\ pc[g] = "failed" /\ pc' = [pc EXCEPT ![g] = "idle"]
      /\ hand' = [hand EXCEPT ![g] = <<>>]
      /\ batch' = SubSeq(all, 1, n)
      /\ dropped' = dropped \cup cut
      /\ UNCHANGED <<accepted, received, acked, server, stage>>
  BY DEF IInv, PutBack
<1>1. hand[g] \in Seq(S) /\ batch \in Seq(S)
  BY <1>0 DEF TypeOK
<1>2. /\ Elements(hand[g]) \cap Others(g) = {}
      /\ Elements(batch) \cap (Elements(hand[g]) \cup Others(g)) = {}
      /\ (acked \cup dropped)
            \cap (Elements(batch) \cup Elements(hand[g]) \cup Others(g)) = {}
      /\ Elements(batch) \cup Elements(hand[g]) \cup Others(g) \cup acked \cup dropped
            = 1 .. accepted
  BY <1>0, OnceSplit
<1>3. Distinct(batch) /\ Distinct(hand[g]) /\ acked \cap dropped = {}
  BY <1>0 DEF EachEventOnce
<1> HIDE DEF S
<1>4. /\ all \in Seq(S) /\ Elements(all) = Elements(hand[g]) \cup Elements(batch)
      /\ Distinct(all)
  BY <1>1, <1>2, <1>3, ElementsConcat, DistinctConcat
<1> HIDE DEF all
<1>5. Len(all) \in Nat /\ n \in 0 .. Len(all) /\ n <= Cap
  BY <1>4
<1> HIDE DEF n
<1>6. /\ batch' \in Seq(S) /\ Len(batch') = n /\ Distinct(batch')
      /\ Elements(batch') \cup cut = Elements(all)
      /\ Elements(batch') \cap cut = {}
  BY <1>0, <1>4, <1>5, ElementsPrefix
<1> HIDE DEF cut
<1>7. TypeOK'
  <2>1. Elements(all) \subseteq S
    BY <1>4, ElementsTyped
  <2>2. dropped' \subseteq 1 .. accepted'
    BY <1>0, <1>6, <2>1 DEF TypeOK, S
  <2>3. hand' \in [Goroutines -> Seq(1 .. accepted)]
    BY <1>0 DEF TypeOK
  <2> QED BY <1>0, <1>6, <2>2, <2>3 DEF TypeOK, S
<1>8. EachEventOnce'
  <2>1. Elements(<<>>) = {} /\ Distinct(<<>>)
    BY ElementsEmpty
  <2>2. /\ acked' \cap dropped' = {}
        /\ Elements(batch') \cap Others(g) = {}
        /\ (acked' \cup dropped') \cap (Elements(batch') \cup Others(g)) = {}
        /\ Elements(batch') \cup Others(g) \cup acked' \cup dropped' = 1 .. accepted'
    BY <1>0, <1>2, <1>3, <1>4, <1>6
  <2> QED BY <1>0, <1>6, <2>1, <2>2, HandChange
<1>9. HandInv' /\ ConfirmedStored'
  BY <1>0 DEF HandInv, ConfirmedStored, TypeOK
<1>10. BatchBounded'
  BY <1>5, <1>6, WithinCap
<1> QED BY <1>7, <1>8, <1>9, <1>10 DEF IInv

(* Steps that move one goroutine or the environment and touch no event.    *)
Quiet == UNCHANGED <<batch, hand, accepted, received, acked, dropped>>

\* Steps that move no event keep the invariant.
LEMMA QuietStep ==
    ASSUME IInv, Quiet, server' \in {"up", "down"},
           stage' \in {"run", "flush", "close", "exit"},
           pc' \in [Goroutines -> {"idle", "flush", "post", "stored", "failed", "done"}],
           \A g \in Goroutines :
              /\ pc'[g] \notin {"post", "stored", "failed"} =>
                    pc[g] \notin {"post", "stored", "failed"}
              /\ pc'[g] = "stored" => pc[g] = "stored",
           Flushing' = Flushing
    PROVE  IInv'
<1>1. TypeOK'
  BY DEF IInv, Quiet, TypeOK
<1>2. EachEventOnce'
  BY DEF IInv, Quiet, EachEventOnce, InHand, Held
<1>3. HandInv' /\ ConfirmedStored'
  BY DEF IInv, Quiet, HandInv, ConfirmedStored
<1>4. BatchBounded'
  BY SameWaiting DEF IInv, Quiet
<1> QED BY <1>1, <1>2, <1>3, <1>4 DEF IInv

(* The goroutine that goes to sleep, wakes or fails in a quiet step.       *)
LEMMA QuietMove ==
    ASSUME IInv, NEW g \in Goroutines, Quiet,
           server' \in {"up", "down"}, stage' \in {"run", "flush", "close", "exit"},
           NEW to \in {"idle", "flush", "failed", "done"},
           pc' = [pc EXCEPT ![g] = to],
           \/ pc[g] = "idle" /\ g \notin Writers
           \/ pc[g] \in {"post", "stored"} /\ to = "failed"
    PROVE  IInv'
<1>1. pc \in [Goroutines -> {"idle", "flush", "post", "stored", "failed", "done"}]
  BY DEF IInv, TypeOK
<1>2. pc' \in [Goroutines -> {"idle", "flush", "post", "stored", "failed", "done"}]
  BY <1>1
<1>3. \A h \in Goroutines : /\ pc'[h] \notin {"post", "stored", "failed"} =>
                                  pc[h] \notin {"post", "stored", "failed"}
                            /\ pc'[h] = "stored" => pc[h] = "stored"
  BY <1>1
<1>4. Flushing' = Flushing
  BY <1>1 DEF Flushing, Goroutines
<1> QED BY <1>2, <1>3, <1>4, QuietStep

\* Every step of the client keeps the invariant.
LEMMA NextIInv == IInv /\ [Next]_vars => IInv'
<1> SUFFICES ASSUME IInv, [Next]_vars PROVE IInv'
  OBVIOUS
<1>0. /\ server \in {"up", "down"} /\ stage \in {"run", "flush", "close", "exit"}
      /\ pc \in [Goroutines -> {"idle", "flush", "post", "stored", "failed", "done"}]
      /\ Loop \in Goroutines /\ Main \in Goroutines
      /\ Loop \notin Writers /\ Main \notin Writers
  BY EdgeClientAssumption DEF IInv, TypeOK, Goroutines
<1>1. ASSUME NEW w \in Writers, WriteEvent(w) \/ WriteBatch(w) PROVE IInv'
  BY <1>1, AppendStep, EdgeClientAssumption DEF WriteEvent, WriteBatch
<1>2. CASE LoopTick
  BY <1>0, <1>2, QuietMove DEF LoopTick, Quiet
<1>3. CASE LoopStop
  BY <1>0, <1>3, QuietMove DEF LoopStop, Quiet
<1>4. ASSUME NEW g \in Goroutines, FlushStep(g) PROVE IInv'
  <2>1. CASE Failed(g)
    BY <1>0, <2>1, QuietMove DEF Failed, Quiet
  <2> QED BY <1>4, <2>1, TakeStep, StoreStep, AnsweredStep, PutBackStep DEF FlushStep
<1>5. CASE MainStep
  <2>1. stage' \in {"run", "flush", "close", "exit"}
    BY <1>0, <1>5 DEF MainStep, Alive
  <2>2. PICK to \in {"done", "flush"} : pc' = [pc EXCEPT ![Main] = to]
    BY <1>5 DEF MainStep
  <2> QED BY <1>0, <1>5, <2>1, <2>2, QuietMove DEF MainStep, Quiet
<1>6. CASE ServerDown \/ ServerUp \/ UNCHANGED vars
  <2>1. Quiet /\ pc' = pc /\ server' \in {"up", "down"} /\ stage' = stage
    BY <1>0, <1>6 DEF ServerDown, ServerUp, vars, Quiet
  <2>2. Flushing' = Flushing
    BY <2>1 DEF Flushing
  <2> QED BY <1>0, <2>1, <2>2, QuietStep
<1> QED BY <1>1, <1>2, <1>3, <1>4, <1>5, <1>6 DEF Next

\* The inductive invariant holds in every reachable state of the client.
THEOREM InvariantHolds == Spec => []IInv
BY InitIInv, NextIInv, PTL DEF Spec

(* Every variable of the edge client keeps its type.                       *)
THEOREM TypeCorrect == Spec => []TypeOK
<1>1. IInv => TypeOK
  BY DEF IInv
<1> QED BY <1>1, InvariantHolds, PTL

(* However writers, the ticker and main interleave between the locked      *)
(* sections of flush(), no event is lost, doubled or sent again after 200. *)
THEOREM NoLossNoDoubling == Spec => []EachEventOnce
<1>1. IInv => EachEventOnce
  BY DEF IInv
<1> QED BY <1>1, InvariantHolds, PTL

(* The batch stays within the cap plus one group per waiting writer.       *)
THEOREM BatchIsBounded == Spec => []BatchBounded
<1>1. IInv => BatchBounded
  BY DEF IInv
<1> QED BY <1>1, InvariantHolds, PTL

-----------------------------------------------------------------------------
(* How the held events change when one goroutine's hand and the batch do.  *)
LEMMA HeldChange ==
    ASSUME TypeOK, NEW g \in Goroutines, NEW x, hand' = [hand EXCEPT ![g] = x]
    PROVE  /\ Held = Elements(batch) \cup Elements(hand[g]) \cup Others(g)
           /\ Held' = Elements(batch') \cup Elements(x) \cup Others(g)
<1>1. \A h \in Goroutines : hand'[h] = IF h = g THEN x ELSE hand[h]
  BY DEF TypeOK
<1>2. InHand' = Elements(x) \cup Others(g)
  BY <1>1 DEF InHand, Others
<1>3. InHand = Elements(hand[g]) \cup Others(g)
  BY DEF InHand, Others
<1> QED BY <1>2, <1>3 DEF Held

\* A write is an Accept of the outbox.
LEMMA AppendRefines ==
    ASSUME IInv, NEW w \in Writers, NEW n \in 1 .. MaxGroup, AppendLocked(w, n)
    PROVE  Box!Next
<1> USE EdgeClientAssumption
<1> DEFINE f == [i \in 1 .. n |-> accepted + i]
<1>1. /\ accepted' = accepted + n /\ accepted \in Nat /\ n \in Nat /\ n >= 1
      /\ accepted + n <= Limit /\ batch' = batch \o f
      /\ UNCHANGED <<hand, received, acked, stage>> /\ Alive
  BY DEF IInv, AppendLocked, TypeOK
<1>2. f \in Seq(1 .. accepted') /\ Elements(f) = (accepted + 1) .. (accepted + n)
  BY <1>1, ElementsFresh
<1> HIDE DEF f
<1>3. Elements(batch') = Elements(batch) \cup Elements(f)
  <2> DEFINE S == 1 .. accepted'
  <2>1. f \in Seq(S) /\ batch \in Seq(S)
    BY <1>1, <1>2, SeqWiden DEF IInv, TypeOK
  <2> HIDE DEF S
  <2> QED BY <1>1, <2>1, ElementsConcat
<1>4. Held' = Held \cup (accepted + 1) .. (accepted + n)
  BY <1>1, <1>2, <1>3 DEF Held, InHand
<1>5. Box!Accept(n)
  BY <1>1, <1>4 DEF Box!Accept, Alive
<1>6. n \in 1 .. Limit
  BY <1>1
<1> QED BY <1>5, <1>6 DEF Box!Next

\* A post the server stores is a Store of the outbox.
LEMMA StoreRefines ==
    ASSUME IInv, NEW g \in Goroutines, Store(g)
    PROVE  Box!Next \/ UNCHANGED Box!vars
<1> DEFINE S == Elements(hand[g])
<1>1. /\ received' = received \cup S
      /\ UNCHANGED <<batch, hand, accepted, acked, stage>> /\ Alive
  BY DEF Store
<1>2. Held' = Held /\ Alive' = Alive /\ S \in SUBSET Held
  BY <1>1 DEF Held, InHand, Alive
<1>3. CASE S = {}
  BY <1>1, <1>2, <1>3 DEF Box!vars
<1>4. CASE S # {}
  <2>1. Box!Store(S)
    BY <1>1, <1>2, <1>4 DEF Box!Store
  <2> QED BY <1>2, <2>1 DEF Box!Next
<1> QED BY <1>3, <1>4

\* An answer 200 is a Confirm of the outbox.
LEMMA AnsweredRefines ==
    ASSUME IInv, NEW g \in Goroutines, Answered(g)
    PROVE  Box!Next \/ UNCHANGED Box!vars
<1> DEFINE S == Elements(hand[g])
<1>1. /\ acked' = acked \cup S /\ hand' = [hand EXCEPT ![g] = <<>>]
      /\ UNCHANGED <<batch, accepted, received, stage>> /\ Alive
      /\ S \subseteq received
  BY DEF IInv, Answered, HandInv
<1>2. /\ S \cap Others(g) = {} /\ Elements(batch) \cap S = {}
  BY OnceSplit DEF IInv
<1>3. /\ Held = Elements(batch) \cup S \cup Others(g)
      /\ Held' = Elements(batch) \cup Others(g)
  BY <1>1, HeldChange, ElementsEmpty DEF IInv
<1>4. Held' = Held \ S /\ S \in SUBSET Held /\ Alive' = Alive
  BY <1>1, <1>2, <1>3 DEF Alive
<1>5. CASE S = {}
  BY <1>1, <1>4, <1>5 DEF Box!vars
<1>6. CASE S # {}
  <2>1. Box!Confirm(S)
    BY <1>1, <1>4, <1>6 DEF Box!Confirm
  <2> QED BY <1>4, <2>1 DEF Box!Next
<1> QED BY <1>5, <1>6

\* A put-back is a Drop of what the cap cuts off, or no step of the outbox.
LEMMA PutBackRefines ==
    ASSUME IInv, NEW g \in Goroutines, PutBack(g)
    PROVE  Box!Next \/ UNCHANGED Box!vars
<1> USE EdgeClientAssumption
<1> DEFINE T == 1 .. accepted
           all == hand[g] \o batch
           n == IF Len(all) > Cap THEN Cap ELSE Len(all)
           cut == {all[i] : i \in n + 1 .. Len(all)}
<1>1. /\ hand' = [hand EXCEPT ![g] = <<>>] /\ batch' = SubSeq(all, 1, n)
      /\ UNCHANGED <<accepted, received, acked, stage>> /\ Alive
  BY DEF PutBack
<1>2. hand[g] \in Seq(T) /\ batch \in Seq(T) /\ Distinct(batch) /\ Distinct(hand[g])
  BY DEF IInv, TypeOK, EachEventOnce
<1>3. /\ Elements(hand[g]) \cap Others(g) = {}
      /\ Elements(batch) \cap (Elements(hand[g]) \cup Others(g)) = {}
  BY OnceSplit DEF IInv
<1> HIDE DEF T
<1>4. /\ all \in Seq(T) /\ Elements(all) = Elements(hand[g]) \cup Elements(batch)
      /\ Distinct(all)
  BY <1>2, <1>3, ElementsConcat, DistinctConcat
<1> HIDE DEF all
<1>5. n \in 0 .. Len(all)
  BY <1>4
<1> HIDE DEF n
<1>6. Elements(batch') \cup cut = Elements(all) /\ Elements(batch') \cap cut = {}
  BY <1>1, <1>4, <1>5, ElementsPrefix
<1> HIDE DEF cut
<1>7. /\ Held = Elements(batch) \cup Elements(hand[g]) \cup Others(g)
      /\ Held' = Elements(batch') \cup Others(g)
  BY <1>1, HeldChange, ElementsEmpty DEF IInv
<1>8. Held' = Held \ cut /\ cut \in SUBSET Held /\ Alive' = Alive
  BY <1>1, <1>3, <1>4, <1>6, <1>7 DEF Alive
<1>9. CASE cut = {}
  BY <1>1, <1>8, <1>9 DEF Box!vars
<1>10. CASE cut # {}
  <2>1. Box!Drop(cut)
    BY <1>1, <1>8, <1>10 DEF Box!Drop
  <2> QED BY <1>8, <2>1 DEF Box!Next
<1> QED BY <1>9, <1>10

(* The edge client implements the outbox: what callers may rely on does    *)
(* not depend on how the goroutines share the batch.                       *)
THEOREM ClientImplementsOutbox == Spec => ImplementsOutbox
<1>1. Init => Box!Init
  <2> SUFFICES ASSUME Init PROVE Box!Init
    OBVIOUS
  <2>1. Held = {}
    BY ElementsEmpty DEF Init, Held, InHand
  <2> QED BY <2>1 DEF Init, Box!Init, Alive
<1>2. IInv /\ [Next]_vars => [Box!Next]_(Box!vars)
  <2> SUFFICES ASSUME IInv, [Next]_vars
               PROVE  Box!Next \/ UNCHANGED Box!vars
    OBVIOUS
  <2>1. ASSUME NEW w \in Writers, WriteEvent(w) \/ WriteBatch(w)
        PROVE  Box!Next
    BY <2>1, AppendRefines, EdgeClientAssumption DEF WriteEvent, WriteBatch
  <2>2. ASSUME Quiet, Alive' = Alive PROVE UNCHANGED Box!vars
    BY <2>2 DEF Quiet, Box!vars, Held, InHand
  <2>3. CASE LoopTick \/ LoopStop \/ ServerDown \/ ServerUp \/ UNCHANGED vars
    BY <2>2, <2>3 DEF LoopTick, LoopStop, ServerDown, ServerUp, vars, Quiet, Alive
  <2>4. ASSUME NEW g \in Goroutines, FlushStep(g)
        PROVE  Box!Next \/ UNCHANGED Box!vars
    <3>1. CASE Failed(g)
      BY <2>2, <3>1 DEF Failed, Quiet, Alive
    <3>2. CASE Take(g)
      <4>1. /\ hand' = [hand EXCEPT ![g] = batch] /\ batch' = <<>> /\ hand[g] = <<>>
            /\ UNCHANGED <<accepted, received, acked, stage>>
        BY <3>2 DEF Take, IInv, HandInv
      <4>2. Held' = Held
        <5>1. /\ Held = Elements(batch) \cup Elements(hand[g]) \cup Others(g)
              /\ Held' = Elements(batch') \cup Elements(batch) \cup Others(g)
          BY <4>1, HeldChange DEF IInv
        <5>2. Elements(batch') = {} /\ Elements(hand[g]) = {}
          BY <4>1, ElementsEmpty
        <5> QED BY <5>1, <5>2
      <4> QED BY <4>1, <4>2 DEF Box!vars, Alive
    <3> QED BY <2>4, <3>1, <3>2, StoreRefines, AnsweredRefines, PutBackRefines
            DEF FlushStep
  <2>5. CASE MainStep
    <3>1. Held' = Held /\ UNCHANGED <<accepted, received, acked>>
      BY <2>5 DEF MainStep, Held, InHand
    <3>2. CASE stage = "close"
      <4>1. Alive /\ ~Alive'
        BY <2>5, <3>2 DEF MainStep, Alive
      <4> QED BY <3>1, <4>1 DEF Box!Exit, Box!Next, Alive
    <3>3. CASE stage # "close"
      <4>1. Alive /\ Alive'
        BY <2>5, <3>3 DEF MainStep, Alive, IInv, TypeOK
      <4> QED BY <3>1, <4>1 DEF Box!vars, Alive
    <3> QED BY <3>2, <3>3
  <2> QED BY <2>1, <2>3, <2>4, <2>5 DEF Next
<1> QED BY <1>1, <1>2, InvariantHolds, PTL DEF Spec, ImplementsOutbox, Box!Spec
=============================================================================
