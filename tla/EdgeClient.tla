----------------------------- MODULE EdgeClient -----------------------------
(***************************************************************************)
(* The Go probe's output to the edge server (internal/output/edge.go): a   *)
(* batch guarded by a mutex, filled by the collectors' goroutines, emptied *)
(* by whichever goroutine calls flush() - a writer that found the batch    *)
(* long, the ticker loop, or main on its way out.  flush() takes the       *)
(* events under the lock, posts them without it, and on any answer other   *)
(* than 200 puts them back in front of what arrived meanwhile.             *)
(*                                                                         *)
(* Events are numbered in the order they enter the batch.  An event that   *)
(* shouldSample rejects changes nothing and gets no number.                *)
(***************************************************************************)
EXTENDS Integers, Sequences, FiniteSets

CONSTANTS
    Writers,    \* goroutines that call WriteEvent / WriteBatch
    Loop, Main, \* the flushLoop goroutine and main
    Threshold,  \* length at which a writer flushes (2000)
    Cap,        \* length a put-back batch is cut to (10000)
    MaxGroup,   \* most events one call of WriteBatch lets through
    Limit       \* bound on the number of events written

Goroutines == Writers \cup {Loop, Main}

ASSUME EdgeClientAssumption ==
    /\ IsFiniteSet(Writers) /\ Loop \notin Writers /\ Main \notin Writers
    /\ Loop # Main
    /\ Threshold \in Nat \ {0} /\ Cap \in Nat /\ Threshold <= Cap
    /\ MaxGroup \in Nat \ {0} /\ Limit \in Nat

VARIABLES
    batch,     \* e.batch
    pc,        \* where each goroutine stands in flush()
    hand,      \* the events slice of each flush() under way
    accepted,  \* number of events appended so far
    received,  \* events the server stored
    acked,     \* events of a flush that was answered 200
    dropped,   \* events cut off by the cap
    server,    \* whether the edge server answers
    stage      \* main: "run", "flush" (out.Flush), "close" (out.Close), "exit"

vars == <<batch, pc, hand, accepted, received, acked, dropped, server, stage>>

Elements(s) == {s[i] : i \in 1 .. Len(s)}

TypeOK ==
    /\ batch \in Seq(1 .. accepted)
    /\ pc \in [Goroutines -> {"idle", "flush", "post", "stored", "failed", "done"}]
    /\ hand \in [Goroutines -> Seq(1 .. accepted)]
    /\ accepted \in 0 .. Limit
    /\ received \subseteq 1 .. accepted
    /\ acked \subseteq 1 .. accepted /\ dropped \subseteq 1 .. accepted
    /\ server \in {"up", "down"}
    /\ stage \in {"run", "flush", "close", "exit"}

Init ==
    /\ batch = <<>>
    /\ pc = [g \in Goroutines |-> "idle"]
    /\ hand = [g \in Goroutines |-> <<>>]
    /\ accepted = 0
    /\ received = {} /\ acked = {} /\ dropped = {}
    /\ server = "up"
    /\ stage = "run"

Alive == stage # "exit"

-----------------------------------------------------------------------------
(* The locked part of WriteEvent and WriteBatch for n sampled events.      *)
AppendLocked(w, n) ==
    /\ Alive /\ pc[w] = "idle" /\ accepted + n <= Limit
    /\ batch' = batch \o [i \in 1 .. n |-> accepted + i]
    /\ accepted' = accepted + n
    /\ pc' = [pc EXCEPT ![w] = IF Len(batch') >= Threshold THEN "flush" ELSE "idle"]
    /\ UNCHANGED <<hand, received, acked, dropped, server, stage>>

WriteEvent(w) == AppendLocked(w, 1)

WriteBatch(w) == \E n \in 1 .. MaxGroup : AppendLocked(w, n)

LoopTickLong ==
    /\ Alive /\ pc[Loop] = "idle" /\ Len(batch) >= Threshold
    /\ pc' = [pc EXCEPT ![Loop] = "flush"]
    /\ UNCHANGED <<batch, hand, accepted, received, acked, dropped, server, stage>>

(* flushLoop: the ticker starts a flush ...                                *)
LoopTick ==
    /\ Alive /\ pc[Loop] = "idle"
    /\ pc' = [pc EXCEPT ![Loop] = "flush"]
    /\ UNCHANGED <<batch, hand, accepted, received, acked, dropped, server, stage>>

(* ... and a closed stopCh ends it.                                        *)
LoopStop ==
    /\ stage = "close" /\ pc[Loop] = "idle"
    /\ pc' = [pc EXCEPT ![Loop] = "done"]
    /\ UNCHANGED <<batch, hand, accepted, received, acked, dropped, server, stage>>

TakeCopy(g) ==
    /\ Alive /\ pc[g] = "flush"
    /\ hand' = [hand EXCEPT ![g] = batch]
    /\ pc' = [pc EXCEPT ![g] = IF batch = <<>> THEN "idle" ELSE "post"]
    /\ UNCHANGED <<batch, accepted, received, acked, dropped, server, stage>>

(* flush(): the first locked section.                                      *)
Take(g) ==
    /\ Alive /\ pc[g] = "flush"
    /\ hand' = [hand EXCEPT ![g] = batch]
    /\ batch' = <<>>
    /\ pc' = [pc EXCEPT ![g] = IF batch = <<>> THEN "idle" ELSE "post"]
    /\ UNCHANGED <<accepted, received, acked, dropped, server, stage>>

(* client.Post reaches the server, which stores the events.                *)
Store(g) ==
    /\ Alive /\ pc[g] = "post" /\ server = "up"
    /\ received' = received \cup Elements(hand[g])
    /\ pc' = [pc EXCEPT ![g] = "stored"]
    /\ UNCHANGED <<batch, hand, accepted, acked, dropped, server, stage>>

AnsweredAnyStatus(g) ==
    /\ Alive /\ pc[g] \in {"post", "stored"} /\ server = "up"
    /\ acked' = acked \cup Elements(hand[g])
    /\ hand' = [hand EXCEPT ![g] = <<>>]
    /\ pc' = [pc EXCEPT ![g] = "idle"]
    /\ UNCHANGED <<batch, accepted, received, dropped, server, stage>>

(* The answer 200 arrives.                                                 *)
Answered(g) ==
    /\ Alive /\ pc[g] = "stored" /\ server = "up"
    /\ acked' = acked \cup Elements(hand[g])
    /\ hand' = [hand EXCEPT ![g] = <<>>]
    /\ pc' = [pc EXCEPT ![g] = "idle"]
    /\ UNCHANGED <<batch, accepted, received, dropped, server, stage>>

(* client.Post fails, times out, or another status is returned: before the *)
(* server stored the events, or after it.                                  *)
Failed(g) ==
    /\ Alive /\ pc[g] \in {"post", "stored"} /\ server = "down"
    /\ pc' = [pc EXCEPT ![g] = "failed"]
    /\ UNCHANGED <<batch, hand, accepted, received, acked, dropped, server, stage>>

PutBackUncapped(g) ==
    /\ Alive /\ pc[g] = "failed"
    /\ batch' = hand[g] \o batch
    /\ hand' = [hand EXCEPT ![g] = <<>>]
    /\ pc' = [pc EXCEPT ![g] = "idle"]
    /\ UNCHANGED <<accepted, received, acked, dropped, server, stage>>

(* flush(): the locked section of the two error paths.                     *)
PutBack(g) ==
    LET all == hand[g] \o batch
        n   == IF Len(all) > Cap THEN Cap ELSE Len(all)
    IN /\ Alive /\ pc[g] = "failed"
       /\ batch' = SubSeq(all, 1, n)
       /\ dropped' = dropped \cup {all[i] : i \in n + 1 .. Len(all)}
       /\ hand' = [hand EXCEPT ![g] = <<>>]
       /\ pc' = [pc EXCEPT ![g] = "idle"]
       /\ UNCHANGED <<accepted, received, acked, server, stage>>

(* main after the signal: mgr.Stop(), out.Flush(), then the deferred       *)
(* out.Close(), which closes stopCh and flushes once more, then the        *)
(* process ends and takes every goroutine with it.  A mgr.Stop() that      *)
(* panics, as it does on collectors stopped before, skips out.Flush().     *)
MainStep ==
    /\ Alive /\ pc[Main] = "idle"
    /\ stage' \in CASE stage = "run" -> {"flush", "close"}
                    [] stage = "flush" -> {"close"}
                    [] stage = "close" -> {"exit"}
    /\ pc' = [pc EXCEPT ![Main] = IF stage = "close" THEN "done" ELSE "flush"]
    /\ UNCHANGED <<batch, hand, accepted, received, acked, dropped, server>>

ServerDown ==
    /\ server = "up" /\ server' = "down"
    /\ UNCHANGED <<batch, pc, hand, accepted, received, acked, dropped, stage>>

ServerUp ==
    /\ server = "down" /\ server' = "up"
    /\ UNCHANGED <<batch, pc, hand, accepted, received, acked, dropped, stage>>

FlushStep(g) == Take(g) \/ Store(g) \/ Answered(g) \/ Failed(g) \/ PutBack(g)

Next ==
    \/ \E w \in Writers : WriteEvent(w) \/ WriteBatch(w)
    \/ LoopTick
    \/ LoopStop
    \/ \E g \in Goroutines : FlushStep(g)
    \/ MainStep
    \/ ServerDown
    \/ ServerUp

Spec == Init /\ [][Next]_vars

(* The Go scheduler runs every goroutine that can run, the ticker keeps    *)
(* ticking, and client.Post returns within its 30 s timeout.  Nothing is   *)
(* assumed of the writers, of the signal or of the server.                 *)
Fairness ==
    /\ WF_vars(LoopTick)
    /\ \A g \in Goroutines : WF_vars(FlushStep(g))
    /\ WF_vars(stage # "run" /\ MainStep)

FairSpec == Spec /\ Fairness

-----------------------------------------------------------------------------
InHand == UNION {Elements(hand[g]) : g \in Goroutines}
Held   == Elements(batch) \cup InHand

Distinct(s) == \A i, j \in 1 .. Len(s) : s[i] = s[j] => i = j

(* Between the two locked sections of flush() no event is lost or doubled: *)
(* every event ever appended is in the batch, in the hands of exactly one  *)
(* flush, confirmed, or cut off by the cap, and in one place only.         *)
EachEventOnce ==
    /\ Elements(batch) \cup InHand \cup acked \cup dropped = 1 .. accepted
    /\ Held \cap (acked \cup dropped) = {} /\ acked \cap dropped = {}
    /\ Elements(batch) \cap InHand = {}
    /\ \A g, h \in Goroutines :
          g # h => Elements(hand[g]) \cap Elements(hand[h]) = {}
    /\ Distinct(batch) /\ \A g \in Goroutines : Distinct(hand[g])

(* The batch is cut only when a flush fails, and writers append to it      *)
(* without looking at the cap: it still stays within the cap plus one      *)
(* group for every writer that has appended and not yet flushed.           *)
BatchBounded ==
    Len(batch) <= Cap + MaxGroup * Cardinality({w \in Writers : pc[w] = "flush"})

(* Once the server stays up every event is confirmed or has been cut off,  *)
(* unless the process exits, also when no writer ever reaches the          *)
(* threshold again.                                                        *)
EventuallyConfirmed ==
    <>[](server = "up") =>
        \A e \in 1 .. Limit :
            e <= accepted ~> (e \in acked \cup dropped \/ ~Alive)

(* The client implements the outbox: the events it holds are those in the  *)
(* batch and in flushes under way.                                         *)
Box == INSTANCE Outbox WITH held <- Held, open <- Alive

ImplementsOutbox == Box!Spec
=============================================================================
