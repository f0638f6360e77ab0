----------------------- MODULE CollectorManager_proofs ----------------------
(***************************************************************************)
(* For any list of collectors that does not begin with the host metrics    *)
(* collector, any number of API goroutines and any commands: the types,    *)
(* and that at most one caller ever stops more than the first collector.   *)
(*                                                                         *)
(* OneStopper is not inductive: that a second caller cannot follow the     *)
(* first past collector 1 rests on collector 1's channel staying closed,   *)
(* and that the first does not panic further on rests on every channel     *)
(* ahead of it being open.  Ahead adds these two facts.                    *)
(***************************************************************************)
EXTENDS CollectorManager, TLAPS

Ahead ==
    /\ \A a \in Callers : pc[a] \in {"idle", "dead"} => idx[a] = 1
    /\ phase = "serve" => pc[Main] = "idle"
    /\ ~closed[1] => \A i \in Slots : ~closed[i]
    /\ \A a \in Callers : Past(a) =>
         /\ closed[1]
         /\ \A j \in Slots :
              j > idx[a] \/ (j = idx[a] /\ pc[a] = "close") => ~closed[j]
    /\ \A a, b \in Callers : Past(a) /\ Past(b) => a = b

(* The inductive invariant.                                                *)
IInv == TypeOK /\ Ahead

\* The list is not empty, so there is a first collector.
LEMMA FirstSlot == N \in Nat /\ 1 \in Slots /\ Slots \subseteq Nat
  BY ManagerAssumption DEF N, Slots

\* Unless it is the last, a collector has a successor.
LEMMA NextSlot == \A i \in Slots : i # N => i + 1 \in Slots
  BY FirstSlot DEF Slots

\* One goroutine more, or one fewer of several, is a number of goroutines.
LEMMA CountTickers ==
    ASSUME NEW f \in [Slots -> [Contexts -> Nat]], NEW i \in Slots, NEW c \in Contexts
    PROVE  /\ [f EXCEPT ![i][c] = @ + 1] \in [Slots -> [Contexts -> Nat]]
           /\ f[i][c] > 0 => [f EXCEPT ![i][c] = @ - 1] \in [Slots -> [Contexts -> Nat]]
  <1>1. f[i] \in [Contexts -> Nat] /\ f[i][c] \in Nat
    OBVIOUS
  <1>2. [f[i] EXCEPT ![c] = @ + 1] \in [Contexts -> Nat]
    BY <1>1
  <1>3. f[i][c] > 0 => [f[i] EXCEPT ![c] = @ - 1] \in [Contexts -> Nat]
    BY <1>1
  <1> QED
    BY <1>2, <1>3

\* Rows of the table stay rows when the table grows.
LEMMA WidenSeq ==
    ASSUME NEW S, NEW T, S \subseteq T, NEW s \in Seq(S)
    PROVE  s \in Seq(T)
  <1>1. Len(s) \in Nat /\ s \in [1 .. Len(s) -> S]
    OBVIOUS
  <1>2. s \in [1 .. Len(s) -> T]
    BY <1>1
  <1> QED
    BY <1>1, <1>2

\* What the inductive invariant says of OneStopper.
LEMMA AheadEnough == IInv => OneStopper
  <1> SUFFICES ASSUME IInv PROVE OneStopper
    OBVIOUS
  <1>1. \A a \in Callers : pc[a] = "close" /\ idx[a] > 1 => ~closed[idx[a]]
    BY FirstSlot DEF IInv, TypeOK, Ahead, Past, Slots
  <1> QED
    BY <1>1 DEF IInv, Ahead, OneStopper

\* main after mgr.Init satisfies the invariant.
LEMMA InitIInv == Init => IInv
  <1> SUFFICES ASSUME Init PROVE IInv
    OBVIOUS
  <1> USE FirstSlot, ManagerAssumption
  <1>1. TypeOK
    BY DEF Init, TypeOK, Callers, Commands, Contexts
  <1>2. Ahead
    BY DEF Init, Ahead, Past, Callers
  <1> QED
    BY <1>1, <1>2 DEF IInv

\* Every step keeps the types.
LEMMA TypeStep == IInv /\ [Next]_vars => TypeOK'
  <1> SUFFICES ASSUME TypeOK, [Next]_vars PROVE TypeOK'
    BY DEF IInv
  <1> USE DEF TypeOK
  <1>1. ASSUME NEW a \in Callers, StartOne(a) PROVE TypeOK'
    <2>1. idx[a] \in Slots /\ ContextOf(a) \in Contexts
      BY DEF ContextOf, Contexts
    <2>2. readers' \in [Slots -> Nat]
      BY <1>1, <2>1 DEF StartOne, Spawn
    <2>3. tickers' \in [Slots -> [Contexts -> Nat]]
      <3>1. Spawn(idx[a], ContextOf(a))
        BY <1>1 DEF StartOne
      <3>2. \/ tickers' = tickers
            \/ tickers' = [tickers EXCEPT ![idx[a]][ContextOf(a)] = @ + 1]
        BY <3>1, Zenon DEF Spawn
      <3>3. tickers \in [Slots -> [Contexts -> Nat]]
        OBVIOUS
      <3>4. [tickers EXCEPT ![idx[a]][ContextOf(a)] = @ + 1]
               \in [Slots -> [Contexts -> Nat]]
        BY <2>1, <3>3, CountTickers, Zenon
      <3> QED
        BY <3>2, <3>3, <3>4, Zenon
    <2>4. (IF idx[a] = N THEN 1 ELSE idx[a] + 1) \in Slots
      BY <2>1, FirstSlot, NextSlot
    <2>5. idx' \in [Callers -> Slots]
      BY <1>1, <2>4 DEF StartOne
    <2>6. /\ running' \in [Slots -> BOOLEAN]
          /\ pc' \in [Callers -> {"idle", "start", "close", "finish", "dead"}]
          /\ phase' \in {"boot", "serve", "shutdown", "exit", "crash"}
      BY <1>1 DEF StartOne
    <2> QED
      BY <1>1, <2>2, <2>3, <2>5, <2>6 DEF StartOne, table
  <1>2. ASSUME NEW a \in Callers, Panic(a) PROVE TypeOK'
    <2>1. idx' \in [Callers -> Slots]
      BY <1>2, FirstSlot DEF Panic
    <2>2. /\ pc' \in [Callers -> {"idle", "start", "close", "finish", "dead"}]
          /\ phase' \in {"boot", "serve", "shutdown", "exit", "crash"}
          /\ cancelled' \subseteq Contexts
      BY <1>2 DEF Panic, Contexts
    <2>3. <<>> \in Seq(1 .. Len(issued))
      OBVIOUS
    <2>4. rows' \in Seq(1 .. Len(issued))
      BY <1>2, <2>3 DEF Panic
    <2> QED
      BY <1>2, <2>1, <2>2, <2>4 DEF Panic
  <1>3. ASSUME NEW a \in Callers, CloseOne(a) PROVE TypeOK'
    BY <1>2, <1>3 DEF CloseOne, table
  <1>4. ASSUME NEW a \in Callers, FinishOne(a) PROVE TypeOK'
    <2>1. (IF idx[a] = N THEN 1 ELSE idx[a] + 1) \in Slots
      BY FirstSlot, NextSlot
    <2>2. idx' \in [Callers -> Slots]
      BY <1>4, <2>1 DEF FinishOne
    <2>3. /\ running' \in [Slots -> BOOLEAN]
          /\ reader' \in [Slots -> {"none", "open", "closed"}]
          /\ pc' \in [Callers -> {"idle", "start", "close", "finish", "dead"}]
          /\ phase' \in {"boot", "serve", "shutdown", "exit", "crash"}
      BY <1>4 DEF FinishOne, AfterStop
    <2> QED
      BY <1>4, <2>2, <2>3 DEF FinishOne, table
  <1>5. CASE Signal
    BY <1>5 DEF Signal, table, Contexts
  <1>6. ASSUME NEW a \in Api, ApiStop(a) PROVE TypeOK'
    BY <1>6 DEF ApiStop, collectors, table
  <1>7. ASSUME NEW c \in Commands, Issue(c) PROVE TypeOK'
    <2>1. issued' \in Seq(Commands) /\ Len(issued') = Len(issued) + 1
      BY <1>7 DEF Issue
    <2>2. /\ 1 .. Len(issued) \subseteq 1 .. Len(issued')
          /\ Len(issued) + 1 \in 1 .. Len(issued')
      BY <2>1
    <2>3. unapplied \in Seq(1 .. Len(issued')) /\ rows \in Seq(1 .. Len(issued'))
      BY <2>2, WidenSeq
    <2>4. unapplied' \in Seq(1 .. Len(issued'))
      BY <1>7, <2>2, <2>3 DEF Issue
    <2>5. rows' \in Seq(1 .. Len(issued')) /\ ran' \subseteq 1 .. Len(issued')
      BY <1>7, <2>2, <2>3 DEF Issue
    <2>6. Len(issued') <= MaxCmds
      BY <1>7, <2>1, ManagerAssumption DEF Issue
    <2> QED
      BY <1>7, <2>1, <2>4, <2>5, <2>6 DEF Issue, collectors
  <1>8. CASE Poll
    <2>1. rows' \in Seq(1 .. Len(issued))
      BY <1>8, ManagerAssumption DEF Poll
    <2> QED
      BY <1>8, <2>1 DEF Poll, collectors
  <1>9. CASE BadReply
    BY <1>9, <1>2 DEF BadReply, Callers
  <1>10. CASE RunRow
    <2>1. Head(rows) \in 1 .. Len(issued) /\ rows' \in Seq(1 .. Len(issued))
      BY <1>10 DEF RunRow
    <2>2. issued[Head(rows)] \in Commands
      BY <2>1
    <2>3. fails' \in 0 .. MaxFails
      BY <1>10, ManagerAssumption DEF RunRow
    <2>4. <<>> \in Seq(1 .. Len(issued))
      OBVIOUS
    <2>5. unapplied' \in Seq(1 .. Len(issued))
      BY <1>10, <2>4 DEF RunRow
    <2> QED
      BY <1>10, <2>1, <2>2, <2>3, <2>5 DEF RunRow, collectors
  <1>11. ASSUME NEW i \in Slots, ReaderEnds(i) PROVE TypeOK'
    BY <1>11 DEF ReaderEnds, table
  <1>12. ASSUME NEW i \in Slots, NEW c \in Contexts, TickerEnds(i, c) PROVE TypeOK'
    <2>1. tickers' \in [Slots -> [Contexts -> Nat]]
      BY <1>12, CountTickers DEF TickerEnds
    <2> QED
      BY <1>12, <2>1 DEF TickerEnds, table
  <1>13. CASE UNCHANGED vars
    BY <1>13 DEF vars, collectors, table
  <1> QED
    BY <1>1, <1>3, <1>4, <1>5, <1>6, <1>7, <1>8, <1>9, <1>10, <1>11, <1>12, <1>13
       DEF Next, CallStep

\* A step that leaves the channels and the callers alone.
LEMMA StillKeeps ==
    IInv /\ UNCHANGED <<closed, pc, idx, phase>> => Ahead'
  BY DEF IInv, Ahead, Past

\* A panic sends its caller back to the start and closes nothing.
LEMMA PanicKeeps ==
    ASSUME NEW a \in Callers, IInv, Alive, Panic(a)
    PROVE  Ahead'
  <1> USE FirstSlot, ManagerAssumption DEF IInv, TypeOK
  <1>1. \A b \in Callers : Past(b)' => Past(b) /\ pc'[b] = pc[b] /\ idx'[b] = idx[b]
    BY DEF Panic, Past
  <1> QED
    BY <1>1 DEF Panic, Ahead, Past, Callers

\* The heart of the argument: close(stopCh) at the first collector succeeds
\* only when nobody is past it, and further on only for the one caller there.
LEMMA CloseKeeps ==
    ASSUME NEW a \in Callers, IInv, CloseOne(a)
    PROVE  Ahead'
  <1> USE FirstSlot, ManagerAssumption DEF IInv, TypeOK
  <1>1. CASE closed[idx[a]] /\ Kinds[idx[a]] # "host" /\ Panic(a)
    BY <1>1, PanicKeeps DEF CloseOne
  <1>2. CASE /\ ~closed[idx[a]] \/ Kinds[idx[a]] = "host"
             /\ closed' = [closed EXCEPT ![idx[a]] = TRUE]
             /\ pc' = [pc EXCEPT ![a] = "finish"]
             /\ UNCHANGED <<running, reader, readers, tickers, cancelled,
                            phase, idx, table>>
    <2>0. pc[a] = "close" /\ idx[a] \in Slots /\ UNCHANGED <<phase, idx>>
      BY <1>2 DEF CloseOne
    <2>1. ~Past(a) => idx[a] = 1 /\ ~closed[1]
      BY <1>2, <2>0 DEF Past, Slots
    <2>2. \A b \in Callers : b # a => ~Past(b)
      BY <2>1 DEF Ahead
    <2>3. \A b \in Callers : Past(b)' => b = a
      BY <1>2, <2>0, <2>2 DEF Past
    <2>4. closed'[1]
      BY <1>2, <2>0, <2>1 DEF Ahead
    <2>5. \A j \in Slots : j > idx[a] => ~closed'[j]
      BY <1>2, <2>0, <2>1 DEF Ahead
    <2>6. phase' = "serve" => pc'[Main] = "idle"
      BY <1>2, <2>0 DEF Ahead, Callers
    <2> QED
      BY <1>2, <2>0, <2>3, <2>4, <2>5, <2>6 DEF Ahead
  <1> QED
    BY <1>1, <1>2 DEF CloseOne

\* The caller goes on to the next collector, whose channel is still open.
LEMMA FinishKeeps ==
    ASSUME NEW a \in Callers, IInv, FinishOne(a)
    PROVE  Ahead'
  <1> USE FirstSlot, ManagerAssumption DEF IInv, TypeOK
  <1>0. pc[a] = "finish" /\ idx[a] \in Slots /\ UNCHANGED closed
    BY DEF FinishOne
  <1>1. \A b \in Callers : b # a => pc'[b] = pc[b] /\ idx'[b] = idx[b]
    BY DEF FinishOne
  <1>2. \A b \in Callers : Past(b)' => b = a
    BY <1>0, <1>1 DEF Ahead, Past
  <1>3. CASE idx[a] = N
    <2>1. idx'[a] = 1 /\ pc'[a] \in {"start", "idle"}
      BY <1>3 DEF FinishOne, AfterStop
    <2>2. phase' = "serve" => pc'[Main] = "idle"
      BY <1>0, <1>1, <1>3 DEF FinishOne, Ahead, Callers
    <2>3. ~Past(a)'
      BY <2>1 DEF Past
    <2> QED
      BY <1>0, <1>1, <1>2, <2>1, <2>2, <2>3 DEF Ahead
  <1>4. CASE idx[a] # N
    <2>1. idx'[a] = idx[a] + 1 /\ pc'[a] = "close" /\ phase' = phase
      BY <1>4 DEF FinishOne
    <2>2. phase' = "serve" => pc'[Main] = "idle"
      BY <1>0, <1>1, <2>1 DEF Ahead, Callers
    <2>3. closed'[1] /\ \A j \in Slots : j >= idx'[a] => ~closed'[j]
      BY <1>0, <2>1 DEF Ahead, Past, Slots
    <2>4. \A b \in Callers : pc'[b] \in {"idle", "dead"} => idx'[b] = 1
      BY <1>1, <2>1 DEF Ahead
    <2>5. idx'[a] \in Nat
      <3>1. idx[a] \in Nat
        BY <1>0, FirstSlot, Zenon
      <3> QED
        BY <2>1, <3>1
    <2>6. \A b \in Callers : Past(b)' =>
             /\ closed'[1]
             /\ \A j \in Slots :
                  j > idx'[b] \/ (j = idx'[b] /\ pc'[b] = "close") => ~closed'[j]
      <3>1. \A j \in Slots : j > idx'[a] \/ j = idx'[a] => j >= idx'[a]
        BY <2>5, FirstSlot
      <3> QED
        BY <1>2, <2>3, <3>1
    <2>7. ~closed'[1] => \A i \in Slots : ~closed'[i]
      BY <2>3
    <2> QED
      BY <1>2, <2>2, <2>4, <2>6, <2>7 DEF Ahead
  <1> QED
    BY <1>3, <1>4

\* Every step keeps the strengthening.
LEMMA AheadStep == IInv /\ [Next]_vars => Ahead'
  <1> SUFFICES ASSUME IInv, [Next]_vars PROVE Ahead'
    OBVIOUS
  <1> USE FirstSlot, ManagerAssumption
  <1>1. ASSUME NEW a \in Callers, StartOne(a) PROVE Ahead'
    <2>1. \A b \in Callers : b # a => pc'[b] = pc[b] /\ idx'[b] = idx[b]
      BY <1>1 DEF StartOne, IInv, TypeOK
    <2>2. pc'[a] \in {"idle", "start"} /\ (pc'[a] = "idle" => idx'[a] = 1)
      BY <1>1 DEF StartOne, IInv, TypeOK
    <2>3. phase' = "serve" => pc'[Main] = "idle"
      BY <1>1, <2>1 DEF StartOne, IInv, TypeOK, Ahead, Callers
    <2>4. \A b \in Callers : Past(b)' => Past(b) /\ b # a
      BY <2>1, <2>2 DEF Past
    <2> QED
      BY <1>1, <2>1, <2>2, <2>3, <2>4 DEF StartOne, IInv, Ahead
  <1>2. ASSUME NEW a \in Callers, CloseOne(a) PROVE Ahead'
    BY <1>2, CloseKeeps
  <1>3. ASSUME NEW a \in Callers, FinishOne(a) PROVE Ahead'
    BY <1>3, FinishKeeps
  \* a call of Manager.Stop begins at the first collector, so it is not past it
  <1>4. ASSUME NEW a \in Callers, pc[a] = "idle", UNCHANGED <<closed, idx>>,
               pc' = [pc EXCEPT ![a] = "close"] \/ pc' = [pc EXCEPT ![a] = "start"],
               phase' = "serve" => phase = "serve" /\ a # Main
        PROVE  Ahead'
    <2>1. idx'[a] = 1 /\ pc'[a] \in {"close", "start"}
      BY <1>4 DEF IInv, TypeOK, Ahead
    <2>2. \A b \in Callers : b # a => pc'[b] = pc[b] /\ idx'[b] = idx[b]
      BY <1>4 DEF IInv, TypeOK
    <2>3. \A b \in Callers : Past(b)' => Past(b) /\ b # a
      BY <2>1, <2>2 DEF Past
    <2>4. phase' = "serve" => pc'[Main] = "idle"
      BY <1>4, <2>2 DEF IInv, Ahead, Callers
    <2> QED
      BY <1>4, <2>1, <2>2, <2>3, <2>4 DEF IInv, Ahead
  <1>5. CASE Signal
    BY <1>4, <1>5 DEF Signal, IInv, Ahead, Callers
  <1>6. ASSUME NEW a \in Api, ApiStop(a) PROVE Ahead'
    BY <1>4, <1>6 DEF ApiStop, collectors, Callers
  <1>7. ASSUME NEW c \in Commands, Issue(c) PROVE Ahead'
    BY <1>7, StillKeeps DEF Issue, collectors
  <1>8. CASE Poll
    BY <1>8, StillKeeps DEF Poll, collectors
  <1>9. CASE BadReply
    BY <1>9, PanicKeeps DEF BadReply, Polling, Alive, Callers
  <1>10. CASE RunRow
    <2>0. pc[Poller] = "idle" /\ Poller \in Callers /\ UNCHANGED <<closed, idx, phase>>
      BY <1>10 DEF RunRow, Polling, collectors, Callers
    <2>1. \/ pc' = [pc EXCEPT ![Poller] = "close"]
          \/ pc' = [pc EXCEPT ![Poller] = "start"]
          \/ pc' = [pc EXCEPT ![Poller] = "idle"]
      BY <1>10 DEF RunRow
    <2>2. CASE pc' = [pc EXCEPT ![Poller] = "idle"]
      BY <2>0, <2>2, StillKeeps DEF IInv, TypeOK
    <2> QED
      BY <1>4, <2>0, <2>1, <2>2
  <1>11. ASSUME NEW i \in Slots, ReaderEnds(i) PROVE Ahead'
    BY <1>11, StillKeeps DEF ReaderEnds
  <1>12. ASSUME NEW i \in Slots, NEW c \in Contexts, TickerEnds(i, c) PROVE Ahead'
    BY <1>12, StillKeeps DEF TickerEnds
  <1>13. CASE UNCHANGED vars
    BY <1>13, StillKeeps DEF vars, collectors
  <1> QED
    BY <1>1, <1>2, <1>3, <1>5, <1>6, <1>7, <1>8, <1>9, <1>10, <1>11, <1>12, <1>13
       DEF Next, CallStep

\* The inductive invariant holds in every reachable state of the manager.
THEOREM InvariantHolds == Spec => []IInv
  <1>1. IInv /\ [Next]_vars => IInv'
    BY TypeStep, AheadStep DEF IInv
  <1> QED
    BY InitIInv, <1>1, PTL DEF Spec

\* The collectors, the callers and the command table keep their types.
THEOREM TypeCorrect == Spec => []TypeOK
  BY InvariantHolds, PTL DEF IInv

\* However many goroutines call Manager.Stop, on however many collectors, at
\* most one is past the first collector and it never meets a closed channel.
THEOREM AtMostOneStopper == Spec => []OneStopper
  BY InvariantHolds, AheadEnough, PTL
=============================================================================
