-------------------------- MODULE TcpClient_proofs --------------------------
(* Proofs about the relay link, for every delay schedule, retry limit and  *)
(* descriptor set.                                                         *)
EXTENDS TcpClient, SequenceTheorems, TLAPS

(* The four safety invariants are inductive together: AttemptSpacing needs *)
(* the delay to be the one of the retry count, which needs the typing of   *)
(* the retry count.                                                        *)
IInv == TypeOK /\ FdOwned /\ BackoffConsistent /\ AttemptSpacing

(* The schedule never leaves 1 .. MaxDelay.                                *)
LEMMA BackoffTyped ==
    ASSUME NEW r \in 0 .. MaxRetries
    PROVE  Backoff(r) \in 1 .. MaxDelay
<1> DEFINE d == InitialDelay * 2^r
<1>1. d \in 1 .. INT_MAX
  BY TcpClientAssumption
<1> HIDE DEF d
<1>2. Backoff(r) = IF r <= 0 THEN InitialDelay
                   ELSE IF d > MaxDelay \/ d <= 0 THEN MaxDelay ELSE d
  BY DEF Backoff, d
<1> QED BY <1>1, <1>2, TcpClientAssumption

\* Without failures the delay is the initial one.
LEMMA BackoffZero == Backoff(0) = InitialDelay
BY DEF Backoff

(* The type invariant in two halves, one for each kind of prover.          *)
Flags ==
    /\ is_connected \in BOOLEAN /\ midreq \in BOOLEAN
    /\ torn \in BOOLEAN

Values ==
    /\ sock_fd \in Fds \cup {NoFd}
    /\ reconnect_retries \in 0 .. MaxRetries
    /\ reconnect_delay \in 1 .. MaxDelay
    /\ elapsed \in 0 .. MaxDelay
    /\ open_fds \subseteq Fds
    /\ link \in {"none", "up", "fin", "gone", "reset"}
    /\ unread \in 0 .. MaxUnread
    /\ relay \in {"up", "down"}
    /\ pc \in {"start", "idle", "reconnect", "recheck", "send", "closed"}
    /\ gaps \in Seq(0 .. MaxDelay)

(* TypeOK is the conjunction of the two halves, in either state of a step. *)
LEMMA TypeHalves ==
    /\ TypeOK <=> Flags /\ Values
    /\ TypeOK' <=> Flags' /\ Values'
<1>1. TypeOK <=> Flags /\ Values
  BY Zenon DEF TypeOK, Flags, Values
<1>2. TypeOK' <=> Flags' /\ Values'
  BY Zenon DEF TypeOK, Flags, Values
<1> QED BY <1>1, <1>2

(* tcp_client_init establishes the invariant.                              *)
LEMMA InitIInv == Init => IInv
<1> SUFFICES ASSUME Init PROVE IInv
  OBVIOUS
<1>1. Values
  <2>1. InitialDelay \in 1 .. MaxDelay /\ MaxDelay \in 0 .. MaxDelay
    BY TcpClientAssumption
  <2>2. 0 \in 0 .. MaxRetries /\ 0 \in 0 .. MaxUnread
    BY TcpClientAssumption
  <2> QED BY <2>1, <2>2 DEF Init, Values
<1>2. Flags
  BY Zenon DEF Init, Flags
<1>3. FdOwned
  BY DEF Init, FdOwned
<1>4. BackoffConsistent
  BY BackoffZero DEF Init, BackoffConsistent
<1>5. AttemptSpacing
  BY DEF Init, AttemptSpacing
<1> QED BY <1>1, <1>2, <1>3, <1>4, <1>5, TypeHalves DEF IInv

(* A step that starts no attempt keeps the invariant if it keeps the types *)
(* and does not set is_connected.                                          *)
LEMMA QuietKeeps ==
    ASSUME IInv, Flags', Values', is_connected' => is_connected,
           UNCHANGED <<sock_fd, reconnect_retries, reconnect_delay, open_fds,
                       gaps>>
    PROVE  IInv'
<1>1. TypeOK'
  BY TypeHalves
<1>2. FdOwned'
  BY DEF IInv, FdOwned
<1>3. BackoffConsistent'
  BY Zenon DEF IInv, BackoffConsistent, Backoff
<1>4. AttemptSpacing'
  BY Zenon DEF IInv, AttemptSpacing, Backoff
<1> QED BY <1>1, <1>2, <1>3, <1>4 DEF IInv

(* A successful attempt made with no descriptor left open establishes it.  *)
LEMMA ConnectedKeeps ==
    ASSUME NEW F, F = {}, Connected(F), gaps' = <<>>,
           elapsed' \in 0 .. MaxDelay, relay' \in {"up", "down"},
           pc' \in {"start", "idle", "reconnect", "recheck", "send", "closed"},
           torn' \in BOOLEAN
    PROVE  IInv'
<1>1. PICK f \in Fds : sock_fd' = f /\ open_fds' = {f}
  BY DEF Connected
<1>2. f # NoFd
  BY TcpClientAssumption DEF NoFd
<1>3. Values'
  <2>1. InitialDelay \in 1 .. MaxDelay
    BY TcpClientAssumption
  <2>2. 0 \in 0 .. MaxRetries /\ 0 \in 0 .. MaxUnread
    BY TcpClientAssumption
  <2> QED BY <1>1, <2>1, <2>2 DEF Connected, Values
<1>4. Flags'
  BY Zenon DEF Connected, Flags
<1>5. FdOwned'
  BY <1>1, <1>2 DEF FdOwned
<1>6. BackoffConsistent' /\ AttemptSpacing'
  <2>1. reconnect_retries' = 0 /\ reconnect_delay' = InitialDelay
    BY DEF Connected
  <2> QED BY <2>1 DEF BackoffConsistent, AttemptSpacing, Backoff
<1> QED BY <1>3, <1>4, <1>5, <1>6, TypeHalves DEF IInv

(* tcp_client_disconnect leaves no descriptor behind.                      *)
LEMMA NothingRemains ==
    ASSUME IInv PROVE Remaining = {}
BY DEF IInv, FdOwned, Remaining

(* A failed attempt of tcp_client_reconnect, made when the delay is over.  *)
LEMMA RefusedKeeps ==
    ASSUME IInv, ~TooEarly, reconnect_retries < MaxRetries,
           Refused(Remaining), elapsed' = 0,
           reconnect_retries' = reconnect_retries + 1,
           reconnect_delay' = Backoff(reconnect_retries + 1),
           gaps' = Append(gaps, elapsed), relay' \in {"up", "down"},
           pc' \in {"start", "idle", "reconnect", "recheck", "send", "closed"},
           torn' \in BOOLEAN
    PROVE  IInv'
<1>1. Values
  BY TypeHalves DEF IInv
<1>2. /\ reconnect_retries \in 0 .. MaxRetries
      /\ reconnect_retries + 1 \in 0 .. MaxRetries
  BY <1>1, TcpClientAssumption DEF Values
<1>3. Backoff(reconnect_retries + 1) \in 1 .. MaxDelay
  BY <1>2, BackoffTyped
<1>4. gaps \in Seq(0 .. MaxDelay) /\ elapsed \in 0 .. MaxDelay
  BY <1>1 DEF Values
<1>5. gaps' \in Seq(0 .. MaxDelay)
  BY <1>4
<1>6. Values'
  <2>1. 0 \in 0 .. MaxDelay /\ 0 \in 0 .. MaxUnread
    BY TcpClientAssumption
  <2> QED BY <1>2, <1>3, <1>5, <2>1, NothingRemains DEF Values, Refused
<1>7. Flags'
  BY Zenon DEF Flags, Refused
<1>8. FdOwned'
  BY NothingRemains DEF FdOwned, Refused
<1>9. BackoffConsistent'
  <2>1. ~is_connected'
    BY DEF Refused
  <2>2. reconnect_delay' = Backoff(reconnect_retries')
    OBVIOUS
  <2> QED BY <2>1, <2>2 DEF BackoffConsistent, Backoff
<1>10. AttemptSpacing'
  <2>1. /\ Len(gaps) = reconnect_retries
        /\ \A i \in 1 .. Len(gaps) : gaps[i] >= Backoff(i - 1)
    BY DEF IInv, AttemptSpacing
  <2>2. elapsed >= Backoff(reconnect_retries)
    BY <1>1 DEF IInv, TooEarly, BackoffConsistent, Values
  <2>3. Len(gaps') = reconnect_retries + 1
    BY <1>4, <2>1
  <2>4. ASSUME NEW i \in 1 .. Len(gaps') PROVE gaps'[i] >= Backoff(i - 1)
    <3>1. CASE i \in 1 .. Len(gaps)
      <4>1. gaps'[i] = gaps[i]
        BY <1>4, <3>1
      <4> QED BY <2>1, <3>1, <4>1
    <3>2. CASE i = reconnect_retries + 1
      <4>1. gaps'[i] = elapsed
        BY <1>4, <2>1, <3>2
      <4>2. i - 1 = reconnect_retries
        BY <1>2, <3>2
      <4> QED BY <2>2, <4>1, <4>2
    <3> QED BY <1>2, <2>1, <2>3, <3>1, <3>2
  <2> QED BY <2>3, <2>4 DEF AttemptSpacing, Backoff
<1> QED BY <1>6, <1>7, <1>8, <1>9, <1>10, TypeHalves DEF IInv

(* The attempt made from the main loop.                                    *)
LEMMA ReconnectStep == ASSUME IInv, Reconnect PROVE IInv'
<1>1. Values /\ Flags
  BY TypeHalves DEF IInv
<1>2. /\ relay' \in {"up", "down"} /\ pc' = "recheck"
      /\ torn' \in BOOLEAN
  BY <1>1, Zenon DEF Reconnect, Values, Flags
<1>3. 0 \in 0 .. MaxDelay
  BY TcpClientAssumption
<1>4. CASE /\ is_connected' = is_connected /\ link' = link
           /\ elapsed' \in {elapsed, 0}
           /\ UNCHANGED <<sock_fd, reconnect_retries, reconnect_delay,
                          open_fds, unread, midreq, gaps>>
  <2>1. Values'
    BY <1>1, <1>2, <1>3, <1>4, Zenon DEF Values
  <2>2. Flags'
    BY <1>1, <1>2, <1>4, Zenon DEF Flags
  <2> QED BY <1>4, <2>1, <2>2, QuietKeeps
<1>5. CASE elapsed' = 0 /\ Connected(Remaining) /\ gaps' = <<>>
  BY <1>2, <1>3, <1>5, NothingRemains, ConnectedKeeps
<1>6. CASE /\ ~TooEarly /\ reconnect_retries < MaxRetries /\ elapsed' = 0
           /\ Refused(Remaining)
           /\ reconnect_retries' = reconnect_retries + 1
           /\ reconnect_delay' = Backoff(reconnect_retries + 1)
           /\ gaps' = Append(gaps, elapsed)
  BY <1>2, <1>6, RefusedKeeps
<1> QED BY <1>4, <1>5, <1>6 DEF Reconnect, ReconnectFrom

(* The attempt made inside tcp_client_send when the connection is lost.    *)
LEMMA SendLostStep == ASSUME IInv, SendLost PROVE IInv'
<1>1. Values /\ Flags
  BY TypeHalves DEF IInv
<1>2. relay' \in {"up", "down"} /\ pc' = "idle"
  BY <1>1, Zenon DEF SendLost, Values
<1>3. torn' \in BOOLEAN
  BY <1>1, Zenon DEF SendLost, Flags
<1>4. 0 \in 0 .. MaxDelay
  BY TcpClientAssumption
<1>5. CASE /\ is_connected' = FALSE /\ link' = "reset"
           /\ elapsed' \in {elapsed, 0}
           /\ UNCHANGED <<sock_fd, reconnect_retries, reconnect_delay,
                          open_fds, unread, midreq, gaps>>
  <2>1. Values'
    BY <1>1, <1>2, <1>4, <1>5, Zenon DEF Values
  <2>2. Flags'
    BY <1>1, <1>3, <1>5, Zenon DEF Flags
  <2> QED BY <1>5, <2>1, <2>2, QuietKeeps
<1>6. CASE elapsed' = 0 /\ Connected(Remaining) /\ gaps' = <<>>
  BY <1>2, <1>3, <1>4, <1>6, NothingRemains, ConnectedKeeps
<1>7. CASE /\ ~TooEarly /\ reconnect_retries < MaxRetries /\ elapsed' = 0
           /\ Refused(Remaining)
           /\ reconnect_retries' = reconnect_retries + 1
           /\ reconnect_delay' = Backoff(reconnect_retries + 1)
           /\ gaps' = Append(gaps, elapsed)
  BY <1>2, <1>3, <1>7, RefusedKeeps
<1> QED BY <1>5, <1>6, <1>7 DEF SendLost, ReconnectFrom

(* The connect of start-up, successful or not: pc = "start" means that     *)
(* nothing has happened yet.                                               *)
Fresh == pc = "start" => gaps = <<>> /\ open_fds = {}

\* The first connection attempt of main keeps the invariant.
LEMMA StartStep == ASSUME IInv, Fresh, Start PROVE IInv'
<1>1. Values /\ Flags
  BY TypeHalves DEF IInv
<1>2. /\ relay' \in {"up", "down"} /\ pc' = "idle"
      /\ elapsed' \in 0 .. MaxDelay
      /\ torn' \in BOOLEAN
  BY <1>1, Zenon DEF Start, Values, Flags
<1>3. open_fds = {} /\ gaps = <<>> /\ gaps' = gaps
  BY DEF Start, Fresh
<1>4. CASE Connected(open_fds)
  BY <1>2, <1>3, <1>4, ConnectedKeeps
<1>5. CASE Refused(open_fds) /\ UNCHANGED <<reconnect_retries, reconnect_delay>>
  <2>1. sock_fd' = NoFd /\ open_fds' = {} /\ is_connected' = FALSE
    BY <1>3, <1>5 DEF Refused
  <2>2. Values'
    <3>1. 0 \in 0 .. MaxUnread
      BY TcpClientAssumption
    <3> QED BY <1>1, <1>2, <1>3, <1>5, <2>1, <3>1 DEF Values, Refused
  <2>3. Flags'
    BY <1>2, <1>5, Zenon DEF Flags, Refused
  <2>4. FdOwned'
    BY <2>1 DEF FdOwned
  <2>5. BackoffConsistent'
    BY <1>5, <2>1, Zenon DEF IInv, BackoffConsistent, Backoff
  <2>6. AttemptSpacing'
    BY <1>3, <1>5, Zenon DEF IInv, AttemptSpacing, Backoff
  <2> QED BY <2>2, <2>3, <2>4, <2>5, <2>6, TypeHalves DEF IInv
<1> QED BY <1>4, <1>5 DEF Start

(* The steps that attempt no connection.                                   *)
LEMMA QuietStep ==
    ASSUME IInv,
           \/ Check \/ Recheck \/ SendAll \/ SendStalled \/ SendTooLong
           \/ Tick \/ RelayChange \/ Respond \/ LinkFault \/ LinkReset
    PROVE  IInv'
<1>1. Values /\ Flags
  BY TypeHalves DEF IInv
<1>2. /\ is_connected' => is_connected
      /\ UNCHANGED <<sock_fd, reconnect_retries, reconnect_delay, open_fds,
                     gaps>>
  <2>1. CASE Check \/ Recheck
    BY <2>1, Zenon DEF Check, Recheck, Alive, kernel
  <2>2. CASE SendAll \/ SendStalled \/ SendTooLong
    BY <2>2 DEF SendAll, SendStalled, SendTooLong, client, kernel
  <2>3. CASE Tick \/ RelayChange
    BY <2>3 DEF Tick, RelayChange, client, kernel
  <2>4. CASE Respond \/ LinkFault \/ LinkReset
    BY <2>4 DEF Respond, LinkFault, LinkReset, client
  <2> QED BY <2>1, <2>2, <2>3, <2>4
<1>3. Flags'
  <2>1. CASE Check \/ Recheck
    BY <1>1, <2>1, Zenon DEF Check, Recheck, Alive, PeekOk, Flags
  <2>2. CASE SendAll \/ SendStalled \/ SendTooLong
    BY <1>1, <2>2, Zenon DEF SendAll, SendStalled, SendTooLong, Flags, client
  <2>3. CASE Tick \/ RelayChange \/ Respond \/ LinkFault \/ LinkReset
    BY <1>1, <2>3, Zenon
       DEF Tick, RelayChange, Respond, LinkFault, LinkReset, Flags, client
  <2> QED BY <2>1, <2>2, <2>3
<1>4. Values'
  <2>1. CASE Check
    BY <1>1, <2>1 DEF Check, Values, kernel
  <2>2. CASE Recheck
    BY <1>1, <2>2 DEF Recheck, Values, kernel
  <2>3. CASE SendAll
    <3>1. unread' \in 0 .. MaxUnread
      BY <1>1, <2>3, TcpClientAssumption DEF SendAll, Values
    <3> QED BY <1>1, <2>3, <3>1 DEF SendAll, Values, client
  <2>4. CASE SendStalled
    BY <1>1, <2>4 DEF SendStalled, Values, client, kernel
  <2>5. CASE SendTooLong
    BY <1>1, <2>5 DEF SendTooLong, Values, client, kernel
  <2>6. CASE Tick
    BY <1>1, <2>6, TcpClientAssumption DEF Tick, Values, kernel
  <2>7. CASE RelayChange
    BY <1>1, <2>7 DEF RelayChange, Values, client, kernel
  <2>8. CASE Respond
    BY <1>1, <2>8, TcpClientAssumption DEF Respond, Values, client
  <2>9. CASE LinkFault \/ LinkReset
    BY <1>1, <2>9 DEF LinkFault, LinkReset, Values, client
  <2> QED BY <2>1, <2>2, <2>3, <2>4, <2>5, <2>6, <2>7, <2>8, <2>9
<1> QED BY <1>2, <1>3, <1>4, QuietKeeps

(* tcp_client_cleanup closes what is left.                                 *)
LEMMA CleanupStep == ASSUME IInv, Cleanup PROVE IInv'
<1>1. Values /\ Flags
  BY TypeHalves DEF IInv
<1>2. sock_fd' = NoFd /\ open_fds' = {} /\ is_connected' = FALSE
  BY NothingRemains DEF Cleanup
<1>3. Values'
  <2>1. 0 \in 0 .. MaxUnread
    BY TcpClientAssumption
  <2> QED BY <1>1, <1>2, <2>1 DEF Cleanup, Values
<1>4. Flags'
  BY <1>1, Zenon DEF Cleanup, Flags
<1>5. FdOwned'
  BY <1>2 DEF FdOwned
<1>6. BackoffConsistent'
  BY <1>2, Zenon DEF IInv, BackoffConsistent, Backoff, Cleanup
<1>7. AttemptSpacing'
  BY Zenon DEF IInv, AttemptSpacing, Backoff, Cleanup
<1> QED BY <1>3, <1>4, <1>5, <1>6, <1>7, TypeHalves DEF IInv

(* Nothing comes back to pc = "start".                                     *)
LEMMA FreshStep == ASSUME Fresh, [Next]_vars PROVE Fresh'
<1>1. CASE Report \/ Cleanup
  BY <1>1 DEF Report, Cleanup, Start, Check, Reconnect, Recheck, SendAll,
     SendStalled, SendTooLong, SendLost, Fresh
<1>2. CASE Tick \/ RelayChange \/ Respond \/ LinkFault \/ LinkReset \/ UNCHANGED vars
  BY <1>2, Zenon DEF Tick, RelayChange, Respond, LinkFault, LinkReset, Fresh,
     client, kernel, vars
<1> QED BY <1>1, <1>2 DEF Next

(* Every behaviour of the link keeps the invariant.                        *)
THEOREM InvariantHolds == Spec => [](IInv /\ Fresh)
<1>1. Init => IInv /\ Fresh
  BY InitIInv DEF Init, Fresh
<1>2. IInv /\ Fresh /\ [Next]_vars => (IInv /\ Fresh)'
  <2> SUFFICES ASSUME IInv, Fresh, [Next]_vars PROVE IInv' /\ Fresh'
    OBVIOUS
  <2>1. CASE UNCHANGED vars
    <3>1. Values' /\ Flags'
      BY <2>1, TypeHalves, Zenon DEF IInv, Values, Flags, vars, client, kernel
    <3> QED BY <2>1, <3>1, QuietKeeps, FreshStep DEF vars, client, kernel
  <2>2. CASE Next
    BY <2>2, StartStep, ReconnectStep, SendLostStep, QuietStep, CleanupStep,
       FreshStep DEF Next, Report
  <2> QED BY <2>1, <2>2
<1> QED BY <1>1, <1>2, PTL DEF Spec

(* The link's fields keep their types; the delay stays within 1 .. MaxDelay *)
(* and the retry count within MaxRetries.                                   *)
THEOREM TypeCorrect == Spec => []TypeOK
BY InvariantHolds, PTL DEF IInv

(* Whatever order of losses, refusals and attempts, tcp_client.c leaks no  *)
(* socket and never calls itself connected without one.                    *)
THEOREM OwnsItsDescriptor == Spec => []FdOwned
BY InvariantHolds, PTL DEF IInv

(* The retry count and the delay it implies never disagree.                *)
THEOREM BackoffIsConsistent == Spec => []BackoffConsistent
BY InvariantHolds, PTL DEF IInv

(* Attempts keep the distances of the exponential schedule, for every      *)
(* schedule config.h can name.                                             *)
THEOREM AttemptsSpaced == Spec => []AttemptSpacing
BY InvariantHolds, PTL DEF IInv
=============================================================================
