----------------------------- MODULE TcpClient -----------------------------
(***************************************************************************)
(* The C probe's link to the relay (src/tcp_client.c) and the part of the  *)
(* main loop that uses it: one connect at start-up, then for every report  *)
(* tcp_client_is_connected, tcp_client_reconnect if it said no,            *)
(* tcp_client_is_connected again, and tcp_client_send if it said yes.      *)
(* main passes auto_reconnect = 1 and never fills the client's send        *)
(* buffer.                                                                 *)
(*                                                                         *)
(* The clock is the time since last_reconnect_time, saturated at MaxDelay: *)
(* no delay is longer, so this is also the value before the first attempt, *)
(* when last_reconnect_time is 0 and nothing is compared.  A request is    *)
(* written in ReqUnits pieces, the most send() splits it into.             *)
(***************************************************************************)
EXTENDS Integers, Sequences

CONSTANTS
    InitialDelay, MaxDelay, MaxRetries, \* RECONNECT_* of config.h
    ReqUnits,   \* pieces of a request that send() may take one by one
    MaxUnread,  \* bound on the response chunks waiting in the socket
    Fds         \* descriptors the kernel can give out

NoFd == -1

INT_MAX == 2147483647

ASSUME TcpClientAssumption ==
    /\ InitialDelay \in Nat \ {0} /\ MaxDelay \in Nat /\ InitialDelay <= MaxDelay
    /\ MaxRetries \in Nat \ {0} /\ ReqUnits \in Nat \ {0} /\ MaxUnread \in Nat
    /\ Fds \subseteq Nat
    \* the shift in calculate_backoff_delay does not leave 32 bits
    /\ \A r \in 0 .. MaxRetries : InitialDelay * 2^r \in 1 .. INT_MAX

VARIABLES
    sock_fd, is_connected, reconnect_retries, reconnect_delay, \* the struct
    elapsed,   \* time since last_reconnect_time
    open_fds,  \* sockets the kernel holds for the client
    link,      \* the connection as the kernel sees it
    unread,    \* response chunks in the receive queue
    relay,     \* whether the relay accepts connections
    pc,        \* where the main loop stands in a report
    midreq,    \* history: the stream ends inside a request
    torn,      \* history: a request was started inside another one
    gaps       \* history: time before each attempt since the last success

client == <<sock_fd, is_connected, reconnect_retries, reconnect_delay, elapsed>>
kernel == <<open_fds, link, unread>>
vars == <<client, kernel, relay, pc, midreq, torn, gaps>>

(* calculate_backoff_delay                                                 *)
Backoff(r) ==
    LET delay == InitialDelay * 2^r
    IN IF r <= 0 THEN InitialDelay
       ELSE IF delay > MaxDelay \/ delay <= 0 THEN MaxDelay ELSE delay

TypeOK ==
    /\ sock_fd \in Fds \cup {NoFd}
    /\ is_connected \in BOOLEAN
    /\ reconnect_retries \in 0 .. MaxRetries
    /\ reconnect_delay \in 1 .. MaxDelay
    /\ elapsed \in 0 .. MaxDelay
    /\ open_fds \subseteq Fds
    /\ link \in {"none", "up", "fin", "gone", "reset"}
    /\ unread \in 0 .. MaxUnread
    /\ relay \in {"up", "down"}
    /\ pc \in {"start", "idle", "reconnect", "recheck", "send", "closed"}
    /\ midreq \in BOOLEAN /\ torn \in BOOLEAN
    /\ gaps \in Seq(0 .. MaxDelay)

(* tcp_client_init                                                         *)
Init ==
    /\ sock_fd = NoFd /\ is_connected = FALSE
    /\ reconnect_retries = 0 /\ reconnect_delay = InitialDelay
    /\ elapsed = MaxDelay
    /\ open_fds = {} /\ link = "none" /\ unread = 0
    /\ relay \in {"up", "down"}
    /\ pc = "start"
    /\ midreq = FALSE /\ torn = FALSE /\ gaps = <<>>

-----------------------------------------------------------------------------
(* tcp_client_connect -> tcp_client_try_connect, entered with the          *)
(* descriptors fds open: every failure path closes the new socket.         *)
Connected(fds) ==
    /\ relay = "up"
    /\ \E f \in Fds \ fds : sock_fd' = f /\ open_fds' = fds \cup {f}
    /\ is_connected' = TRUE
    /\ link' = "up" /\ unread' = 0 /\ midreq' = FALSE
    /\ reconnect_retries' = 0 /\ reconnect_delay' = InitialDelay

Refused(fds) ==
    /\ relay = "down" \/ Fds \ fds = {}
    /\ sock_fd' = NoFd /\ open_fds' = fds
    /\ is_connected' = FALSE
    /\ link' = "none" /\ unread' = 0 /\ midreq' = FALSE

(* main at start-up: one tcp_client_connect.                               *)
Start ==
    /\ pc = "start" /\ pc' = "idle"
    /\ \/ Connected(open_fds)
       \/ Refused(open_fds) /\ UNCHANGED <<reconnect_retries, reconnect_delay>>
    /\ UNCHANGED <<elapsed, relay, torn, gaps>>

TooEarlyNever == FALSE

(* tcp_client_reconnect's first test.                                      *)
TooEarly == elapsed < reconnect_delay

RemainingKept == open_fds

(* tcp_client_disconnect closes the socket before the attempt.             *)
Remaining == open_fds \ {sock_fd}

ReconnectRestampsEarly(conn, lk) ==
    \/ /\ TooEarly
       /\ elapsed' = 0
       /\ is_connected' = conn /\ link' = lk
       /\ UNCHANGED <<sock_fd, reconnect_retries, reconnect_delay,
                      open_fds, unread, midreq, gaps>>
    \/ /\ ~TooEarly /\ reconnect_retries < MaxRetries
       /\ elapsed' = 0
       /\ \/ Connected(Remaining) /\ gaps' = <<>>
          \/ /\ Refused(Remaining)
             /\ reconnect_retries' = reconnect_retries + 1
             /\ reconnect_delay' = Backoff(reconnect_retries + 1)
             /\ gaps' = Append(gaps, elapsed)

(* tcp_client_reconnect, with the connection marked as conn beforehand and *)
(* the kernel's view of it being lk.                                       *)
ReconnectFrom(conn, lk) ==
    \/ /\ TooEarly
       /\ is_connected' = conn /\ link' = lk
       /\ UNCHANGED <<sock_fd, reconnect_retries, reconnect_delay, elapsed,
                      open_fds, unread, midreq, gaps>>
    \/ /\ ~TooEarly /\ reconnect_retries >= MaxRetries
       /\ elapsed' = 0
       /\ is_connected' = conn /\ link' = lk
       /\ UNCHANGED <<sock_fd, reconnect_retries, reconnect_delay,
                      open_fds, unread, midreq, gaps>>
    \/ /\ ~TooEarly /\ reconnect_retries < MaxRetries
       /\ elapsed' = 0
       /\ \/ Connected(Remaining) /\ gaps' = <<>>
          \/ /\ Refused(Remaining)
             /\ reconnect_retries' = reconnect_retries + 1
             /\ reconnect_delay' = Backoff(reconnect_retries + 1)
             /\ gaps' = Append(gaps, elapsed)

(* tcp_client_is_connected's recv(MSG_PEEK): data still in the queue hides *)
(* a closed or broken connection.                                          *)
PeekOk == link \in {"up", "gone"} \/ unread > 0

Alive == is_connected /\ sock_fd # NoFd /\ PeekOk

(* The first tcp_client_is_connected of a report.                          *)
Check ==
    /\ pc = "idle"
    /\ is_connected' = Alive
    /\ pc' = IF Alive THEN "recheck" ELSE "reconnect"
    /\ UNCHANGED <<sock_fd, reconnect_retries, reconnect_delay, elapsed,
                   kernel, relay, midreq, torn, gaps>>

Reconnect ==
    /\ pc = "reconnect" /\ pc' = "recheck"
    /\ ReconnectFrom(is_connected, link)
    /\ UNCHANGED <<relay, torn>>

(* The second tcp_client_is_connected.                                     *)
Recheck ==
    /\ pc = "recheck"
    /\ is_connected' = Alive
    /\ pc' = IF Alive THEN "send" ELSE "idle"
    /\ UNCHANGED <<sock_fd, reconnect_retries, reconnect_delay, elapsed,
                   kernel, relay, midreq, torn, gaps>>

(* tcp_client_send writes the whole request, counts it, and reads at most  *)
(* one chunk of what the relay answers within 200 ms.                      *)
SendAll ==
    /\ pc = "send" /\ pc' = "idle" /\ link # "reset"
    /\ unread' \in (IF unread > 0 THEN {unread - 1} ELSE {0})
                     \cup (IF link = "up" THEN {unread} ELSE {})
    /\ torn' = (torn \/ midreq) /\ midreq' = FALSE
    /\ UNCHANGED <<client, open_fds, link, relay, gaps>>

(* send() would block for 5 s, or fails otherwise, after k pieces: the     *)
(* call returns, the connection stays and nothing is counted.              *)
SendStalled ==
    /\ pc = "send" /\ pc' = "idle"
    /\ \E k \in 0 .. ReqUnits - 1 :
          /\ k > 0 => link # "reset"
          /\ torn' = (torn \/ (midreq /\ k > 0))
          /\ midreq' = (midreq \/ k > 0)
    /\ UNCHANGED <<client, kernel, relay, gaps>>

(* The request does not fit http_buf: EMSGSIZE, nothing is written.        *)
SendTooLong ==
    /\ pc = "send" /\ pc' = "idle"
    /\ UNCHANGED <<client, kernel, relay, midreq, torn, gaps>>

SendLostIgnored ==
    /\ pc = "send" /\ pc' = "idle" /\ link = "reset"
    /\ UNCHANGED <<client, kernel, relay, midreq, torn, gaps>>

(* The connection breaks after k pieces: the rest counts as lost and the   *)
(* client reconnects at once.                                              *)
SendLost ==
    /\ pc = "send" /\ pc' = "idle"
    /\ \E k \in 0 .. ReqUnits - 1 :
          /\ k > 0 => link # "reset"
          /\ torn' = (torn \/ (midreq /\ k > 0))
    /\ ReconnectFrom(FALSE, "reset")
    /\ UNCHANGED relay

(* Shutdown: tcp_client_cleanup.                                           *)
Cleanup ==
    /\ pc = "idle" /\ pc' = "closed"
    /\ open_fds' = Remaining /\ sock_fd' = NoFd /\ is_connected' = FALSE
    /\ link' = "none" /\ unread' = 0 /\ midreq' = FALSE
    /\ UNCHANGED <<reconnect_retries, reconnect_delay, elapsed, relay, torn, gaps>>

-----------------------------------------------------------------------------
(* The environment: time, the relay process, the peer and the network.     *)
Tick ==
    /\ elapsed < MaxDelay /\ elapsed' = elapsed + 1
    /\ UNCHANGED <<sock_fd, is_connected, reconnect_retries, reconnect_delay,
                   kernel, relay, pc, midreq, torn, gaps>>

RelayChange ==
    /\ relay' = IF relay = "up" THEN "down" ELSE "up"
    /\ UNCHANGED <<client, kernel, pc, midreq, torn, gaps>>

Respond ==
    /\ link = "up" /\ unread < MaxUnread /\ unread' = unread + 1
    /\ UNCHANGED <<client, open_fds, link, relay, pc, midreq, torn, gaps>>

\* the peer closes, or falls silent
LinkFault ==
    /\ link = "up" /\ link' \in {"fin", "gone"}
    /\ UNCHANGED <<client, open_fds, unread, relay, pc, midreq, torn, gaps>>

\* a reset arrives, or the kernel gives up on unacknowledged data
LinkReset ==
    /\ link \in {"up", "fin", "gone"} /\ link' = "reset"
    /\ UNCHANGED <<client, open_fds, unread, relay, pc, midreq, torn, gaps>>

Report == Start \/ Check \/ Reconnect \/ Recheck
            \/ SendAll \/ SendStalled \/ SendTooLong \/ SendLost

Next == Report \/ Cleanup \/ Tick \/ RelayChange \/ Respond \/ LinkFault \/ LinkReset

Spec == Init /\ [][Next]_vars

(* main goes round for ever: host metrics make a report every 30 s.  Time  *)
(* passes.  A peer that is closed or gone ends in a reset, because every   *)
(* report sends it data.  An oversized batch is not the only one for ever, *)
(* and neither is a stall on a broken connection.                          *)
Fairness ==
    /\ WF_vars(Report) /\ WF_vars(Tick)
    /\ WF_vars(link \in {"fin", "gone"} /\ LinkReset)
    /\ SF_vars(SendAll \/ SendLost)

FairSpec == Spec /\ Fairness

-----------------------------------------------------------------------------
(* The client holds exactly the descriptor it stores, on every path        *)
(* through connect, failed connect, lost connection, reconnect and         *)
(* clean-up; and it only calls itself connected when it has one.           *)
FdOwned ==
    /\ open_fds = {sock_fd} \ {NoFd}
    /\ is_connected => sock_fd # NoFd

(* reconnect_retries and reconnect_delay, which connect and reconnect both *)
(* write, always agree, and a connection is never up with a pending delay. *)
BackoffConsistent ==
    /\ reconnect_delay = Backoff(reconnect_retries)
    /\ is_connected => reconnect_retries = 0

(* The i-th attempt after a success comes no earlier than the schedule     *)
(* 1 s, 2 s, 4 s ... up to the maximum asks for, although attempts are     *)
(* started from two places.                                                *)
AttemptSpacing ==
    /\ Len(gaps) = reconnect_retries
    /\ \A i \in 1 .. Len(gaps) : gaps[i] >= Backoff(i - 1)

(* A connection that the peer closed, that vanished or that was reset is   *)
(* noticed, also when unread responses make the peek succeed.              *)
DeadLinkNoticed ==
    link \in {"fin", "gone", "reset"} ~> (~is_connected \/ link = "up")

(* Once the relay stays up, the client is connected again and again, or it *)
(* has used up its retries, or the probe has shut down.                    *)
ReconnectsOrGivesUp ==
    <>[](relay = "up")
        => []<>(is_connected \/ reconnect_retries = MaxRetries \/ pc = "closed")

(* What src/tcp_client.c:410 says the client writes: HTTP POST requests,   *)
(* one after the other.                                                    *)
RequestsWhole == ~torn
=============================================================================
