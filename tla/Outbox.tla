------------------------------- MODULE Outbox -------------------------------
(***************************************************************************)
(* What the edge client promises its callers: an accepted event is held    *)
(* until the edge server has confirmed it, and leaves the outbox           *)
(* unconfirmed only by a declared drop or when the process exits.  Events  *)
(* are numbered in the order they are accepted.                            *)
(***************************************************************************)
EXTENDS Integers

CONSTANT Limit  \* bound on the number of events accepted

VARIABLES
    accepted,  \* number of events accepted so far
    held,      \* events the client still answers for
    received,  \* events the server stored
    acked,     \* events the server confirmed
    open       \* the process is alive

vars == <<accepted, held, received, acked, open>>

Init ==
    /\ accepted = 0
    /\ held = {} /\ received = {} /\ acked = {}
    /\ open = TRUE

Accept(n) ==
    /\ open /\ accepted + n <= Limit
    /\ accepted' = accepted + n
    /\ held' = held \cup (accepted + 1) .. (accepted + n)
    /\ UNCHANGED <<received, acked, open>>

\* The server may store an event the client goes on holding.
Store(S) ==
    /\ open /\ S # {}
    /\ received' = received \cup S
    /\ UNCHANGED <<accepted, held, acked, open>>

Confirm(S) ==
    /\ open /\ S # {} /\ S \subseteq received
    /\ held' = held \ S
    /\ acked' = acked \cup S
    /\ UNCHANGED <<accepted, received, open>>

Drop(S) ==
    /\ open /\ S # {}
    /\ held' = held \ S
    /\ UNCHANGED <<accepted, received, acked, open>>

Exit ==
    /\ open /\ open' = FALSE
    /\ UNCHANGED <<accepted, held, received, acked>>

Next ==
    \/ \E n \in 1 .. Limit : Accept(n)
    \/ \E S \in SUBSET held : Store(S) \/ Confirm(S) \/ Drop(S)
    \/ Exit

Spec == Init /\ [][Next]_vars
=============================================================================
