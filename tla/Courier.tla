------------------------------ MODULE Courier ------------------------------
(***************************************************************************)
(* What the C probe promises about a flow event: it is handed over once.   *)
(* Afterwards it is delivered or discarded, never both and never again,    *)
(* and the events of one report meet the same fate.                        *)
(***************************************************************************)
EXTENDS Integers

CONSTANT Limit \* bound on the events

VARIABLES
    offered,   \* events made so far: 1 .. offered
    waiting,   \* made, not reported yet
    delivered, \* written to the relay
    discarded  \* given up

vars == <<offered, waiting, delivered, discarded>>

Init == offered = 0 /\ waiting = {} /\ delivered = {} /\ discarded = {}

\* New events; those the tracker has no room for are discarded at once.
Offer ==
    /\ offered' \in offered + 1 .. Limit
    /\ waiting \subseteq waiting'
    /\ waiting' \subseteq waiting \cup (offered + 1 .. offered')
    /\ discarded' = discarded \cup ((offered + 1 .. offered') \ waiting')
    /\ UNCHANGED delivered

\* Events leave together, all to the relay or all to nowhere.
Deliver ==
    /\ waiting' \subseteq waiting
    /\ delivered' = delivered \cup (waiting \ waiting')
    /\ UNCHANGED <<offered, discarded>>

Discard ==
    /\ waiting' \subseteq waiting
    /\ discarded' = discarded \cup (waiting \ waiting')
    /\ UNCHANGED <<offered, delivered>>

Next == Offer \/ Deliver \/ Discard

Spec == Init /\ [][Next]_vars
=============================================================================
