---------------------------- MODULE ModelService ----------------------------
(***************************************************************************)
(* What geist-app promises about its model: there is one child in memory   *)
(* at most, and one request to it at most.  A request is answered by the   *)
(* child it was sent to, while that child is in memory; a child on which   *)
(* it was abandoned never serves another.                                  *)
(***************************************************************************)
EXTENDS Naturals

VARIABLES
    resident,   \* the child in memory, 0 for none
    spawned,    \* how many children there have been; a child is its number
    request,    \* the state of the open request, or "none"
    partner,    \* the child it was sent to, while it may be answered; else 0
    spoiled,    \* the children on which a request was abandoned
    closing     \* the app is shutting down

vars == <<resident, spawned, request, partner, spoiled, closing>>

Init ==
    /\ resident = 0 /\ spawned = 0
    /\ request = "none" /\ partner = 0
    /\ spoiled = {} /\ closing = FALSE

\* A child is started, after the one before it is gone.
Spawn ==
    /\ resident = 0
    /\ spawned' = spawned + 1
    /\ resident' = spawned + 1
    /\ UNCHANGED <<request, partner, spoiled, closing>>

\* It is stopped, or crashes.
Vanish ==
    /\ resident # 0
    /\ resident' = 0
    /\ UNCHANGED <<spawned, request, partner, spoiled, closing>>

\* A request is decided on, which the app may begin to shut down after.
Decide ==
    /\ request = "none" /\ ~closing
    /\ request' = "due"
    /\ UNCHANGED <<resident, spawned, partner, spoiled, closing>>

Admit ==
    /\ request = "due" \/ (request = "none" /\ ~closing)
    /\ request' = "admitted"
    /\ UNCHANGED <<resident, spawned, partner, spoiled, closing>>

\* The request reaches the child, which no abandoned request has touched.
Connect ==
    /\ request = "admitted"
    /\ resident # 0 /\ resident \notin spoiled
    /\ request' = "talk"
    /\ partner' = resident
    /\ UNCHANGED <<resident, spawned, spoiled, closing>>

\* There is none.
Fail ==
    /\ request = "admitted" /\ resident = 0
    /\ request' = "abandoned"
    /\ UNCHANGED <<resident, spawned, partner, spoiled, closing>>

Answer ==
    /\ request = "talk" /\ partner = resident
    /\ request' = "answered"
    /\ UNCHANGED <<resident, spawned, partner, spoiled, closing>>

\* Cancelled, timed out, or failed by the child.
Abandon ==
    /\ request \in {"talk", "answered"}
    /\ request' = "abandoned"
    /\ spoiled' = spoiled \union {partner}
    /\ partner' = 0
    /\ UNCHANGED <<resident, spawned, closing>>

\* An abandoned request ends when the child it spoiled is gone, unless the app
\* is shutting down.
End ==
    /\ \/ request = "answered"
       \/ request = "abandoned" /\ (closing \/ resident \notin spoiled)
    /\ request' = "none"
    /\ partner' = 0
    /\ UNCHANGED <<resident, spawned, spoiled, closing>>

Close ==
    /\ closing' = TRUE
    /\ UNCHANGED <<resident, spawned, request, partner, spoiled>>

Next ==
    \/ Spawn \/ Vanish
    \/ Decide \/ Admit \/ Connect \/ Fail \/ Answer \/ Abandon \/ End
    \/ Close

Spec == Init /\ [][Next]_vars
=============================================================================
