------------------------------ MODULE History ------------------------------
(***************************************************************************)
(* What the performance history promises its user, whatever files, queues  *)
(* and copies it consists of: a record enters it once, when its request    *)
(* ends, unless it was deleted or excluded before; it may be lost at any   *)
(* moment, by a bound, an age, a failure or a crash, and then never        *)
(* returns; and a deletion that is acknowledged leaves nothing.            *)
(***************************************************************************)
EXTENDS Naturals

VARIABLES
    held,       \* the records that are anywhere
    barred,     \* those that may not be
    open,       \* the request in flight: the number of its record, or 0
    last,       \* the number of the last record
    deleted     \* a deletion was acknowledged, and is remembered

vars == <<held, barred, open, last, deleted>>

Init == held = {} /\ barred = {} /\ open = 0 /\ last = 0 /\ deleted = FALSE

\* A request begins; its record is barred at once if the history is off.
Begin ==
    /\ open = 0
    /\ last' = last + 1 /\ open' = last + 1
    /\ barred' \in {barred, barred \union {last + 1}}
    /\ UNCHANGED <<held, deleted>>

\* Its record enters, and others may make room for it.
Enter ==
    /\ open # 0 /\ open \notin barred
    /\ held' \subseteq held \union {open} /\ open' = 0
    /\ UNCHANGED <<barred, last, deleted>>

\* The old measurement enters, unless the user deleted it.
Import ==
    /\ open = 0 /\ ~deleted
    /\ last' = last + 1
    /\ held' \subseteq held \union {last + 1}
    /\ UNCHANGED <<barred, open, deleted>>

\* Records are lost, or a request ends without one.
Lose ==
    /\ held' \subseteq held /\ open' \in {open, 0}
    /\ UNCHANGED <<barred, last, deleted>>

\* The user turns the history off while a request runs.
Exclude ==
    /\ open # 0
    /\ held' \subseteq held
    /\ barred' = barred \union {open}
    /\ UNCHANGED <<open, last, deleted>>

\* The user's deletion is acknowledged; a request that runs is part of it.
Clear ==
    /\ held' = {} /\ barred' = 1..last /\ deleted' = TRUE
    /\ UNCHANGED <<open, last>>

\* Between two requests a start does not find that there was a deletion; a later
\* one may find it again.
Recall ==
    /\ open = 0
    /\ deleted' = ~deleted
    /\ UNCHANGED <<held, barred, open, last>>

Next == Begin \/ Enter \/ Import \/ Lose \/ Exclude \/ Clear \/ Recall

Spec == Init /\ [][Next]_vars
=============================================================================
