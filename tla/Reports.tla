------------------------------ MODULE Reports ------------------------------
(***************************************************************************)
(* What the memory that geistd shares promises geist-app: reports that are *)
(* made one after the other, and snapshots that are taken in one moment.   *)
(* A snapshot shows every report of its kind made so far and nothing else, *)
(* and the model is called ready only by a snapshot of the whole start.    *)
(***************************************************************************)
EXTENDS Naturals

CONSTANTS
    NPhases,    \* how many phases a start has
    NFields     \* the words of a sample

VARIABLES
    made,       \* how many phases and how many samples geistd has reported
    shown,      \* the words of geist-app's last snapshot of each kind
    ready       \* geist-app calls the model ready

Kinds == {"phase", "memory"}
Width(kind) == IF kind = "phase" THEN NPhases + 2 ELSE NFields

\* The process, its start and n phases, or the n-th sample.
Words(kind, n) ==
    IF kind = "phase" THEN [k \in 1..NPhases + 2 |-> IF k <= n + 2 THEN 1 ELSE 0]
                      ELSE [k \in 1..NFields |-> n]

Init ==
    /\ made = [kind \in Kinds |-> 0]
    /\ shown = [kind \in Kinds |-> [k \in 1..Width(kind) |-> 0]]
    /\ ready = FALSE

\* The start is reported before the model is ready, the first phase before any
\* sample.
Report(kind) ==
    /\ IF kind = "phase" THEN made["phase"] < NPhases /\ ~ready ELSE made["phase"] > 0
    /\ made' = [made EXCEPT ![kind] = @ + 1]
    /\ UNCHANGED <<shown, ready>>

\* There is no snapshot of samples before the first.
Snapshot(kind) ==
    /\ kind = "memory" => made["memory"] > 0
    /\ shown' = [shown EXCEPT ![kind] = Words(kind, made[kind])]
    /\ \/ UNCHANGED ready
       \/ kind = "phase" /\ made["phase"] = NPhases /\ ready' = TRUE
    /\ UNCHANGED made

\* A geistd that reports nothing is ready without a snapshot.
Silent ==
    /\ made["phase"] = 0
    /\ ready' = TRUE
    /\ UNCHANGED <<made, shown>>

Next == Silent \/ \E kind \in Kinds : Report(kind) \/ Snapshot(kind)

Spec == Init /\ [][Next]_<<made, shown, ready>>
=============================================================================
