------------------------------ MODULE Contexts ------------------------------
(***************************************************************************)
(* What geistd promises a client that opens sessions: an identifier names  *)
(* one context, which is exactly what the client's last successful prefill *)
(* asked for, extended by the tokens decoded since.  A context is cut back *)
(* only by an operation on it, and goes only when it is closed or evicted. *)
(***************************************************************************)
EXTENDS Naturals, Sequences

CONSTANTS
    Ids,        \* session identifiers
    Tokens,     \* the vocabulary
    Requests,   \* the token sequences that prefills ask for
    Absent      \* not a context: the identifier names no session

VARIABLES
    context,    \* the context of each identifier
    reply       \* the last prefill and whether it succeeded

Prefixes(c) == {SubSeq(c, 1, n) : n \in 0..Len(c)}

Init ==
    /\ context = [id \in Ids |-> Absent]
    /\ reply = [id |-> 0, ids |-> <<>>, ok |-> FALSE]

\* A session is opened or not; others may be evicted for it.
Open ==
    /\ \E gone \in SUBSET Ids : \E new \in SUBSET {id \in Ids : context[id] = Absent} :
         /\ \A id, other \in new : id = other
         /\ context' = [id \in Ids |-> IF id \in gone THEN Absent
                                       ELSE IF id \in new THEN <<>> ELSE context[id]]
    /\ UNCHANGED reply

\* A prefill makes the context what it asks for, whatever it was; one that
\* fails leaves a prefix of it.
Prefill(id, ids) ==
    /\ context[id] # Absent
    /\ \/ /\ context' = [context EXCEPT ![id] = ids]
          /\ reply' = [id |-> id, ids |-> ids, ok |-> TRUE]
       \/ /\ \E kept \in Prefixes(context[id]) : context' = [context EXCEPT ![id] = kept]
          /\ reply' = [id |-> id, ids |-> ids, ok |-> FALSE]

\* step, and each token of generate.
Decode(id, t) ==
    /\ context[id] # Absent
    /\ context' = [context EXCEPT ![id] = Append(@, t)]
    /\ UNCHANGED reply

\* reset, pin and unpin.
Cut(id) ==
    /\ context[id] # Absent
    /\ \E kept \in Prefixes(context[id]) : context' = [context EXCEPT ![id] = kept]
    /\ UNCHANGED reply

Close(id) ==
    /\ context[id] # Absent
    /\ context' = [context EXCEPT ![id] = Absent]
    /\ UNCHANGED reply

Next ==
    \/ Open
    \/ \E id \in Ids :
         \/ Cut(id) \/ Close(id)
         \/ \E ids \in Requests : Prefill(id, ids)
         \/ \E t \in Tokens : Decode(id, t)

Spec == Init /\ [][Next]_<<context, reply>>
=============================================================================
