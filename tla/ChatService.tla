---------------------------- MODULE ChatService ----------------------------
(***************************************************************************)
(* What the chat of geist-app promises: a service without memory.  One     *)
(* request is open at a time; at most one answer is generated for it, from *)
(* its own messages and options and nothing else.                          *)
(***************************************************************************)
CONSTANTS
    Requests,   \* the requests a client may make
    None        \* no request

VARIABLES
    asked,      \* the open request, or None
    used        \* what an answer is being generated from, or None

vars == <<asked, used>>

Init == asked = None /\ used = None

\* A client's request is admitted.
Ask == asked = None /\ asked' \in Requests /\ UNCHANGED used

\* The model begins to answer it.
Answer == asked # None /\ used = None /\ used' = asked /\ UNCHANGED asked

\* The request ends, answered or not.
End == asked # None /\ asked' = None /\ used' = None

Next == Ask \/ Answer \/ End

Spec == Init /\ [][Next]_vars

=============================================================================
