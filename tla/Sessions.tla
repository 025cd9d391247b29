------------------------------ MODULE Sessions ------------------------------
(***************************************************************************)
(* geistd's session table (src/geistd.c).                                  *)
(*                                                                         *)
(* geistd serves one connection at a time and one request after the other. *)
(* Each session keeps a history, which geistd takes for what the engine's  *)
(* KV cache holds: prefill compares the requested context with the history *)
(* and appends, resets or refuses accordingly.  The engine is external: it *)
(* is modelled by the cache of each session, which its calls change, or    *)
(* leave alone when they fail.                                             *)
(***************************************************************************)
EXTENDS Naturals, Sequences

CONSTANTS
    NMax,         \* --sessions
    Tokens,       \* the vocabulary
    Requests,     \* token sequences that clients send
    CtxCap,       \* CTX_CAP
    IdleS,        \* --idle
    MaxId,        \* bound: no more sessions are opened
    MaxTime,      \* bound: the clock stops
    NeedHello,    \* GEISTD_TOKEN is required
    ResetMayFail, \* whether geist_session_reset can fail
    Absent        \* the context of an identifier that names no session

ASSUME SessionsAssumption ==
    /\ NMax \in Nat \ {0} /\ CtxCap \in Nat \ {0} /\ IdleS \in Nat
    /\ MaxId \in Nat /\ MaxTime \in Nat
    /\ Requests \subseteq Seq(Tokens) /\ Absent \notin Seq(Tokens)
    /\ NeedHello \in BOOLEAN /\ ResetMayFail \in BOOLEAN

Slots == 1..NMax
Ids   == 1..MaxId

VARIABLES
    table,        \* d->sess; an entry with id 0 is not live
    opened,       \* how many identifiers random_id has given out
    conn,         \* the connection being served: "none", "open", "authed"
    generating,   \* the slot a generate request is streaming from, or 0
    now,          \* the clock
    reply         \* the last prefill and whether it succeeded

vars == <<table, opened, conn, generating, now, reply>>

\* used: when the session was last named; pinned: geistd's and the engine's.
NoSession == [id |-> 0, hist |-> <<>>, pinned |-> 0, used |-> 0,
              kv |-> <<>>, enginePinned |-> 0]

Live(i)  == table[i].id # 0
First(n, s) == SubSeq(s, 1, n)
StartsWith(s, p) == Len(p) <= Len(s) /\ First(Len(p), s) = p

-----------------------------------------------------------------------------
(* The engine.                                                             *)

\* geist_session_reset truncates the cache to the pinned prefix.
Truncated(s) == [s EXCEPT !.kv = First(s.enginePinned, s.kv)]

\* A reset whose result is not looked at.
MaybeTruncated(s) == {Truncated(s)} \union (IF ResetMayFail THEN {s} ELSE {})

\* op_open gives a session max_seq_len = CTX_CAP.
Holds(s, n) == Len(s.kv) + n <= CtxCap

\* geist_session_prefill_tokens fails with part of the tokens in the cache.
PartlyFilled(s, tail) ==
    {[s EXCEPT !.kv = @ \o First(n, tail)] : n \in {k \in 0..Len(tail) : Holds(s, k)}}

-----------------------------------------------------------------------------
(* Connections.                                                            *)

Accept ==
    /\ conn = "none"
    /\ conn' = "open"
    /\ UNCHANGED <<table, opened, generating, now, reply>>

\* hello: a bad token closes the connection.
Hello ==
    /\ conn # "none" /\ generating = 0
    /\ conn' \in {"authed", "none"}
    /\ UNCHANGED <<table, opened, generating, now, reply>>

\* End of file, 30 seconds without a request, a malformed frame, or a request
\* before hello.
Hangup ==
    /\ conn # "none" /\ generating = 0
    /\ conn' = "none"
    /\ UNCHANGED <<table, opened, generating, now, reply>>

Tick ==
    /\ now < MaxTime
    /\ now' = now + 1
    /\ UNCHANGED <<table, opened, conn, generating, reply>>

-----------------------------------------------------------------------------
(* Requests.                                                               *)

\* A request is dispatched.
Serving == conn # "none" /\ generating = 0 /\ (NeedHello => conn = "authed")

\* A request that names a live session; sess_find notes the time.
Found(i) == Serving /\ Live(i)
Set(i, s) == table' = [table EXCEPT ![i] = [s EXCEPT !.used = now]]

\* peek, tokenize, str, info; a refused request on a live session.
Touch(i) ==
    /\ Found(i)
    /\ Set(i, table[i])
    /\ UNCHANGED <<opened, conn, generating, now, reply>>

\* sess_evict_idle.
Idle(i) == Live(i) /\ now - table[i].used > IdleS

\* sess_slot: a free slot, else the first of the least recently used.
LeastRecent(tab) ==
    CHOOSE i \in Slots :
        /\ \A j \in Slots : tab[i].used <= tab[j].used
        /\ \A j \in 1..i - 1 : tab[j].used > tab[i].used

Slot(tab) ==
    IF \E i \in Slots : tab[i].id = 0
    THEN CHOOSE i \in Slots : tab[i].id = 0 /\ \A j \in 1..i - 1 : tab[j].id # 0
    ELSE LeastRecent(tab)

\* Mutant: sess_slot takes the least recently opened session.
OpenOldest ==
    LET kept == [i \in Slots |-> IF Idle(i) THEN NoSession ELSE table[i]]
        slot == IF \E i \in Slots : kept[i].id = 0
                THEN CHOOSE i \in Slots : kept[i].id = 0
                ELSE CHOOSE i \in Slots : \A j \in Slots : kept[i].id <= kept[j].id
    IN  /\ Serving
        /\ opened < MaxId
        /\ opened' = opened + 1
        /\ table' = [kept EXCEPT ![slot] =
                       [NoSession EXCEPT !.id = opened + 1, !.used = now]]
        /\ UNCHANGED <<conn, generating, now, reply>>

\* open: idle sessions go, and the least recently used one if the table is
\* still full, whether or not the new session can be created.
Open ==
    LET kept == [i \in Slots |-> IF Idle(i) THEN NoSession ELSE table[i]]
        slot == Slot(kept)
    IN  /\ Serving
        /\ \/ /\ opened < MaxId
              /\ opened' = opened + 1
              /\ table' = [kept EXCEPT ![slot] =
                             [NoSession EXCEPT !.id = opened + 1, !.used = now]]
           \/ /\ table' = [kept EXCEPT ![slot] = NoSession]    \* create failed
              /\ UNCHANGED opened
        /\ UNCHANGED <<conn, generating, now, reply>>

\* close.
Close(i) ==
    /\ Found(i)
    /\ table' = [table EXCEPT ![i] = NoSession]
    /\ UNCHANGED <<opened, conn, generating, now, reply>>

Answered(i, ids, ok) == reply' = [id |-> table[i].id, ids |-> ids, ok |-> ok]

\* hist_push, which refuses in silence what does not fit.
Pushed(h, ids) == IF Len(h) + Len(ids) > CtxCap THEN h ELSE h \o ids

\* Mutant: a failed prefill is not followed by the history's reset.
FillKeepsHistory(i, s, ids) ==
    LET tail == SubSeq(ids, Len(s.hist) + 1, Len(ids))
    IN  \/ /\ Holds(s, Len(tail))
           /\ Set(i, [s EXCEPT !.kv = @ \o tail, !.hist = Pushed(@, tail)])
           /\ Answered(i, ids, TRUE)
        \/ /\ tail # <<>>
           /\ \E failed \in PartlyFilled(s, tail) : \E after \in MaybeTruncated(failed) :
                Set(i, after)
           /\ Answered(i, ids, FALSE)

\* The end of op_prefill: the engine appends what the history lacks, or fails
\* and the session is reset.
Fill(i, s, ids) ==
    LET tail == SubSeq(ids, Len(s.hist) + 1, Len(ids))
    IN  \/ /\ Holds(s, Len(tail))
           /\ Set(i, [s EXCEPT !.kv = @ \o tail, !.hist = Pushed(@, tail)])
           /\ Answered(i, ids, TRUE)
        \/ /\ tail # <<>>
           /\ \E failed \in PartlyFilled(s, tail) : \E after \in MaybeTruncated(failed) :
                Set(i, [after EXCEPT !.hist = First(s.pinned, @)])
           /\ Answered(i, ids, FALSE)

\* prefill, where the history is a proper prefix of the request.
PrefillTail(i, ids) ==
    /\ table[i].hist # <<>> /\ StartsWith(ids, table[i].hist) /\ ids # table[i].hist
    /\ Fill(i, table[i], ids)

\* prefill, where they are the same.
PrefillSame(i, ids) ==
    /\ ids = table[i].hist
    /\ Set(i, table[i])
    /\ Answered(i, ids, TRUE)

\* Mutant: the pinned prefix is not compared.
PrefillAnew(i, ids) ==
    LET s == table[i]
    IN  /\ s.hist = <<>> \/ ~StartsWith(ids, s.hist)
        /\ Len(ids) >= s.pinned
        /\ \/ Fill(i, [Truncated(s) EXCEPT !.hist = First(s.pinned, @)], ids)
           \/ ResetMayFail /\ Set(i, s) /\ Answered(i, ids, FALSE)

\* prefill, where they differ after the pinned prefix: the session is reset.
PrefillDiverged(i, ids) ==
    LET s == table[i]
    IN  /\ s.hist = <<>> \/ ~StartsWith(ids, s.hist)
        /\ StartsWith(ids, First(s.pinned, s.hist))
        /\ \/ Fill(i, [Truncated(s) EXCEPT !.hist = First(s.pinned, @)], ids)
           \/ ResetMayFail /\ Set(i, s) /\ Answered(i, ids, FALSE)

Prefill(i, ids) ==
    /\ Found(i)
    /\ Len(ids) \in 1..CtxCap - 1
    /\ PrefillTail(i, ids) \/ PrefillSame(i, ids) \/ PrefillDiverged(i, ids)
    /\ UNCHANGED <<opened, conn, generating, now>>

\* step, and each token of generate: the engine decodes one more token.
Decoded(s, t) == [s EXCEPT !.kv = Append(@, t), !.hist = Pushed(@, <<t>>)]

\* Mutant: one token more.
HasRoomForAll(s) == s.hist # <<>> /\ Len(s.hist) < CtxCap

\* CTX_CAP - 1 is the longest context.
HasRoom(s) == s.hist # <<>> /\ Len(s.hist) < CtxCap - 1

Step(i, t) ==
    /\ Found(i) /\ HasRoom(table[i]) /\ Holds(table[i], 1)
    /\ Set(i, Decoded(table[i], t))
    /\ UNCHANGED <<opened, conn, generating, now, reply>>

Generate(i) ==
    /\ Found(i) /\ table[i].hist # <<>>
    /\ Set(i, table[i])
    /\ generating' = i
    /\ UNCHANGED <<opened, conn, now, reply>>

GenerateToken(t) ==
    /\ generating # 0 /\ HasRoom(table[generating]) /\ Holds(table[generating], 1)
    /\ table' = [table EXCEPT ![generating] = Decoded(@, t)]
    /\ UNCHANGED <<opened, conn, generating, now, reply>>

\* max, a stop token or string, the end of the context, a failed decode; or
\* the client has gone and takes the connection with it.
GenerateEnd ==
    /\ generating # 0
    /\ generating' = 0
    /\ conn' \in {conn, "none"}
    /\ UNCHANGED <<table, opened, now, reply>>

\* reset, whatever the engine answers.
Reset(i) ==
    /\ Found(i)
    /\ \E s \in MaybeTruncated(table[i]) : Set(i, [s EXCEPT !.hist = First(s.pinned, @)])
    /\ UNCHANGED <<opened, conn, generating, now, reply>>

\* pin: geist_session_pin_prefix truncates to the prefix at once.
Pin(i, n) ==
    /\ Found(i)
    /\ table[i].pinned = 0 /\ n \in 1..Len(table[i].hist)
    /\ Set(i, [table[i] EXCEPT !.kv = First(n, @), !.enginePinned = n,
                               !.hist = First(n, @), !.pinned = n])
    /\ UNCHANGED <<opened, conn, generating, now, reply>>

\* unpin clears the cache and the history.
Unpin(i) ==
    /\ Found(i)
    /\ Set(i, [table[i] EXCEPT !.kv = <<>>, !.enginePinned = 0, !.hist = <<>>, !.pinned = 0])
    /\ UNCHANGED <<opened, conn, generating, now, reply>>

-----------------------------------------------------------------------------
Init ==
    /\ table = [i \in Slots |-> NoSession]
    /\ opened = 0 /\ conn = "none" /\ generating = 0 /\ now = 0
    /\ reply = [id |-> 0, ids |-> <<>>, ok |-> FALSE]

Next ==
    \/ Accept \/ Hello \/ Hangup \/ Tick \/ Open \/ GenerateEnd
    \/ \E i \in Slots :
         \/ Touch(i) \/ Close(i) \/ Generate(i) \/ Reset(i) \/ Unpin(i)
         \/ \E ids \in Requests : Prefill(i, ids)
         \/ \E n \in 1..CtxCap : Pin(i, n)
         \/ \E t \in Tokens : Step(i, t)
    \/ \E t \in Tokens : GenerateToken(t)

Spec == Init /\ [][Next]_vars

-----------------------------------------------------------------------------
(* Properties.                                                             *)

\* struct sess, "what the KV cache holds, in order": prefill, step, pin, unpin
\* and failures keep geistd's history and the engine's cache the same, and both
\* agree on what is pinned.
HistoryIsCache ==
    \A i \in Slots :
        table[i].hist = table[i].kv /\ table[i].pinned = table[i].enginePinned

\* A context never reaches CTX_CAP, so that hist_push refuses nothing.
Fits ==
    \A i \in Slots :
        Len(table[i].hist) < CtxCap /\ table[i].pinned <= Len(table[i].hist)

\* docs/GEISTD.md: eviction takes the least recently used: an open that leaves a
\* session leaves those used after it.
RecentSurvive ==
    [][opened' # opened =>
         \A i, j \in Slots :
             /\ Live(i) /\ Live(j) /\ table[i].used < table[j].used
             /\ table'[i].id = table[i].id
             => table'[j].id = table[j].id]_vars

\* What the clients see: the context that an identifier names.
context ==
    [id \in Ids |-> IF \E i \in Slots : table[i].id = id
                     THEN table[CHOOSE i \in Slots : table[i].id = id].kv
                     ELSE Absent]

Promise == INSTANCE Contexts WITH context <- context, reply <- reply

\* The table keeps the promise of Contexts.
KeepsPromise == Promise!Spec
=============================================================================
