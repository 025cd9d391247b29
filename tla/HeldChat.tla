----------------------------- MODULE HeldChat ------------------------------
(***************************************************************************)
(* One conversation kept in two processes.  A chat request carries all its *)
(* messages; geistd keeps the conversation and its cache between requests. *)
(* geist-app (daemon.c) remembers in `held' what the chat in geistd should *)
(* contain, rewinds it to the common start and sends only the rest.        *)
(* geistd keeps NChats chats for all its clients, evicts the least         *)
(* recently used and may die at any time.  A request that fails after it   *)
(* reached geistd ends with geistd restarted (observe.c).                  *)
(*                                                                         *)
(* A message is a role and a text; the conversation of geist-runtime is    *)
(* external, the sequence of messages that it has been sent or has said.   *)
(***************************************************************************)
EXTENDS Naturals, Sequences

CONSTANTS
    Messages,       \* the messages of a client, and of the model
    Options,        \* temperature, top_p and reasoning format
    MaxMessages,    \* APP_CHAT_MESSAGES
    NChats,         \* geistd --chats
    MaxIds,         \* bound: chats opened, by anybody
    MaxStarts,      \* bound: starts of geistd
    MaxTime         \* bound: seconds of geistd's clock

ASSUME ChatAssumption ==
    /\ {MaxMessages, NChats, MaxIds, MaxStarts} \subseteq Nat \ {0}
    /\ MaxTime \in Nat

VARIABLES
    pc,         \* where app_daemon_chat is; "idle" without a request
    request,    \* the request's messages and options
    attempt,    \* of its two attempts
    keep,       \* how many of its messages the chat already holds
    rc,         \* how it ended: "ok"; "refused" (400, 422); "failed" (498 .. 504);
                \* "lost", the chat was unknown twice (502)
    held,       \* the chat the app holds: id, 0 for none; socket, options, messages
    ready,      \* app.child.ready
    socket,     \* app.child.socket_path, a new one at every start
    alive,      \* geistd runs
    chats,      \* its slots; id 0 for a free one
    ids, now,   \* identifiers given; geistd's clock, in seconds
    from,       \* what the answer is being generated from, or None
    evictions   \* of the held chat, since the request began

app  == <<pc, request, attempt, keep, rc, held>>
proc == <<ready, socket, alive>>
vars == <<pc, request, attempt, keep, rc, held, ready, socket, alive, chats, ids, now,
          from, evictions>>

Slots == 1..NChats
Texts == UNION {[1..n -> Messages] : n \in 0..MaxMessages + 1}

\* 1 to APP_CHAT_MESSAGES messages.
Requests == [messages : UNION {[1..n -> Messages] : n \in 1..MaxMessages}, options : Options]
None     == [messages |-> <<>>, options |-> "none"]
Service  == INSTANCE ChatService WITH asked <- request, used <- from

Free   == [id |-> 0, options |-> "none", messages |-> <<>>, used |-> 0]
NoHeld == [id |-> 0, socket |-> 0, options |-> "none", messages |-> <<>>]

\* What a request is left with when it fails after or before an effect.
Fails(outcome) == rc' = outcome /\ pc' = "end"

-----------------------------------------------------------------------------
(* geistd.                                                                 *)

\* chat_find.
Found(id) == {s \in Slots : alive /\ id # 0 /\ chats[s].id = id}

\* chat_free, of what chat_close finds.
Closed(id) == [s \in Slots |-> IF s \in Found(id) THEN Free ELSE chats[s]]

\* The slot of op_chat_open: the first free one, or the first of the least recently used.
Victim(table, s) ==
    LET free == {t \in Slots : table[t].id = 0} IN
    IF free # {}
    THEN s \in free /\ \A t \in free : s <= t
    ELSE \A t \in Slots : \/ table[s].used < table[t].used
                          \/ table[s].used = table[t].used /\ s <= t

New(options) == [id |-> ids + 1, options |-> options, messages |-> <<>>, used |-> now]

\* op_chat_open, from a table in which the caller may have closed a chat; the
\* runtime may refuse the chat when its slot is already free.
Opened(table, chat) ==
    /\ alive /\ ids < MaxIds
    /\ ids' = IF chat = Free THEN ids ELSE chat.id
    /\ \E s \in Slots :
         /\ Victim(table, s)
         /\ chats' = [table EXCEPT ![s] = chat]
         /\ evictions' = IF held.id # 0 /\ table[s].id = held.id THEN evictions + 1
                                                                 ELSE evictions

\* Another client of geistd opens a chat; geistd serves one connection at a time.
OtherOpens ==
    /\ pc # "wait"
    /\ \E chat \in {New(o) : o \in Options} \union {Free} : Opened(chats, chat)
    /\ UNCHANGED <<app, proc, now, from>>

Tick ==
    /\ now < MaxTime /\ now' = now + 1
    /\ UNCHANGED <<app, proc, chats, ids, from, evictions>>

\* geistd dies; the monitor notices (poll_child).
Crash ==
    /\ alive /\ alive' = FALSE
    /\ chats' = [s \in Slots |-> Free]
    /\ UNCHANGED <<app, ready, socket, ids, now, from, evictions>>

Notice ==
    /\ ready /\ ~alive /\ ready' = FALSE
    /\ UNCHANGED <<app, socket, alive, chats, ids, now, from, evictions>>

\* A new geistd has no chats, and its socket a directory of its own.
Starts ==
    /\ socket < MaxStarts
    /\ socket' = socket + 1 /\ alive' = TRUE /\ ready' = TRUE
    /\ chats' = [s \in Slots |-> Free]

\* The user loads a model, which needs no request to be running.
Load ==
    /\ pc = "idle" /\ Starts
    /\ UNCHANGED <<app, ids, now, from, evictions>>

-----------------------------------------------------------------------------
(* app_daemon_chat.                                                        *)

Ask ==
    /\ pc = "idle" /\ ready
    /\ request' \in Requests
    /\ pc' = "info" /\ attempt' = 1 /\ evictions' = 0
    /\ UNCHANGED <<keep, rc, held, proc, chats, ids, now, from>>

\* geistd_info: no answer, or one that rules the request out.
Info ==
    /\ pc = "info"
    /\ \/ alive /\ pc' = "fit" /\ UNCHANGED rc
       \/ Fails("failed")
       \/ alive /\ Fails("refused")
    /\ UNCHANGED <<request, attempt, keep, held, proc, chats, ids, now, from, evictions>>

\* The held chat fits when the daemon and the options are the same.
Fits == held.id # 0 /\ held.socket = socket /\ held.options = request.options

UseHeld ==
    /\ pc = "fit" /\ Fits
    /\ pc' = "rewind"
    /\ UNCHANGED <<request, attempt, keep, rc, held, proc, chats, ids, now, from, evictions>>

\* The held chat is closed, whatever comes of it, and another opened; the
\* answer may not arrive.
Open ==
    /\ pc = "fit" /\ ~Fits
    /\ \E table \in {chats} \union (IF held.socket = socket THEN {Closed(held.id)} ELSE {}) :
         \/ /\ Opened(table, New(request.options))
            /\ held' = [id |-> ids + 1, socket |-> socket,
                        options |-> request.options, messages |-> <<>>]
            /\ pc' = "rewind" /\ UNCHANGED rc
         \/ /\ \/ \E chat \in {New(request.options), Free} : Opened(table, chat)
               \/ chats' = table /\ UNCHANGED <<ids, evictions>>
            /\ held' = [held EXCEPT !.id = 0, !.messages = <<>>]
            /\ Fails("failed")
    /\ UNCHANGED <<request, attempt, keep, proc, now, from>>

\* Mutant: the search for the common start ends one message early.
ShortOfCommon(k) ==
    /\ k <= Len(held.messages) /\ k < Len(request.messages)
    /\ SubSeq(held.messages, 1, k) = SubSeq(request.messages, 1, k)
    /\ k < Len(held.messages) /\ k + 2 < Len(request.messages) =>
       held.messages[k + 1] # request.messages[k + 1]

\* k messages are the common start; at least the last message is sent.
Common(k) ==
    /\ k <= Len(held.messages) /\ k < Len(request.messages)
    /\ SubSeq(held.messages, 1, k) = SubSeq(request.messages, 1, k)
    /\ k < Len(held.messages) /\ k + 1 < Len(request.messages) =>
       held.messages[k + 1] # request.messages[k + 1]

\* Mutant: the unknown chat is tried again.
UnknownKept ==
    /\ UNCHANGED held
    /\ IF attempt = 1 THEN attempt' = 2 /\ pc' = "fit" /\ UNCHANGED rc
                      ELSE Fails("lost") /\ UNCHANGED attempt

\* "unknown chat": geistd restarted or evicted it.
Unknown ==
    /\ held' = [held EXCEPT !.id = 0]
    /\ IF attempt = 1 THEN attempt' = 2 /\ pc' = "fit" /\ UNCHANGED rc
                      ELSE Fails("lost") /\ UNCHANGED attempt

\* chat_rewind of the chat found, and its last use.
Rewound(n) == [s \in Slots |->
    IF s \in Found(held.id)
    THEN [chats[s] EXCEPT !.messages = SubSeq(@, 1, n), !.used = now] ELSE chats[s]]

\* Mutant: the app does not shorten what it remembers.
RewindKeepsHeld ==
    /\ pc = "rewind"
    /\ \E k \in 0..MaxMessages :
         /\ Common(k) /\ keep' = k
         /\ pc' = "send" /\ chats' = Rewound(k)
    /\ UNCHANGED <<request, attempt, rc, held, proc, ids, now, from, evictions>>

\* The chat is rewound to the common start if it holds more, then the app's
\* memory of it.  geistd refuses to rewind a chat past its length.
Rewind ==
    /\ pc = "rewind"
    /\ \E k \in 0..MaxMessages :
         /\ Common(k) /\ keep' = k
         /\ \/ /\ k = Len(held.messages)
               /\ pc' = "send" /\ UNCHANGED <<chats, held, attempt, rc>>
            \/ /\ k < Len(held.messages)
               /\ \A s \in Found(held.id) : k <= Len(chats[s].messages)
               /\ Found(held.id) # {}
               /\ chats' = Rewound(k)
               /\ \/ /\ held' = [held EXCEPT !.messages = SubSeq(@, 1, k)]
                     /\ pc' = "send" /\ UNCHANGED <<attempt, rc>>
                  \/ Fails("failed") /\ UNCHANGED <<held, attempt>>
            \/ /\ k < Len(held.messages)
               /\ Fails("failed") /\ UNCHANGED <<chats, held, attempt>>
            \/ /\ k < Len(held.messages) /\ alive /\ Found(held.id) = {}
               /\ Unknown /\ UNCHANGED chats
    /\ UNCHANGED <<request, proc, ids, now, from, evictions>>

Rest == SubSeq(request.messages, keep + 1, Len(request.messages))

\* The chat after it was sent the rest of the request.
Sent(table) == [s \in Slots |->
    IF s \in Found(held.id)
    THEN [table[s] EXCEPT !.messages = @ \o Rest, !.used = now] ELSE table[s]]

\* op_chat_send up to the end of the input; a conversation that does not fit
\* leaves the chat as it is.
Send ==
    /\ pc = "send"
    /\ \/ /\ Found(held.id) # {}
          /\ chats' = Sent(chats)
          /\ \E s \in Found(held.id) :
               from' = [messages |-> chats'[s].messages, options |-> chats[s].options]
          /\ pc' = "wait" /\ UNCHANGED <<rc, held, attempt>>
       \/ /\ Found(held.id) # {}
          /\ Fails("refused") /\ UNCHANGED <<chats, from, held, attempt>>
       \/ Fails("failed") /\ UNCHANGED <<chats, from, held, attempt>>
       \/ alive /\ Found(held.id) = {} /\ Unknown /\ UNCHANGED <<chats, from>>
    /\ UNCHANGED <<request, keep, proc, ids, now, evictions>>

\* What the model said is part of the chat.
Said(text) == [s \in Slots |->
    IF s \in Found(held.id) THEN [chats[s] EXCEPT !.messages = Append(@, text)] ELSE chats[s]]

\* held_push of the request and the answer, which may run out of memory.
Push(text) ==
    \/ held' = [held EXCEPT !.messages = @ \o Append(Rest, text)]
    \/ held' = [held EXCEPT !.id = 0]

\* The answer ends.
Answered ==
    /\ pc = "wait" /\ alive
    /\ \E text \in Messages : chats' = Said(text) /\ Push(text)
    /\ rc' \in {"ok", "refused", "failed"} /\ pc' = "end"
    /\ UNCHANGED <<request, attempt, keep, proc, ids, now, from, evictions>>

\* The client does not take it all, and holds less than was said.
ClientLeft ==
    /\ pc = "wait" /\ alive
    /\ \E said, taken \in Messages : chats' = Said(said) /\ Push(taken)
    /\ Fails("failed")
    /\ UNCHANGED <<request, attempt, keep, proc, ids, now, from, evictions>>

\* Cancelled, timed out, or broken on the way.
Broken ==
    /\ pc = "wait"
    /\ \/ UNCHANGED chats
       \/ \E said \in Messages : chats' = Said(said)
    /\ Fails("failed")
    /\ UNCHANGED <<request, attempt, keep, held, proc, ids, now, from, evictions>>

-----------------------------------------------------------------------------
(* observation_end.                                                        *)

Over == pc' = "idle" /\ request' = None /\ from' = None /\ rc' = "ok"

\* Mutant: geistd goes on after a request that failed.
EndKeepsChild ==
    /\ pc = "end" /\ Over
    /\ UNCHANGED <<attempt, keep, held, proc, chats, ids, now, evictions>>

\* After 498, 499, 502 and 504 geistd is stopped and, if it can be, started.
End ==
    /\ pc = "end" /\ Over
    /\ IF rc \in {"ok", "refused"}
       THEN UNCHANGED <<proc, chats>>
       ELSE \/ Starts
            \/ /\ alive' = FALSE /\ ready' = FALSE /\ UNCHANGED socket
               /\ chats' = [s \in Slots |-> Free]
    /\ UNCHANGED <<attempt, keep, held, ids, now, evictions>>

Init ==
    /\ pc = "idle" /\ request = None /\ attempt = 1 /\ keep = 0 /\ rc = "ok"
    /\ held = NoHeld /\ ready = FALSE /\ socket = 0 /\ alive = FALSE
    /\ chats = [s \in Slots |-> Free] /\ ids = 0 /\ now = 0
    /\ from = None /\ evictions = 0

Next ==
    \/ OtherOpens \/ Tick \/ Crash \/ Notice \/ Load
    \/ Ask \/ Info \/ UseHeld \/ Open \/ Rewind \/ Send
    \/ Answered \/ ClientLeft \/ Broken \/ End

Spec == Init /\ [][Next]_vars

-----------------------------------------------------------------------------
(* Properties.                                                             *)

TypeOK ==
    /\ pc \in {"idle", "info", "fit", "rewind", "send", "wait", "end"}
    /\ request \in Requests \union {None} /\ attempt \in {1, 2} /\ keep \in 0..MaxMessages
    /\ rc \in {"ok", "refused", "failed", "lost"}
    /\ held.id \in 0..MaxIds /\ held.messages \in Texts
    /\ {ready, alive} \subseteq BOOLEAN /\ socket \in 0..MaxStarts
    /\ ids \in 0..MaxIds /\ now \in 0..MaxTime /\ evictions \in 0..MaxIds
    /\ \A s \in Slots : chats[s].messages \in Texts

\* app_daemon_chat behind its memory of the conversation is a service without
\* memory: whatever was evicted, cancelled, refused or restarted before, an
\* answer is generated from exactly the request's messages and options, once.
AnswersRequest == Service!Spec

\* "geistd restarted or evicted it": a chat that was lost before the request
\* began never makes it fail; only one evicted while it runs may.
RetryHidesEviction == rc = "lost" => evictions > 0

\* "rewind to the common start, send only the rest": what is kept is the longest
\* start the request has in common with the chat, short of its last message.
SendsOnlyTheRest == [][
    pc = "rewind" /\ pc' = "send" => \A s \in Found(held.id) :
        keep' < Len(chats[s].messages) /\ keep' + 1 < Len(request.messages) =>
            chats[s].messages[keep' + 1] # request.messages[keep' + 1]]_vars

=============================================================================
