-------------------------- MODULE HeldChat_proofs --------------------------
(***************************************************************************)
(* For every table size and every set of messages: the chat behind the     *)
(* app's memory implements ChatService, RetryHidesEviction and             *)
(* SendsOnlyTheRest.  The invariant says that the app's memory and the     *)
(* chat in geistd agree wherever a request can still be served from them.  *)
(***************************************************************************)
EXTENDS HeldChat, SequenceTheorems, TLAPS

AnyOptions == Options \union {"none"}
Chat == [id : Nat, options : AnyOptions, messages : Seq(Messages), used : Nat]
Mirror == [id : Nat, socket : Nat, options : AnyOptions, messages : Seq(Messages)]

Typed ==
    /\ chats \in [Slots -> Chat] /\ held \in Mirror
    /\ ids \in Nat /\ now \in Nat /\ evictions \in Nat
    /\ keep \in Nat /\ attempt \in {1, 2}
    /\ socket \in Nat

\* A request is open from Ask to End, and generation begins with Send.
Phases ==
    /\ request = None <=> pc = "idle"
    /\ request # None => request \in Requests
    /\ pc \notin {"wait", "end"} => from = None
    /\ pc \in {"idle", "info", "fit", "rewind", "send", "wait", "end"}

\* Identifiers are given once.
Unique ==
    /\ held.id <= ids
    /\ \A s \in Slots : chats[s].id <= ids
    /\ \A s, t \in Slots : chats[s].id = chats[t].id /\ chats[s].id # 0 => s = t

\* The chat in geistd is what the app holds: until an answer begins, and
\* again unless the request failed.
Same(s) == chats[s].messages = held.messages /\ chats[s].options = held.options

Agree ==
    pc # "wait" /\ (pc = "end" => rc \in {"ok", "refused"}) =>
        \A s \in Slots : held.id # 0 /\ chats[s].id = held.id => Same(s)

\* While the answer is generated, it is the request.
Serving ==
    pc = "wait" =>
        \A s \in Slots : held.id # 0 /\ chats[s].id = held.id =>
            chats[s].messages = request.messages /\ chats[s].options = held.options

\* What the app holds is the start of the request.
Started ==
    /\ pc \in {"rewind", "send"} => held.options = request.options
    /\ pc \in {"send", "wait"} =>
         /\ keep < Len(request.messages)
         /\ held.messages = SubSeq(request.messages, 1, keep)

\* The second attempt has opened a chat of its own.
Second ==
    /\ pc = "info" => attempt = 1
    /\ attempt = 2 /\ pc = "fit" => held.id = 0
    /\ attempt = 2 /\ pc \in {"rewind", "send"} /\ alive =>
         Found(held.id) # {} \/ evictions > 0
    /\ pc \in {"rewind", "send"} => held.id # 0

IInv == Typed /\ Phases /\ Unique /\ Agree /\ Serving /\ Started /\ Second

-----------------------------------------------------------------------------
(* Requests and sequences.                                                 *)

\* A request is a pair of a sequence of messages, not empty, and options.
LEMMA RequestType ==
    ASSUME NEW r \in Requests
    PROVE  /\ r.messages \in Seq(Messages) /\ Len(r.messages) > 0 /\ r.options \in Options
           /\ r = [messages |-> r.messages, options |-> r.options]
           /\ r # None
<1>1. PICK n \in 1..MaxMessages : r.messages \in [1..n -> Messages]
  BY DEF Requests
<1>2. n \in Nat /\ n > 0
  BY <1>1
<1>3. r.messages \in Seq(Messages) /\ Len(r.messages) = n
  BY <1>1, <1>2
<1>4. r = [messages |-> r.messages, options |-> r.options] /\ r.options \in Options
  BY DEF Requests
<1>5. r # None
  BY <1>2, <1>3 DEF None
<1> QED BY <1>2, <1>3, <1>4, <1>5

\* A sequence is its start and its rest.
LEMMA StartAndRest ==
    ASSUME NEW S, NEW m \in Seq(S), NEW k \in Nat, k <= Len(m)
    PROVE  SubSeq(m, 1, k) \o SubSeq(m, k + 1, Len(m)) = m
<1>1. SubSeq(m, 1, Len(m)) = m
  BY SubSeqFull
<1>2. 1 \in 1..Len(m) + 1 /\ k \in 1 - 1..Len(m) /\ Len(m) \in k..Len(m)
  BY LenProperties
<1>3. SubSeq(m, 1, k) \o SubSeq(m, k + 1, Len(m)) = SubSeq(m, 1, Len(m))
  BY <1>2, ConcatAdjacentSubSeq
<1> QED BY <1>1, <1>3

\* A start of a sequence is a sequence of its length.
LEMMA Start ==
    ASSUME NEW S, NEW m \in Seq(S), NEW k \in Nat, k <= Len(m)
    PROVE  SubSeq(m, 1, k) \in Seq(S) /\ Len(SubSeq(m, 1, k)) = k
<1>1. \A i \in 1..k : m[i] \in S
  BY LenProperties, ElementOfSeq
<1> QED BY <1>1, SubSeqProperties

\* So is the rest.
LEMMA RestType ==
    ASSUME NEW S, NEW m \in Seq(S), NEW k \in Nat, k <= Len(m)
    PROVE  SubSeq(m, k + 1, Len(m)) \in Seq(S)
<1>1. \A i \in k + 1..Len(m) : m[i] \in S
  BY LenProperties, ElementOfSeq
<1>2. k + 1 \in Int /\ Len(m) \in Int
  BY LenProperties
<1> QED BY <1>1, <1>2, SubSeqProperties

-----------------------------------------------------------------------------
(* The table.                                                              *)

\* What a chat may become in a table that a caller closed a chat in.
LEMMA ClosedType ==
    ASSUME Typed, NEW id
    PROVE  /\ Closed(id) \in [Slots -> Chat]
           /\ \A s \in Slots : Closed(id)[s] = chats[s] \/ Closed(id)[s].id = 0
<1>1. Free \in Chat /\ Free.id = 0
  BY EmptySeq DEF Free, Chat, AnyOptions
<1>2. \A s \in Slots : chats[s] \in Chat
  BY DEF Typed
<1> QED BY <1>1, <1>2 DEF Closed

\* A chat in the making.
Fresh(chat) == chat \in Chat /\ (chat.id = ids + 1 \/ chat = Free)

LEMMA NewFresh ==
    ASSUME Typed, NEW chat \in {New(o) : o \in Options} \union {Free}
    PROVE  Fresh(chat)
<1>1. <<>> \in Seq(Messages)
  BY EmptySeq
<1>2. CASE chat = Free
  BY <1>1, <1>2 DEF Free, Fresh, Chat, AnyOptions
<1>3. ASSUME NEW o \in Options, chat = New(o) PROVE Fresh(chat)
  BY <1>1, <1>3 DEF New, Fresh, Chat, AnyOptions, Typed
<1> QED BY <1>2, <1>3

\* A chat is opened in one slot; the others keep what they have.
LEMMA OpenedKeeps ==
    ASSUME Typed, Unique, NEW table \in [Slots -> Chat], NEW chat, Fresh(chat),
           Opened(table, chat),
           \A s \in Slots : table[s] = chats[s] \/ table[s].id = 0
    PROVE  /\ chats' \in [Slots -> Chat] /\ ids' \in Nat /\ ids <= ids' /\ evictions' \in Nat
           /\ alive /\ evictions <= evictions'
           /\ \E v \in Slots :
                /\ chats'[v] = chat
                /\ \A s \in Slots : s # v => chats'[s] = table[s]
                /\ held.id # 0 /\ table[v].id = held.id => evictions' > 0
           /\ chat.id = ids + 1 => ids' = ids + 1
           /\ chat = Free => ids' = ids
<1>1. PICK v \in Slots :
         /\ chats' = [table EXCEPT ![v] = chat]
         /\ evictions' = IF held.id # 0 /\ table[v].id = held.id THEN evictions + 1
                                                                 ELSE evictions
  BY DEF Opened
<1>2. chats' \in [Slots -> Chat]
  BY <1>1 DEF Fresh
<1>3. chats'[v] = chat /\ \A s \in Slots : s # v => chats'[s] = table[s]
  BY <1>1
<1>4. Free.id = 0 /\ ids \in Nat
  BY DEF Free, Typed
<1>5. ids' = (IF chat = Free THEN ids ELSE chat.id)
  BY DEF Opened
<1>6. (chat.id = ids + 1 => ids' = ids + 1) /\ (chat = Free => ids' = ids)
  BY <1>4, <1>5
<1>7. ids' \in Nat /\ ids <= ids'
  BY <1>4, <1>6 DEF Fresh
<1>8. evictions' \in Nat /\ evictions <= evictions'
  BY <1>1 DEF Typed
<1>9. held.id # 0 /\ table[v].id = held.id => evictions' > 0
  BY <1>1 DEF Typed
<1>10. alive
  BY DEF Opened
<1> QED BY <1>2, <1>3, <1>6, <1>7, <1>8, <1>9, <1>10

\* Every chat of the new table was there before, or is the new one.
LEMMA OpenedUnique ==
    ASSUME Typed, Unique, NEW chat, Fresh(chat), NEW v \in Slots, chats'[v] = chat,
           \A s \in Slots : s # v => chats'[s] = chats[s] \/ chats'[s].id = 0,
           chat.id = ids + 1 => ids' = ids + 1,
           chat = Free => ids' = ids
    PROVE  /\ \A s \in Slots : chats'[s].id <= ids'
           /\ \A s, t \in Slots : chats'[s].id = chats'[t].id /\ chats'[s].id # 0 => s = t
           /\ \A s \in Slots : chats'[s].id # 0 =>
                \/ chats'[s] = chats[s] /\ chats[s].id <= ids
                \/ chats'[s] = chat /\ chats'[s].id = ids + 1
<1>1. Free.id = 0 /\ ids \in Nat
  BY DEF Free, Typed
<1>2. \A s \in Slots : chats[s].id \in Nat /\ chats[s].id <= ids
  BY DEF Typed, Unique, Chat
<1>3. \/ chats'[v].id = ids + 1 /\ ids' = ids + 1
      \/ chats'[v].id = 0 /\ ids' = ids
  BY <1>1 DEF Fresh
<1>4. \A s \in Slots : chats'[s].id # 0 =>
        \/ chats'[s] = chats[s] /\ chats[s].id <= ids /\ s # v
        \/ s = v /\ chats'[s].id = ids + 1 /\ ids' = ids + 1
  BY <1>2, <1>3
<1>5. \A s \in Slots : chats'[s].id <= ids'
  BY <1>1, <1>2, <1>3, <1>4
<1>6. \A s, t \in Slots : chats[s].id = chats[t].id /\ chats[s].id # 0 => s = t
  BY DEF Unique
<1>7. ASSUME NEW s \in Slots, NEW t \in Slots, chats'[s].id = chats'[t].id, chats'[s].id # 0
      PROVE  s = t
  <2>1. CASE s = v
    BY <2>1, <1>7, <1>4, <1>1
  <2>2. CASE t = v
    BY <2>2, <1>7, <1>4, <1>1
  <2>3. CASE s # v /\ t # v
    BY <2>3, <1>7, <1>4, <1>6
  <2> QED BY <2>1, <2>2, <2>3
<1> QED BY <1>4, <1>5, <1>7

-----------------------------------------------------------------------------
(* The invariant, action by action.                                        *)

LEMMA InitKeeps == Init => IInv
<1> SUFFICES ASSUME Init PROVE IInv
  OBVIOUS
<1>1. Free \in Chat /\ Free.id = 0 /\ NoHeld \in Mirror /\ NoHeld.id = 0
  BY EmptySeq DEF Free, NoHeld, Chat, Mirror, AnyOptions
<1>2. Typed
  BY <1>1 DEF Init, Typed
<1>3. Phases /\ Unique /\ Agree
  BY <1>1 DEF Init, Phases, Unique, Agree, Same
<1>4. Serving /\ Started /\ Second
  BY DEF Init, Serving, Started, Second
<1> QED BY <1>2, <1>3, <1>4 DEF IInv

\* Time, the monitor and steps of others leave what the invariant speaks of.
LEMMA TickKeeps ==
    ASSUME IInv, Tick \/ Notice \/ UNCHANGED vars
    PROVE  IInv'
<1>1. /\ UNCHANGED <<pc, request, attempt, keep, rc, held, socket, alive, chats, ids, from>>
      /\ UNCHANGED evictions /\ now' \in {now, now + 1}
  BY DEF Tick, Notice, app, proc, vars
<1>2. Typed'
  BY <1>1 DEF IInv, Typed
<1>3. Phases' /\ Unique'
  BY <1>1 DEF IInv, Phases, Unique
<1>4. Agree'
  BY <1>1 DEF IInv, Agree, Same
<1>5. Serving' /\ Started'
  BY <1>1 DEF IInv, Serving, Started
<1>6. Found(held.id)' = Found(held.id)
  BY <1>1 DEF Found
<1>7. Second'
  BY <1>1, <1>6 DEF IInv, Second
<1> QED BY <1>2, <1>3, <1>4, <1>5, <1>7 DEF IInv

\* A request begins, and its chat is chosen, with the chat that agrees.
LEMMA AskKeeps ==
    ASSUME IInv, Ask \/ Info \/ UseHeld
    PROVE  IInv'
<1>1. /\ UNCHANGED <<keep, held, socket, alive, chats, ids, now, from>>
      /\ \/ /\ pc = "idle" /\ pc' = "info" /\ request' \in Requests /\ rc' = rc
            /\ attempt' = 1 /\ evictions' = 0
         \/ /\ pc = "info" /\ pc' \in {"fit", "end"} /\ UNCHANGED <<request, attempt, evictions>>
         \/ /\ pc = "fit" /\ pc' = "rewind" /\ Fits /\ UNCHANGED <<request, attempt, evictions, rc>>
  BY DEF Ask, Info, UseHeld, Fails, proc
<1>2. Typed'
  BY <1>1 DEF IInv, Typed
<1>3. Phases'
  BY <1>1, RequestType DEF IInv, Phases
<1>4. Unique'
  BY <1>1 DEF IInv, Unique
<1>5. Agree'
  <2>1. pc \in {"idle", "info", "fit"}
    BY <1>1
  <2> QED BY <1>1, <2>1 DEF IInv, Agree, Same
<1>6. Serving'
  BY <1>1 DEF Serving
<1>7. Started'
  BY <1>1 DEF IInv, Started, Fits
<1>8. Second'
  BY <1>1 DEF IInv, Second, Fits
<1> QED BY <1>2, <1>3, <1>4, <1>5, <1>6, <1>7, <1>8 DEF IInv

\* A geistd that dies, or is stopped, takes its chats with it.
LEMMA Emptied ==
    ASSUME IInv, chats' = [s \in Slots |-> Free], UNCHANGED <<held, ids>>
    PROVE  chats' \in [Slots -> Chat] /\ Unique' /\ Agree' /\ Serving'
<1>1. Free \in Chat /\ Free.id = 0
  BY EmptySeq DEF Free, Chat, AnyOptions
<1>2. chats' \in [Slots -> Chat] /\ \A s \in Slots : chats'[s].id = 0
  BY <1>1
<1>3. ids \in Nat /\ held.id \in Nat /\ held.id <= ids
  BY DEF IInv, Typed, Unique, Mirror
<1>4. Unique'
  BY <1>2, <1>3 DEF Unique
<1>5. Agree' /\ Serving'
  BY <1>2 DEF Agree, Serving
<1> QED BY <1>2, <1>4, <1>5

LEMMA CrashKeeps == ASSUME IInv, Crash PROVE IInv'
<1>1. chats' \in [Slots -> Chat] /\ Unique' /\ Agree' /\ Serving'
  BY Emptied DEF Crash, app
<1>2. Typed'
  BY <1>1 DEF IInv, Typed, Crash, app
<1>3. Phases' /\ Started'
  BY DEF IInv, Phases, Started, Crash, app
<1>4. Second'
  BY DEF IInv, Second, Crash, app
<1> QED BY <1>1, <1>2, <1>3, <1>4 DEF IInv

LEMMA LoadKeeps == ASSUME IInv, Load PROVE IInv'
<1>1. chats' \in [Slots -> Chat] /\ Unique' /\ Agree' /\ Serving'
  BY Emptied DEF Load, Starts, app
<1>2. Typed'
  BY <1>1 DEF IInv, Typed, Load, Starts, app
<1>3. Phases' /\ Started'
  BY DEF IInv, Phases, Started, Load, Starts, app
<1>4. Second'
  BY DEF IInv, Second, Load, Starts, app
<1> QED BY <1>1, <1>2, <1>3, <1>4 DEF IInv

\* The end of a request that was answered or refused leaves a chat that
\* agrees; after any other there is none.
LEMMA EndKeeps == ASSUME IInv, End PROVE IInv'
<1>1. pc = "end" /\ pc' = "idle" /\ request' = None /\ from' = None
  BY DEF End, Over
<1>2. UNCHANGED <<attempt, keep, held, ids, now, evictions>>
  BY DEF End
<1>3. Phases' /\ Started' /\ Second'
  BY <1>1 DEF Phases, Started, Second
<1>4. CASE rc \in {"ok", "refused"}
  <2>1. UNCHANGED <<ready, socket, alive, chats>>
    BY <1>4 DEF End, proc
  <2>2. Typed' /\ Unique'
    BY <1>2, <2>1 DEF IInv, Typed, Unique
  <2>3. Agree'
    BY <1>1, <1>2, <1>4, <2>1 DEF IInv, Agree, Same
  <2>4. Serving'
    BY <1>1 DEF Serving
  <2> QED BY <1>3, <2>2, <2>3, <2>4 DEF IInv
<1>5. CASE rc \notin {"ok", "refused"}
  <2>1. chats' = [s \in Slots |-> Free] /\ socket' \in {socket, socket + 1}
    BY <1>5 DEF End, Starts
  <2>2. chats' \in [Slots -> Chat] /\ Unique' /\ Agree' /\ Serving'
    BY <1>2, <2>1, Emptied
  <2>3. Typed'
    BY <1>2, <2>1, <2>2 DEF IInv, Typed
  <2> QED BY <1>3, <2>2, <2>3 DEF IInv
<1> QED BY <1>4, <1>5

\* Another client may evict the held chat, which then is not found.
LEMMA OtherOpensKeeps == ASSUME IInv, OtherOpens PROVE IInv'
<1>1. PICK chat \in {New(o) : o \in Options} \union {Free} : Opened(chats, chat)
  BY DEF OtherOpens
<1>2. Typed /\ Unique /\ Fresh(chat)
  BY NewFresh DEF IInv
<1>3. UNCHANGED <<pc, request, attempt, keep, rc, held, ready, socket, alive, now, from>>
      /\ pc # "wait"
  BY DEF OtherOpens, app, proc
<1>4. /\ chats' \in [Slots -> Chat] /\ ids' \in Nat /\ ids <= ids' /\ evictions' \in Nat
      /\ alive /\ evictions <= evictions'
      /\ chat.id = ids + 1 => ids' = ids + 1
      /\ chat = Free => ids' = ids
  BY <1>1, <1>2, OpenedKeeps DEF Typed
<1>5. PICK v \in Slots :
        /\ chats'[v] = chat
        /\ \A s \in Slots : s # v => chats'[s] = chats[s]
        /\ held.id # 0 /\ chats[v].id = held.id => evictions' > 0
  BY <1>1, <1>2, OpenedKeeps DEF Typed
<1>6. /\ \A s \in Slots : chats'[s].id <= ids'
      /\ \A s, t \in Slots : chats'[s].id = chats'[t].id /\ chats'[s].id # 0 => s = t
      /\ \A s \in Slots : chats'[s].id # 0 =>
           \/ chats'[s] = chats[s] /\ chats[s].id <= ids
           \/ chats'[s] = chat /\ chats'[s].id = ids + 1
  BY <1>2, <1>4, <1>5, OpenedUnique
<1>7. held.id \in Nat /\ held.id <= ids /\ ids \in Nat
  BY <1>2 DEF Typed, Unique, Mirror
<1>8. Typed'
  BY <1>2, <1>3, <1>4 DEF Typed
<1>9. Phases' /\ Started'
  BY <1>3 DEF IInv, Phases, Started
<1>10. Unique'
  BY <1>3, <1>4, <1>6, <1>7 DEF Unique
<1>11. \A s \in Slots : held.id # 0 /\ chats'[s].id = held.id => chats'[s] = chats[s]
  BY <1>6, <1>7
<1>12. Agree'
  BY <1>3, <1>11 DEF IInv, Agree, Same
<1>13. Serving'
  BY <1>3 DEF Serving
<1>14. Found(held.id) # {} => Found(held.id)' # {} \/ evictions' > 0
  <2>1. ASSUME NEW s \in Found(held.id) PROVE Found(held.id)' # {} \/ evictions' > 0
    <3>1. s \in Slots /\ held.id # 0 /\ chats[s].id = held.id
      BY DEF Found
    <3>2. CASE s = v
      BY <1>5, <3>1, <3>2
    <3>3. CASE s # v
      <4>1. s \in Found(held.id)'
        BY <1>3, <1>4, <1>5, <3>1, <3>3 DEF Found
      <4> QED BY <4>1
    <3> QED BY <3>2, <3>3
  <2> QED BY <2>1
<1>15. evictions \in Nat /\ evictions' \in Nat
  BY <1>2, <1>4 DEF Typed
<1>16. Second'
  BY <1>3, <1>4, <1>14, <1>15 DEF IInv, Second
<1> QED BY <1>8, <1>9, <1>10, <1>12, <1>13, <1>16 DEF IInv


\* The request of every phase but "idle".
LEMMA RequestOpen ==
    ASSUME IInv, pc # "idle"
    PROVE  /\ request \in Requests /\ request # None
           /\ request.messages \in Seq(Messages) /\ Len(request.messages) > 0
           /\ Len(request.messages) \in Nat
           /\ request.options \in Options
           /\ request = [messages |-> request.messages, options |-> request.options]
<1>1. request \in Requests /\ request # None
  BY DEF IInv, Phases
<1> QED BY <1>1, RequestType, LenProperties

\* A new chat is empty and has the request's options.
LEMMA OpenKeeps == ASSUME IInv, Open PROVE IInv'
<1>1. PICK table \in {chats} \union (IF held.socket = socket THEN {Closed(held.id)} ELSE {}) :
        \/ /\ Opened(table, New(request.options))
           /\ held' = [id |-> ids + 1, socket |-> socket,
                       options |-> request.options, messages |-> <<>>]
           /\ pc' = "rewind" /\ UNCHANGED rc
        \/ /\ \/ \E chat \in {New(request.options), Free} : Opened(table, chat)
              \/ chats' = table /\ UNCHANGED <<ids, evictions>>
           /\ held' = [held EXCEPT !.id = 0, !.messages = <<>>]
           /\ Fails("failed")
  BY DEF Open
<1>2. UNCHANGED <<request, attempt, keep, ready, socket, alive, now, from>> /\ pc = "fit"
  BY DEF Open, proc
<1>3. request.options \in Options /\ request \in Requests /\ request # None
  BY <1>2, RequestOpen
<1>4. Typed /\ Unique /\ Phases
  BY DEF IInv
<1>5. table \in [Slots -> Chat] /\ \A s \in Slots : table[s] = chats[s] \/ table[s].id = 0
  BY <1>1, <1>4, ClosedType DEF Typed
<1>6. ids \in Nat /\ held \in Mirror /\ held.id <= ids /\ <<>> \in Seq(Messages)
  BY <1>4, EmptySeq DEF Typed, Unique
<1>7. ASSUME NEW chat \in {New(request.options), Free}, Opened(table, chat)
      PROVE  /\ chats' \in [Slots -> Chat] /\ ids' \in Nat /\ evictions' \in Nat /\ ids <= ids'
             /\ \A s \in Slots : chats'[s].id <= ids'
             /\ \A s, t \in Slots : chats'[s].id = chats'[t].id /\ chats'[s].id # 0 => s = t
             /\ \A s \in Slots : chats'[s].id # 0 =>
                  \/ chats'[s] = chats[s] /\ chats[s].id <= ids
                  \/ chats'[s] = chat /\ chats'[s].id = ids + 1
             /\ \E v \in Slots : chats'[v] = chat
             /\ alive /\ (chat.id = ids + 1 => ids' = ids + 1)
  <2>1. Fresh(chat)
    BY <1>3, <1>4, <1>7, NewFresh
  <2>2. /\ chats' \in [Slots -> Chat] /\ ids' \in Nat /\ evictions' \in Nat /\ ids <= ids'
        /\ alive /\ (chat.id = ids + 1 => ids' = ids + 1) /\ (chat = Free => ids' = ids)
    BY <1>4, <1>5, <1>7, <2>1, OpenedKeeps
  <2>3. PICK v \in Slots :
          /\ chats'[v] = chat
          /\ \A s \in Slots : s # v => chats'[s] = table[s]
    BY <1>4, <1>5, <1>7, <2>1, OpenedKeeps
  <2>4. \A s \in Slots : s # v => chats'[s] = chats[s] \/ chats'[s].id = 0
    BY <1>5, <2>3
  <2>5. /\ \A s \in Slots : chats'[s].id <= ids'
        /\ \A s, t \in Slots : chats'[s].id = chats'[t].id /\ chats'[s].id # 0 => s = t
        /\ \A s \in Slots : chats'[s].id # 0 =>
             \/ chats'[s] = chats[s] /\ chats[s].id <= ids
             \/ chats'[s] = chat /\ chats'[s].id = ids + 1
    BY <1>4, <2>1, <2>2, <2>3, <2>4, OpenedUnique
  <2> QED BY <2>2, <2>3, <2>5
<1>8. CASE /\ Opened(table, New(request.options))
           /\ held' = [id |-> ids + 1, socket |-> socket,
                       options |-> request.options, messages |-> <<>>]
           /\ pc' = "rewind" /\ UNCHANGED rc
  <2> DEFINE chat == New(request.options)
  <2>1. /\ chats' \in [Slots -> Chat] /\ ids' \in Nat /\ evictions' \in Nat
        /\ \A s \in Slots : chats'[s].id <= ids'
        /\ \A s, t \in Slots : chats'[s].id = chats'[t].id /\ chats'[s].id # 0 => s = t
        /\ \A s \in Slots : chats'[s].id # 0 =>
             \/ chats'[s] = chats[s] /\ chats[s].id <= ids
             \/ chats'[s] = chat /\ chats'[s].id = ids + 1
        /\ \E v \in Slots : chats'[v] = chat
        /\ alive /\ (chat.id = ids + 1 => ids' = ids + 1)
    BY <1>7, <1>8
  <2>2. chat.id = ids + 1 /\ chat.messages = <<>> /\ chat.options = request.options
    BY DEF New
  <2>3. held'.id = ids + 1 /\ held'.messages = <<>> /\ held'.options = request.options
        /\ pc' = "rewind"
    BY <1>8
  <2>4. held' \in Mirror
    BY <1>3, <1>4, <1>6, <1>8 DEF Mirror, AnyOptions, Typed
  <2> HIDE DEF chat
  <2>5. Typed'
    BY <1>2, <1>4, <2>1, <2>4 DEF Typed
  <2>6. Phases'
    BY <1>2, <1>3, <1>4, <2>3 DEF Phases
  <2>7. Unique'
    BY <1>6, <2>1, <2>2, <2>3 DEF Unique
  <2>8. \A s \in Slots : chats'[s].id = held'.id => chats'[s] = chat
    BY <1>6, <2>1, <2>3
  <2>9. Agree'
    BY <2>2, <2>3, <2>8 DEF Agree, Same
  <2>10. Serving' /\ Started'
    BY <1>2, <2>3 DEF Serving, Started
  <2>11. Found(held.id)' # {} /\ held'.id # 0
    <3>1. PICK v \in Slots : chats'[v] = chat
      BY <2>1
    <3>2. held'.id # 0 /\ chats'[v].id = held'.id /\ alive'
      BY <1>2, <1>6, <2>1, <2>2, <2>3, <3>1
    <3>3. v \in Found(held.id)'
      BY <3>2 DEF Found
    <3> QED BY <3>2, <3>3
  <2>12. Second'
    BY <2>3, <2>11 DEF Second
  <2> QED BY <2>5, <2>6, <2>7, <2>9, <2>10, <2>12 DEF IInv
<1>9. CASE /\ \/ \E chat \in {New(request.options), Free} : Opened(table, chat)
              \/ chats' = table /\ UNCHANGED <<ids, evictions>>
           /\ held' = [held EXCEPT !.id = 0, !.messages = <<>>]
           /\ Fails("failed")
  <2>1. pc' = "end" /\ rc' = "failed" /\ held' \in Mirror /\ held'.id = 0
    BY <1>6, <1>9 DEF Fails, Mirror
  <2>2. /\ chats' \in [Slots -> Chat] /\ ids' \in Nat /\ evictions' \in Nat
        /\ \A s \in Slots : chats'[s].id <= ids'
        /\ \A s, t \in Slots : chats'[s].id = chats'[t].id /\ chats'[s].id # 0 => s = t
    <3>1. CASE \E chat \in {New(request.options), Free} : Opened(table, chat)
      BY <1>7, <3>1
    <3>2. CASE chats' = table /\ UNCHANGED <<ids, evictions>>
      <4>1. \A s \in Slots : chats'[s] = chats[s] \/ chats'[s].id = 0
        BY <1>5, <3>2
      <4>2. \A s \in Slots : chats'[s].id <= ids
        BY <1>4, <1>6, <4>1 DEF Unique
      <4>3. \A s, t \in Slots : chats'[s].id = chats'[t].id /\ chats'[s].id # 0 => s = t
        BY <1>4, <4>1 DEF Unique
      <4> QED BY <1>4, <1>5, <1>6, <3>2, <4>2, <4>3 DEF Typed
    <3> QED BY <1>9, <3>1, <3>2
  <2>3. Typed'
    BY <1>2, <1>4, <2>1, <2>2 DEF Typed
  <2>4. Phases'
    BY <1>2, <1>3, <1>4, <2>1 DEF Phases
  <2>5. Unique'
    BY <2>1, <2>2 DEF Unique
  <2>6. Agree' /\ Serving' /\ Started' /\ Second'
    BY <2>1 DEF Agree, Serving, Started, Second
  <2> QED BY <2>3, <2>4, <2>5, <2>6 DEF IInv
<1> QED BY <1>1, <1>8, <1>9


\* A request that failed leaves no claim but the types.
LEMMA FailedKeeps ==
    ASSUME IInv, pc # "idle", pc' = "end", rc' = "failed", chats' \in [Slots -> Chat],
           held' \in Mirror, held'.id \in {held.id, 0}, keep' \in Nat, attempt' = attempt,
           \A s \in Slots : chats'[s].id = chats[s].id,
           UNCHANGED <<request, socket, ids, now, evictions>>
    PROVE  IInv'
<1>1. Typed'
  BY DEF IInv, Typed
<1>2. request # None /\ request \in Requests
  BY RequestOpen
<1>3. Phases'
  BY <1>2 DEF Phases
<1>4. held.id <= ids /\ ids \in Nat /\ held'.id <= ids
  BY DEF IInv, Unique, Typed
<1>5. Unique'
  BY <1>4 DEF IInv, Unique
<1>6. Agree' /\ Serving' /\ Started' /\ Second'
  BY DEF Agree, Serving, Started, Second
<1> QED BY <1>1, <1>3, <1>5, <1>6 DEF IInv

\* A chat that is unknown is forgotten, and the second attempt opens another.
LEMMA UnknownKeeps ==
    ASSUME IInv, pc \in {"rewind", "send"}, Unknown, keep' \in Nat,
           UNCHANGED <<request, socket, chats, alive, ids, now, from, evictions>>
    PROVE  IInv'
<1>1. held' = [held EXCEPT !.id = 0] /\ held' \in Mirror /\ held'.id = 0
  BY DEF Unknown, IInv, Typed, Mirror
<1>2. \/ attempt' = 2 /\ pc' = "fit" /\ UNCHANGED rc
      \/ rc' = "lost" /\ pc' = "end" /\ UNCHANGED attempt
  BY DEF Unknown, Fails
<1>3. Typed'
  BY <1>1, <1>2 DEF IInv, Typed
<1>4. Phases'
  BY <1>2 DEF IInv, Phases
<1>5. Unique'
  BY <1>1 DEF IInv, Unique, Typed
<1>6. Agree' /\ Serving' /\ Started'
  BY <1>1, <1>2 DEF Agree, Serving, Started
<1>7. Second'
  BY <1>1, <1>2 DEF Second
<1> QED BY <1>3, <1>4, <1>5, <1>6, <1>7 DEF IInv

\* What Rewind finds in common fits in the request and in what is held.
LEMMA CommonIs ==
    ASSUME IInv, pc = "rewind", NEW k \in 0..MaxMessages, Common(k)
    PROVE  /\ k \in Nat /\ k < Len(request.messages) /\ k <= Len(held.messages)
           /\ Len(held.messages) \in Nat
           /\ SubSeq(held.messages, 1, k) \in Seq(Messages)
           /\ SubSeq(held.messages, 1, k) = SubSeq(request.messages, 1, k)
           /\ k = Len(held.messages) => held.messages = SubSeq(request.messages, 1, k)
<1>1. held.messages \in Seq(Messages) /\ Len(held.messages) \in Nat
  BY LenProperties DEF IInv, Typed, Mirror
<1>2. k \in Nat
  BY ChatAssumption
<1>3. k < Len(request.messages) /\ k <= Len(held.messages)
      /\ SubSeq(held.messages, 1, k) = SubSeq(request.messages, 1, k)
  BY DEF Common
<1>4. SubSeq(held.messages, 1, k) \in Seq(Messages)
  BY <1>1, <1>2, <1>3, Start
<1>5. SubSeq(held.messages, 1, Len(held.messages)) = held.messages
  BY <1>1, SubSeqFull
<1> QED BY <1>1, <1>2, <1>3, <1>4, <1>5

\* A chat that is rewound keeps its name and its options.
LEMMA RewoundIs ==
    ASSUME IInv, NEW k \in Nat, chats' = Rewound(k), held.id # 0,
           \A s \in Found(held.id) : k <= Len(chats[s].messages)
    PROVE  /\ chats' \in [Slots -> Chat]
           /\ \A s \in Slots : chats'[s].id = chats[s].id /\ chats'[s].options = chats[s].options
           /\ \A s \in Found(held.id) : chats'[s].messages = SubSeq(chats[s].messages, 1, k)
           /\ \A s \in Slots : s \in Found(held.id) \/ chats'[s].messages = chats[s].messages
<1>1. \A s \in Slots : chats[s] \in Chat /\ chats[s].messages \in Seq(Messages)
  BY DEF IInv, Typed, Chat
<1>2. now \in Nat
  BY DEF IInv, Typed
<1>3. Found(held.id) \subseteq Slots
  BY DEF Found
<1>4. \A s \in Found(held.id) : SubSeq(chats[s].messages, 1, k) \in Seq(Messages)
  BY <1>1, <1>3, Start
<1>5. ASSUME NEW s \in Slots
      PROVE  /\ chats'[s] \in Chat
             /\ chats'[s].id = chats[s].id /\ chats'[s].options = chats[s].options
             /\ s \in Found(held.id) => chats'[s].messages = SubSeq(chats[s].messages, 1, k)
             /\ s \in Found(held.id) \/ chats'[s].messages = chats[s].messages
  <2>1. CASE s \in Found(held.id)
    <3>1. chats'[s] = [chats[s] EXCEPT !.messages = SubSeq(@, 1, k), !.used = now]
      BY <2>1 DEF Rewound
    <3> QED BY <1>1, <1>2, <1>4, <2>1, <3>1 DEF Chat
  <2>2. CASE s \notin Found(held.id)
    BY <1>1, <2>2 DEF Rewound
  <2> QED BY <2>1, <2>2
<1>6. chats' \in [Slots -> Chat]
  BY <1>5 DEF Rewound
<1> QED BY <1>3, <1>5, <1>6

\* After Rewind the chat, if it is there, and the app hold the common start.
LEMMA RewindKeeps == ASSUME IInv, Rewind PROVE IInv'
<1>1. UNCHANGED <<request, ready, socket, alive, ids, now, from, evictions>> /\ pc = "rewind"
  BY DEF Rewind, proc
<1>2. PICK k \in 0..MaxMessages :
        /\ Common(k) /\ keep' = k
        /\ \/ /\ k = Len(held.messages)
              /\ pc' = "send" /\ UNCHANGED <<chats, held, attempt, rc>>
           \/ /\ k < Len(held.messages)
              /\ \A s \in Found(held.id) : k <= Len(chats[s].messages)
              /\ Found(held.id) # {}
              /\ chats' = Rewound(k)
              /\ \/ /\ held' = [held EXCEPT !.messages = SubSeq(@, 1, k)]
                    /\ pc' = "send" /\ UNCHANGED <<attempt, rc>>
                 \/ Fails("failed") /\ UNCHANGED <<held, attempt>>
           \/ /\ k < Len(held.messages)
              /\ Fails("failed") /\ UNCHANGED <<chats, held, attempt>>
           \/ /\ k < Len(held.messages) /\ alive /\ Found(held.id) = {}
              /\ Unknown /\ UNCHANGED chats
  BY DEF Rewind
<1>3. /\ k \in Nat /\ k < Len(request.messages) /\ k <= Len(held.messages)
      /\ Len(held.messages) \in Nat
      /\ SubSeq(held.messages, 1, k) \in Seq(Messages)
      /\ SubSeq(held.messages, 1, k) = SubSeq(request.messages, 1, k)
      /\ k = Len(held.messages) => held.messages = SubSeq(request.messages, 1, k)
  BY <1>1, <1>2, CommonIs
<1>4. held.id # 0 /\ held.options = request.options /\ held \in Mirror
  BY <1>1 DEF IInv, Second, Started, Typed
<1>5. chats \in [Slots -> Chat] /\ Phases /\ request # None
  BY <1>1 DEF IInv, Typed, Phases
<1>6. CASE k = Len(held.messages) /\ pc' = "send" /\ UNCHANGED <<chats, held, attempt, rc>>
  <2>1. Typed'
    BY <1>1, <1>2, <1>3, <1>6 DEF IInv, Typed
  <2>2. Phases'
    BY <1>1, <1>5, <1>6 DEF Phases
  <2>3. Unique'
    BY <1>1, <1>6 DEF IInv, Unique
  <2>4. Agree'
    BY <1>1, <1>6 DEF IInv, Agree, Same
  <2>5. Serving'
    BY <1>6 DEF Serving
  <2>6. Started'
    BY <1>1, <1>2, <1>3, <1>4, <1>6 DEF Started
  <2>7. Found(held.id)' = Found(held.id)
    BY <1>1, <1>6 DEF Found
  <2>8. Second'
    BY <1>1, <1>4, <1>6, <2>7 DEF IInv, Second
  <2> QED BY <2>1, <2>2, <2>3, <2>4, <2>5, <2>6, <2>8 DEF IInv
<1>7. CASE /\ \A s \in Found(held.id) : k <= Len(chats[s].messages)
           /\ chats' = Rewound(k)
           /\ held' = [held EXCEPT !.messages = SubSeq(@, 1, k)]
           /\ pc' = "send" /\ UNCHANGED <<attempt, rc>> /\ Found(held.id) # {}
  <2>1. /\ chats' \in [Slots -> Chat]
        /\ \A s \in Slots : chats'[s].id = chats[s].id /\ chats'[s].options = chats[s].options
        /\ \A s \in Found(held.id) : chats'[s].messages = SubSeq(chats[s].messages, 1, k)
    BY <1>3, <1>4, <1>7, RewoundIs
  <2>2. /\ held' \in Mirror /\ held'.id = held.id /\ held'.options = held.options
        /\ held'.messages = SubSeq(held.messages, 1, k)
    BY <1>3, <1>4, <1>7 DEF Mirror
  <2>3. Typed'
    BY <1>1, <1>2, <1>3, <1>7, <2>1, <2>2 DEF IInv, Typed
  <2>4. Phases'
    BY <1>1, <1>5, <1>7 DEF Phases
  <2>5. Unique'
    BY <1>1, <2>1, <2>2 DEF IInv, Unique
  <2>6. alive
    BY <1>7 DEF Found
  <2>7. ASSUME NEW s \in Slots, chats'[s].id = held'.id PROVE Same(s)'
    <3>1. s \in Found(held.id)
      BY <1>4, <2>1, <2>2, <2>6, <2>7 DEF Found
    <3>2. chats[s].messages = held.messages /\ chats[s].options = held.options
      BY <1>1, <1>4, <3>1 DEF Found, IInv, Agree, Same
    <3> QED BY <2>1, <2>2, <3>1, <3>2 DEF Same
  <2>8. Agree' /\ Serving'
    BY <1>7, <2>7 DEF Agree, Serving
  <2>9. Started'
    BY <1>1, <1>2, <1>3, <1>4, <1>7, <2>2 DEF Started
  <2>10. Found(held.id)' # {}
    <3>1. PICK s \in Slots : s \in Found(held.id)
      BY <1>7 DEF Found
    <3>2. s \in Found(held.id)'
      BY <1>1, <2>1, <2>2, <3>1 DEF Found
    <3> QED BY <3>2
  <2>11. Second'
    BY <1>4, <1>7, <2>2, <2>10 DEF Second
  <2> QED BY <2>3, <2>4, <2>5, <2>8, <2>9, <2>11 DEF IInv
<1>8. CASE /\ \A s \in Found(held.id) : k <= Len(chats[s].messages)
           /\ chats' = Rewound(k) /\ Fails("failed") /\ UNCHANGED <<held, attempt>>
  <2>1. chats' \in [Slots -> Chat] /\ \A s \in Slots : chats'[s].id = chats[s].id
    BY <1>3, <1>4, <1>8, RewoundIs
  <2> QED BY <1>1, <1>2, <1>3, <1>4, <1>8, <2>1, FailedKeeps DEF Fails
<1>9. CASE Fails("failed") /\ UNCHANGED <<chats, held, attempt>>
  BY <1>1, <1>2, <1>3, <1>4, <1>5, <1>9, FailedKeeps DEF Fails
<1>10. CASE Unknown /\ UNCHANGED chats
  BY <1>1, <1>2, <1>3, <1>10, UnknownKeeps
<1> QED BY <1>2, <1>6, <1>7, <1>8, <1>9, <1>10


\* What is held and the rest of the request are the request.
LEMMA HeldAndRest ==
    ASSUME IInv, pc \in {"send", "wait"}
    PROVE  /\ held.messages \o Rest = request.messages
           /\ Rest \in Seq(Messages)
<1>1. request.messages \in Seq(Messages)
  BY RequestOpen
<1>2. keep \in Nat /\ keep < Len(request.messages)
      /\ held.messages = SubSeq(request.messages, 1, keep)
  BY DEF IInv, Typed, Started
<1>3. keep <= Len(request.messages)
  BY <1>1, <1>2, LenProperties
<1>4. SubSeq(request.messages, 1, keep) \o Rest = request.messages
  BY <1>1, <1>2, <1>3, StartAndRest DEF Rest
<1>5. Rest \in Seq(Messages)
  BY <1>1, <1>2, <1>3, RestType DEF Rest
<1> QED BY <1>2, <1>4, <1>5

\* The chat that is found before the rest is sent holds what the app holds.
LEMMA FoundAgrees ==
    ASSUME IInv, pc \in {"rewind", "send"}, NEW s \in Found(held.id)
    PROVE  /\ s \in Slots /\ chats[s].messages = held.messages
           /\ chats[s].options = request.options
<1>1. s \in Slots /\ held.id # 0 /\ chats[s].id = held.id
  BY DEF Found
<1>2. Same(s)
  BY <1>1 DEF IInv, Agree
<1> QED BY <1>1, <1>2 DEF Same, IInv, Started

\* When the rest was sent, the chat is the request.
LEMMA SentIs ==
    ASSUME IInv, pc = "send", chats' = Sent(chats)
    PROVE  /\ chats' \in [Slots -> Chat]
           /\ \A s \in Slots : chats'[s].id = chats[s].id /\ chats'[s].options = chats[s].options
           /\ \A s \in Found(held.id) : chats'[s].messages = request.messages
           /\ \A s \in Slots : s \in Found(held.id) \/ chats'[s].messages = chats[s].messages
<1>1. Rest \in Seq(Messages) /\ held.messages \o Rest = request.messages
  BY HeldAndRest
<1>2. \A s \in Slots : chats[s] \in Chat /\ now \in Nat
  BY DEF IInv, Typed
<1>3. request.messages \in Seq(Messages)
  BY RequestOpen
<1>4. ASSUME NEW s \in Slots
      PROVE  /\ chats'[s] \in Chat
             /\ chats'[s].id = chats[s].id /\ chats'[s].options = chats[s].options
             /\ s \in Found(held.id) => chats'[s].messages = request.messages
             /\ s \in Found(held.id) \/ chats'[s].messages = chats[s].messages
  <2>1. CASE s \in Found(held.id)
    <3>1. chats'[s] = [chats[s] EXCEPT !.messages = @ \o Rest, !.used = now]
      BY <2>1 DEF Sent
    <3>2. chats[s].messages \o Rest = request.messages
      BY <1>1, <2>1, FoundAgrees
    <3> HIDE DEF Rest
    <3> QED BY <1>2, <1>3, <2>1, <3>1, <3>2 DEF Chat
  <2>2. CASE s \notin Found(held.id)
    BY <1>2, <2>2 DEF Sent
  <2> QED BY <2>1, <2>2
<1>5. chats' \in [Slots -> Chat]
  BY <1>4 DEF Sent
<1>6. Found(held.id) \subseteq Slots
  BY DEF Found
<1> QED BY <1>4, <1>5, <1>6

\* Generation starts from the request.
LEMMA SendGenerates ==
    ASSUME IInv, Send, from' # from
    PROVE  from = None /\ from' = request /\ request' = request /\ request # None
<1>1. pc = "send" /\ request' = request /\ from = None
  BY DEF Send, IInv, Phases
<1>2. chats' = Sent(chats)
  BY DEF Send
<1>3. PICK s \in Found(held.id) :
        from' = [messages |-> chats'[s].messages, options |-> chats[s].options]
  BY DEF Send
<1>4. chats'[s].messages = request.messages
  BY <1>1, <1>2, SentIs
<1>5. chats[s].options = request.options
  BY <1>1, FoundAgrees
<1>6. request # None /\ request = [messages |-> request.messages, options |-> request.options]
  BY <1>1, RequestOpen
<1> QED BY <1>1, <1>3, <1>4, <1>5, <1>6

LEMMA SendKeeps == ASSUME IInv, Send PROVE IInv'
<1>1. UNCHANGED <<request, keep, ready, socket, alive, ids, now, evictions>> /\ pc = "send"
  BY DEF Send, proc
<1>2. keep \in Nat /\ held \in Mirror /\ chats \in [Slots -> Chat] /\ held.id # 0
  BY <1>1 DEF IInv, Typed, Second
<1>3. CASE /\ chats' = Sent(chats) /\ pc' = "wait" /\ UNCHANGED <<rc, held, attempt>>
           /\ Found(held.id) # {}
  <2>1. /\ chats' \in [Slots -> Chat]
        /\ \A s \in Slots : chats'[s].id = chats[s].id /\ chats'[s].options = chats[s].options
        /\ \A s \in Found(held.id) : chats'[s].messages = request.messages
    BY <1>1, <1>3, SentIs
  <2>2. Typed'
    BY <1>1, <1>3, <2>1 DEF IInv, Typed
  <2>3. Phases'
    BY <1>1, <1>3 DEF IInv, Phases
  <2>4. Unique'
    BY <1>1, <1>3, <2>1 DEF IInv, Unique
  <2>5. alive
    BY <1>1, <1>3 DEF Send, Found
  <2>6. ASSUME NEW s \in Slots, chats'[s].id = held.id
        PROVE  chats'[s].messages = request.messages /\ chats'[s].options = held.options
    <3>1. s \in Found(held.id)
      BY <1>2, <2>1, <2>5, <2>6 DEF Found
    <3>2. chats[s].options = held.options
      BY <1>1, <1>2, <3>1 DEF Found, IInv, Agree, Same
    <3> QED BY <2>1, <3>1, <3>2
  <2>7. Serving' /\ Agree'
    BY <1>1, <1>3, <2>6 DEF Serving, Agree
  <2>8. Started' /\ Second'
    BY <1>1, <1>3 DEF IInv, Started, Second
  <2> QED BY <2>2, <2>3, <2>4, <2>7, <2>8 DEF IInv
<1>4. CASE Fails("refused") /\ UNCHANGED <<chats, from, held, attempt>>
  <2>1. pc' = "end" /\ rc' = "refused"
    BY <1>4 DEF Fails
  <2>2. Typed' /\ Unique'
    BY <1>1, <1>4 DEF IInv, Typed, Unique
  <2>3. Phases'
    BY <1>1, <1>4, <2>1 DEF IInv, Phases
  <2>4. Agree'
    BY <1>1, <1>4 DEF IInv, Agree, Same
  <2>5. Serving' /\ Started' /\ Second'
    BY <2>1 DEF Serving, Started, Second
  <2> QED BY <2>2, <2>3, <2>4, <2>5 DEF IInv
<1>5. CASE Fails("failed") /\ UNCHANGED <<chats, from, held, attempt>>
  BY <1>1, <1>2, <1>5, FailedKeeps DEF Fails
<1>6. CASE Unknown /\ UNCHANGED <<chats, from>>
  BY <1>1, <1>2, <1>6, UnknownKeeps
<1> QED BY <1>3, <1>4, <1>5, <1>6 DEF Send

\* What was said is appended to the chat that is found.
LEMMA SaidIs ==
    ASSUME IInv, NEW text \in Messages, chats' = Said(text)
    PROVE  /\ chats' \in [Slots -> Chat]
           /\ \A s \in Slots : chats'[s].id = chats[s].id /\ chats'[s].options = chats[s].options
           /\ \A s \in Found(held.id) : chats'[s].messages = Append(chats[s].messages, text)
<1>1. \A s \in Slots : chats[s] \in Chat
  BY DEF IInv, Typed
<1>2. \A s \in Slots : Append(chats[s].messages, text) \in Seq(Messages)
  BY <1>1, AppendProperties DEF Chat
<1>3. ASSUME NEW s \in Slots
      PROVE  /\ chats'[s] \in Chat
             /\ chats'[s].id = chats[s].id /\ chats'[s].options = chats[s].options
             /\ s \in Found(held.id) => chats'[s].messages = Append(chats[s].messages, text)
  <2>1. CASE s \in Found(held.id)
    <3>1. chats'[s] = [chats[s] EXCEPT !.messages = Append(@, text)]
      BY <2>1 DEF Said
    <3> QED BY <1>1, <1>2, <2>1, <3>1 DEF Chat
  <2>2. CASE s \notin Found(held.id)
    BY <1>1, <2>2 DEF Said
  <2> QED BY <2>1, <2>2
<1>4. chats' \in [Slots -> Chat]
  BY <1>3 DEF Said
<1>5. Found(held.id) \subseteq Slots
  BY DEF Found
<1> QED BY <1>3, <1>4, <1>5

\* The app then holds the request and the answer, or nothing.
LEMMA PushIs ==
    ASSUME IInv, pc = "wait", NEW text \in Messages, Push(text)
    PROVE  /\ held' \in Mirror /\ held'.options = held.options
           /\ \/ held'.id = held.id /\ held'.messages = Append(request.messages, text)
              \/ held'.id = 0 /\ held'.messages = held.messages
<1>1. Rest \in Seq(Messages) /\ held.messages \o Rest = request.messages
  BY HeldAndRest
<1>2. held \in Mirror /\ held.messages \in Seq(Messages)
  BY DEF IInv, Typed, Mirror
<1>3. Append(Rest, text) = Rest \o <<text>> /\ Append(request.messages, text) = request.messages \o <<text>>
  BY <1>1, RequestOpen, AppendIsConcat
<1>4. <<text>> \in Seq(Messages)
  OBVIOUS
<1>5. held.messages \o (Rest \o <<text>>) = (held.messages \o Rest) \o <<text>>
  <2>1. ASSUME NEW a \in Seq(Messages), NEW b \in Seq(Messages), NEW c \in Seq(Messages)
        PROVE  (a \o b) \o c = a \o (b \o c)
    BY ConcatAssociative, SMTT(30)
  <2> QED BY <1>1, <1>2, <1>4, <2>1, Zenon
<1>6. held.messages \o Append(Rest, text) = Append(request.messages, text)
  BY <1>1, <1>3, <1>5
<1>7. Append(request.messages, text) \in Seq(Messages)
  BY RequestOpen, AppendProperties
<1>8. CASE held' = [held EXCEPT !.messages = @ \o Append(Rest, text)]
  <2> DEFINE more == held.messages \o Append(Rest, text)
  <2>1. more \in Seq(Messages) /\ more = Append(request.messages, text)
    BY <1>6, <1>7
  <2>2. held' = [held EXCEPT !.messages = more]
    BY <1>8
  <2> HIDE DEF more
  <2> QED BY <1>2, <2>1, <2>2 DEF Mirror
<1>9. CASE held' = [held EXCEPT !.id = 0]
  BY <1>2, <1>9 DEF Mirror
<1> QED BY <1>8, <1>9 DEF Push

LEMMA AnsweredKeeps == ASSUME IInv, Answered PROVE IInv'
<1>1. UNCHANGED <<request, attempt, keep, ready, socket, alive, ids, now, from, evictions>>
      /\ pc = "wait" /\ alive /\ pc' = "end"
  BY DEF Answered, proc
<1>2. PICK text \in Messages : chats' = Said(text) /\ Push(text)
  BY DEF Answered
<1>3. /\ chats' \in [Slots -> Chat]
      /\ \A s \in Slots : chats'[s].id = chats[s].id /\ chats'[s].options = chats[s].options
      /\ \A s \in Found(held.id) : chats'[s].messages = Append(chats[s].messages, text)
  BY <1>2, SaidIs
<1>4. /\ held' \in Mirror /\ held'.options = held.options
      /\ \/ held'.id = held.id /\ held'.messages = Append(request.messages, text)
         \/ held'.id = 0
  BY <1>1, <1>2, PushIs
<1>5. Typed'
  BY <1>1, <1>3, <1>4 DEF IInv, Typed
<1>6. Phases'
  BY <1>1 DEF IInv, Phases
<1>7. held.id <= ids /\ ids \in Nat
  BY DEF IInv, Unique, Typed
<1>8. Unique'
  BY <1>1, <1>3, <1>4, <1>7 DEF IInv, Unique
<1>9. ASSUME NEW s \in Slots, held'.id # 0, chats'[s].id = held'.id PROVE Same(s)'
  <2>1. held'.id = held.id /\ held'.messages = Append(request.messages, text)
    BY <1>4, <1>9
  <2>2. s \in Found(held.id)
    BY <1>1, <1>3, <1>9, <2>1 DEF Found
  <2>3. chats[s].messages = request.messages /\ chats[s].options = held.options
    BY <1>1, <1>3, <1>9, <2>1 DEF IInv, Serving
  <2> QED BY <1>3, <1>4, <2>1, <2>2, <2>3 DEF Same
<1>10. Agree'
  BY <1>9 DEF Agree
<1>11. Serving' /\ Started' /\ Second'
  BY <1>1 DEF Serving, Started, Second
<1> QED BY <1>5, <1>6, <1>8, <1>10, <1>11 DEF IInv

\* An answer that is cut short fails the request.
LEMMA BrokenKeeps == ASSUME IInv, ClientLeft \/ Broken PROVE IInv'
<1>1. UNCHANGED <<request, attempt, keep, ready, socket, alive, ids, now, from, evictions>>
      /\ pc = "wait" /\ pc' = "end" /\ rc' = "failed"
  BY DEF ClientLeft, Broken, Fails, proc
<1>2. keep \in Nat /\ held \in Mirror /\ chats \in [Slots -> Chat]
  BY DEF IInv, Typed
<1>3. chats' \in [Slots -> Chat] /\ \A s \in Slots : chats'[s].id = chats[s].id
  <2>1. CASE UNCHANGED chats
    BY <1>2, <2>1
  <2>2. CASE \E said \in Messages : chats' = Said(said)
    BY <2>2, SaidIs
  <2> QED BY <2>1, <2>2 DEF ClientLeft, Broken
<1>4. held' \in Mirror /\ held'.id \in {held.id, 0}
  <2>1. CASE ClientLeft
    <3>1. PICK taken \in Messages : Push(taken)
      BY <2>1 DEF ClientLeft
    <3> QED BY <1>1, <3>1, PushIs
  <2>2. CASE Broken
    BY <1>2, <2>2 DEF Broken
  <2> QED BY <2>1, <2>2
<1> QED BY <1>1, <1>2, <1>3, <1>4, FailedKeeps

-----------------------------------------------------------------------------
(* The theorems.                                                           *)

LEMMA NextKeeps == ASSUME IInv, [Next]_vars PROVE IInv'
<1>1. CASE Tick \/ Notice \/ UNCHANGED vars
  BY <1>1, TickKeeps
<1>2. CASE OtherOpens \/ Crash \/ Load
  BY <1>2, OtherOpensKeeps, CrashKeeps, LoadKeeps
<1>3. CASE Ask \/ Info \/ UseHeld \/ Open
  BY <1>3, AskKeeps, OpenKeeps
<1>4. CASE Rewind \/ Send
  BY <1>4, RewindKeeps, SendKeeps
<1>5. CASE Answered \/ ClientLeft \/ Broken \/ End
  BY <1>5, AnsweredKeeps, BrokenKeeps, EndKeeps
<1> QED BY <1>1, <1>2, <1>3, <1>4, <1>5 DEF Next

\* What the app remembers agrees with what geistd holds in every state from
\* which a request can be served.
THEOREM SpecIInv == Spec => []IInv
BY InitKeeps, NextKeeps, PTL DEF Spec

\* app_daemon_chat: a step of the app or of geistd is a step of ChatService.
LEMMA StepImplements ==
    ASSUME IInv, [Next]_vars
    PROVE  [Service!Next]_(Service!vars)
<1>1. CASE Ask
  <2>1. request = None /\ from = None
    BY <1>1 DEF Ask, IInv, Phases
  <2>2. Service!Ask
    BY <1>1, <2>1 DEF Ask, Service!Ask
  <2> QED BY <2>2 DEF Service!Next
<1>2. CASE Send
  <2>1. CASE from' = from
    BY <1>2, <2>1 DEF Send, Service!vars
  <2>2. CASE from' # from
    <3>1. from = None /\ from' = request /\ request' = request /\ request # None
      BY <1>2, <2>2, SendGenerates
    <3>2. Service!Answer
      BY <3>1 DEF Service!Answer
    <3> QED BY <3>2 DEF Service!Next
  <2> QED BY <2>1, <2>2
<1>3. CASE End
  <2>1. request # None
    BY <1>3 DEF End, IInv, Phases
  <2>2. Service!End
    BY <1>3, <2>1 DEF End, Over, Service!End
  <2> QED BY <2>2 DEF Service!Next
<1>4. CASE OtherOpens \/ Tick \/ Crash \/ Notice \/ Load \/ Info \/ UseHeld \/ Open \/ Rewind
  <2>1. UNCHANGED <<request, from>>
    BY <1>4 DEF OtherOpens, Tick, Crash, Notice, Load, Info, UseHeld, Open, Rewind, app
  <2> QED BY <2>1 DEF Service!vars
<1>5. CASE Answered \/ ClientLeft \/ Broken \/ UNCHANGED vars
  <2>1. UNCHANGED <<request, from>>
    BY <1>5 DEF Answered, ClientLeft, Broken, vars
  <2> QED BY <2>1 DEF Service!vars
<1> QED BY <1>1, <1>2, <1>3, <1>4, <1>5 DEF Next

\* app_daemon_chat and geistd's chats implement a service without memory:
\* each answer is generated from exactly its request's messages and options.
THEOREM SpecImplements == Spec => AnswersRequest
<1>1. Init => Service!Init
  BY DEF Init, Service!Init
<1>2. IInv /\ [Next]_vars => [Service!Next]_(Service!vars)
  BY StepImplements
<1> QED BY <1>1, <1>2, SpecIInv, PTL DEF Spec, AnswersRequest, Service!Spec


\* A request ends as lost only while it is at its end.
Lost == rc = "lost" => pc = "end" /\ evictions > 0

\* The second attempt's chat was there until it was evicted.
LEMMA SecondUnknown ==
    ASSUME IInv, pc \in {"rewind", "send"}, alive, Found(held.id) = {}, Unknown,
           UNCHANGED evictions, Lost
    PROVE  Lost'
<1>1. CASE attempt = 1
  BY <1>1 DEF Unknown, Lost
<1>2. CASE attempt # 1
  <2>1. evictions > 0
    BY <1>2 DEF IInv, Typed, Second
  <2> QED BY <1>2, <2>1 DEF Unknown, Fails, Lost
<1> QED BY <1>1, <1>2

LEMMA LostKeeps == ASSUME IInv, Lost, [Next]_vars PROVE Lost'
<1>1. CASE Rewind
  <2>1. pc = "rewind" /\ UNCHANGED evictions
    BY <1>1 DEF Rewind
  <2>2. CASE rc' = rc
    BY <2>1, <2>2 DEF Lost
  <2>3. CASE rc' = "failed"
    BY <2>3 DEF Lost
  <2>4. CASE Unknown /\ alive /\ Found(held.id) = {}
    BY <2>1, <2>4, SecondUnknown
  <2> QED BY <1>1, <2>2, <2>3, <2>4 DEF Rewind, Fails
<1>2. CASE Send
  <2>1. pc = "send" /\ UNCHANGED evictions
    BY <1>2 DEF Send
  <2>2. CASE rc' = rc
    BY <2>1, <2>2 DEF Lost
  <2>3. CASE rc' \in {"failed", "refused"}
    BY <2>3 DEF Lost
  <2>4. CASE Unknown /\ alive /\ Found(held.id) = {}
    BY <2>1, <2>4, SecondUnknown
  <2> QED BY <1>2, <2>2, <2>3, <2>4 DEF Send, Fails
<1>3. CASE OtherOpens
  <2>1. UNCHANGED <<pc, rc>>
    BY <1>3 DEF OtherOpens, app
  <2>2. evictions \in Nat /\ evictions' \in Nat /\ evictions <= evictions'
    <3>1. PICK chat \in {New(o) : o \in Options} \union {Free} : Opened(chats, chat)
      BY <1>3 DEF OtherOpens
    <3>2. evictions \in Nat /\ (evictions' = evictions \/ evictions' = evictions + 1)
      BY <3>1 DEF Opened, IInv, Typed
    <3> QED BY <3>2
  <2> QED BY <2>1, <2>2 DEF Lost
<1>4. CASE Ask \/ Info \/ UseHeld \/ Open
  BY <1>4 DEF Ask, Info, UseHeld, Open, Fails, Lost
<1>5. CASE Tick \/ Crash \/ Notice \/ Load \/ UNCHANGED vars
  BY <1>5 DEF Tick, Crash, Notice, Load, vars, app, Lost
<1>6. CASE Answered \/ ClientLeft \/ Broken
  BY <1>6 DEF Answered, ClientLeft, Broken, Fails, Lost
<1>7. CASE End
  BY <1>7 DEF End, Over, Lost
<1> QED BY <1>1, <1>2, <1>3, <1>4, <1>5, <1>6, <1>7 DEF Next

\* app_daemon_chat's second attempt: a request fails as "unknown chat" only if
\* another client evicted the chat while it ran.
THEOREM SpecRetryHidesEviction == Spec => []RetryHidesEviction
<1>1. Init => Lost
  BY DEF Init, Lost
<1>2. Lost => RetryHidesEviction
  BY DEF Lost, RetryHidesEviction
<1> QED BY <1>1, <1>2, LostKeeps, SpecIInv, PTL DEF Spec

\* app_daemon_chat sends only what the chat in geistd does not hold already.
THEOREM SpecSendsOnlyTheRest == Spec => SendsOnlyTheRest
<1>1. ASSUME IInv, [Next]_vars, pc = "rewind", pc' = "send", NEW s \in Found(held.id),
             keep' < Len(chats[s].messages), keep' + 1 < Len(request.messages)
      PROVE  chats[s].messages[keep' + 1] # request.messages[keep' + 1]
  <2>1. Rewind
    BY <1>1 DEF Next, OtherOpens, Tick, Crash, Notice, Load, Ask, Info, UseHeld, Open, Send,
                Answered, ClientLeft, Broken, End, Over, Fails, app, vars
  <2>2. Common(keep')
    BY <2>1 DEF Rewind
  <2>3. chats[s].messages = held.messages
    BY <1>1, FoundAgrees
  <2> QED BY <1>1, <2>2, <2>3 DEF Common
<1>2. IInv /\ [Next]_vars =>
        (pc = "rewind" /\ pc' = "send" => \A s \in Found(held.id) :
            keep' < Len(chats[s].messages) /\ keep' + 1 < Len(request.messages) =>
                chats[s].messages[keep' + 1] # request.messages[keep' + 1])
  BY <1>1
<1> QED BY <1>2, SpecIInv, PTL DEF Spec, SendsOnlyTheRest

-----------------------------------------------------------------------------
(* Types and bounds.                                                       *)

\* A request, and an answer to it.
Short(m) == Len(m) <= MaxMessages + 1

Sizes == Short(held.messages) /\ \A s \in Slots : Short(chats[s].messages)

Limits ==
    /\ rc \in {"ok", "refused", "failed", "lost"} /\ {ready, alive} \subseteq BOOLEAN
    /\ keep <= MaxMessages /\ ids <= MaxIds /\ socket <= MaxStarts /\ now <= MaxTime

\* Each eviction was of a chat of its own, and of an earlier one than a held chat
\* that still stands.
Evicted ==
    /\ evictions <= ids
    /\ \A s \in Slots : held.id # 0 /\ chats[s].id = held.id => evictions < held.id

LEMMA RequestShort ==
    ASSUME IInv, pc # "idle"
    PROVE  Len(request.messages) <= MaxMessages /\ Len(request.messages) \in Nat
           /\ MaxMessages \in Nat
<1>1. request \in Requests
  BY RequestOpen
<1>2. MaxMessages \in Nat
  BY ChatAssumption
<1>3. PICK n \in 1..MaxMessages : request.messages \in [1..n -> Messages]
  BY <1>1 DEF Requests
<1>4. Len(request.messages) = n
  BY <1>2, <1>3
<1> QED BY <1>2, <1>3, <1>4

\* What is said after a request.
LEMMA AppendShort ==
    ASSUME IInv, pc # "idle", NEW text \in Messages
    PROVE  Short(request.messages) /\ Short(Append(request.messages, text))
<1>1. Len(Append(request.messages, text)) = Len(request.messages) + 1
  BY RequestOpen, AppendProperties
<1> QED BY <1>1, RequestShort DEF Short

LEMMA SizesKeeps == ASSUME IInv, Sizes, [Next]_vars PROVE Sizes'
<1>1. MaxMessages \in Nat
  BY ChatAssumption
<1>2. Short(<<>>) /\ Free.messages = <<>>
  BY <1>1 DEF Short, Free
<1>3. CASE Tick \/ Notice \/ Ask \/ Info \/ UseHeld \/ UNCHANGED vars
  BY <1>3 DEF Tick, Notice, Ask, Info, UseHeld, vars, app, proc, Sizes
<1>4. ASSUME chats' = [s \in Slots |-> Free], held' = held PROVE Sizes'
  BY <1>2, <1>4 DEF Sizes
<1>5. CASE Crash \/ Load
  BY <1>4, <1>5 DEF Crash, Load, Starts, app
<1>6. CASE End
  <2>1. CASE UNCHANGED <<held, chats>>
    BY <2>1 DEF Sizes
  <2>2. held' = held /\ (UNCHANGED chats \/ chats' = [s \in Slots |-> Free])
    BY <1>6 DEF End, Starts
  <2> QED BY <1>4, <2>1, <2>2
<1>7. ASSUME NEW table \in [Slots -> Chat], \A s \in Slots : Short(table[s].messages),
             NEW chat, chat.messages = <<>>, Opened(table, chat)
      PROVE  \A s \in Slots : Short(chats'[s].messages)
  <2>1. PICK v \in Slots : chats' = [table EXCEPT ![v] = chat]
    BY <1>7 DEF Opened
  <2>2. \A s \in Slots : chats'[s] = table[s] \/ chats'[s] = chat
    BY <2>1
  <2> QED BY <1>2, <1>7, <2>2
<1>8. \A o : New(o).messages = <<>>
  BY DEF New
<1>9. CASE OtherOpens
  <2>1. PICK chat \in {New(o) : o \in Options} \union {Free} : Opened(chats, chat)
    BY <1>9 DEF OtherOpens
  <2>2. chat.messages = <<>>
    BY <1>2, <1>8
  <2>3. \A s \in Slots : Short(chats'[s].messages)
    BY <1>7, <2>1, <2>2 DEF IInv, Typed, Sizes
  <2>4. held' = held
    BY <1>9 DEF OtherOpens, app
  <2> QED BY <2>3, <2>4 DEF Sizes
<1>10. CASE Open
  <2>1. PICK table \in {chats} \union (IF held.socket = socket THEN {Closed(held.id)} ELSE {}) :
          /\ \/ \E chat \in {New(request.options), Free} : Opened(table, chat)
             \/ chats' = table
          /\ \/ held' = [id |-> ids + 1, socket |-> socket,
                          options |-> request.options, messages |-> <<>>]
             \/ held' = [held EXCEPT !.id = 0, !.messages = <<>>]
    BY <1>10 DEF Open
  <2>5. held'.messages = <<>>
    <3>1. held \in Mirror
      BY DEF IInv, Typed
    <3>2. CASE held' = [held EXCEPT !.id = 0, !.messages = <<>>]
      BY <3>1, <3>2 DEF Mirror
    <3> QED BY <2>1, <3>2
  <2>2. table \in [Slots -> Chat]
    BY <2>1, ClosedType DEF IInv, Typed
  <2>3. \A s \in Slots : Short(table[s].messages)
    BY <1>2, <2>1 DEF Closed, Sizes
  <2>4. \A s \in Slots : Short(chats'[s].messages)
    BY <1>2, <1>7, <1>8, <2>1, <2>2, <2>3
  <2> QED BY <1>2, <2>4, <2>5 DEF Sizes
<1>11. CASE Rewind
  <2>1. PICK k \in 0..MaxMessages :
          /\ Common(k)
          /\ \/ UNCHANGED <<chats, held>>
             \/ /\ chats' = Rewound(k) /\ \A s \in Found(held.id) : k <= Len(chats[s].messages)
                /\ held' \in {held, [held EXCEPT !.messages = SubSeq(@, 1, k)]}
             \/ chats' = chats /\ held' = [held EXCEPT !.id = 0]
    BY <1>11 DEF Rewind, Unknown
  <2>2. pc = "rewind" /\ k \in Nat /\ k <= MaxMessages /\ held \in Mirror
    BY <1>1, <1>11 DEF Rewind, IInv, Typed
  <2>3. \A m \in Seq(Messages) : k <= Len(m) => Short(SubSeq(m, 1, k))
    BY <1>1, <2>2, Start DEF Short
  <2>4. Short(held'.messages)
    BY <2>1, <2>2, <2>3, CommonIs DEF Sizes, Mirror
  <2>5. \A s \in Slots : Short(chats'[s].messages)
    <3>1. CASE UNCHANGED chats
      BY <3>1 DEF Sizes
    <3>2. CASE chats' = Rewound(k) /\ \A s \in Found(held.id) : k <= Len(chats[s].messages)
      <4>1. held.id # 0
        BY <2>2 DEF IInv, Second
      <4>2. /\ \A s \in Found(held.id) : chats'[s].messages = SubSeq(chats[s].messages, 1, k)
            /\ \A s \in Slots : s \in Found(held.id) \/ chats'[s].messages = chats[s].messages
        BY <2>2, <3>2, <4>1, RewoundIs
      <4>3. \A s \in Slots : chats[s].messages \in Seq(Messages)
        BY DEF IInv, Typed, Chat
      <4> QED BY <2>3, <3>2, <4>2, <4>3 DEF Sizes
    <3> QED BY <2>1, <3>1, <3>2
  <2> QED BY <2>4, <2>5 DEF Sizes
<1>12. CASE Send
  <2>1. /\ pc = "send" /\ held'.messages = held.messages
        /\ UNCHANGED chats \/ chats' = Sent(chats)
    BY <1>12 DEF Send, Unknown, IInv, Typed, Mirror
  <2>2. \A s \in Slots : Short(chats'[s].messages)
    <3>1. CASE chats' = Sent(chats)
      <4>1. /\ \A s \in Found(held.id) : chats'[s].messages = request.messages
            /\ \A s \in Slots : s \in Found(held.id) \/ chats'[s].messages = chats[s].messages
        BY <2>1, <3>1, SentIs
      <4>2. Short(request.messages)
        BY <1>1, <2>1, RequestShort DEF Short
      <4> QED BY <4>1, <4>2 DEF Sizes
    <3> QED BY <2>1, <3>1 DEF Sizes
  <2> QED BY <2>1, <2>2 DEF Sizes
<1>13. CASE Answered \/ ClientLeft \/ Broken
  <2>1. /\ pc = "wait"
        /\ UNCHANGED chats \/ \E said \in Messages : chats' = Said(said)
        /\ UNCHANGED held \/ \E text \in Messages : Push(text)
    BY <1>13 DEF Answered, ClientLeft, Broken
  <2>2. Short(held'.messages)
    <3>1. ASSUME NEW text \in Messages, Push(text) PROVE Short(held'.messages)
      <4>1. held'.messages \in {Append(request.messages, text), held.messages}
        BY <2>1, <3>1, PushIs
      <4> QED BY <2>1, <4>1, AppendShort DEF Sizes
    <3> QED BY <2>1, <3>1 DEF Sizes
  <2>3. \A s \in Slots : Short(chats'[s].messages)
    <3>1. ASSUME NEW said \in Messages, chats' = Said(said), NEW s \in Slots
          PROVE  Short(chats'[s].messages)
      <4>1. CASE s \in Found(held.id)
        <5>1. chats'[s].messages = Append(chats[s].messages, said)
          BY <3>1, <4>1, SaidIs
        <5>2. chats[s].messages = request.messages
          BY <2>1, <4>1 DEF Found, IInv, Serving
        <5> QED BY <2>1, <5>1, <5>2, AppendShort
      <4>2. CASE s \notin Found(held.id)
        BY <3>1, <4>2 DEF Said, Sizes
      <4> QED BY <4>1, <4>2
    <3> QED BY <2>1, <3>1 DEF Sizes
  <2> QED BY <2>2, <2>3 DEF Sizes
<1> QED BY <1>3, <1>5, <1>6, <1>9, <1>10, <1>11, <1>12, <1>13 DEF Next

LEMMA LimitsKeeps == ASSUME IInv, Limits, [Next]_vars PROVE Limits'
<1>1. /\ MaxMessages \in Nat /\ MaxStarts \in Nat /\ MaxTime \in Nat /\ MaxIds \in Nat
      /\ ids \in Nat /\ socket \in Nat /\ now \in Nat
  BY ChatAssumption DEF IInv, Typed
<1>2. ASSUME NEW table, NEW chat, Opened(table, chat), chat.id = ids + 1 \/ chat = Free
      PROVE  ids' <= MaxIds
  BY <1>1, <1>2 DEF Opened
<1>3. \A o : New(o).id = ids + 1
  BY DEF New
<1>4. CASE OtherOpens
  <2>1. PICK chat \in {New(o) : o \in Options} \union {Free} : Opened(chats, chat)
    BY <1>4 DEF OtherOpens
  <2>2. ids' <= MaxIds
    BY <1>2, <1>3, <2>1
  <2>3. UNCHANGED <<rc, ready, alive, keep, socket, now>>
    BY <1>4 DEF OtherOpens, app, proc
  <2> QED BY <2>2, <2>3 DEF Limits
<1>5. CASE Open
  <2>1. ids' <= MaxIds
    <3>1. ASSUME NEW table, NEW chat \in {New(request.options), Free}, Opened(table, chat)
          PROVE  ids' <= MaxIds
      BY <1>2, <1>3, <3>1
    <3>2. CASE UNCHANGED ids
      BY <3>2 DEF Limits
    <3> QED BY <1>5, <3>1, <3>2 DEF Open
  <2>2. UNCHANGED <<ready, alive, keep, socket, now>> /\ rc' \in {rc, "failed"}
    BY <1>5 DEF Open, Fails, proc
  <2> QED BY <2>1, <2>2 DEF Limits
<1>6. CASE Load \/ End
  <2>1. UNCHANGED <<keep, ids, now>> /\ rc' \in {rc, "ok"}
    BY <1>6 DEF Load, End, Over, app
  <2>2. \/ UNCHANGED <<ready, socket, alive>> \/ Starts
        \/ alive' = FALSE /\ ready' = FALSE /\ UNCHANGED socket
    BY <1>6 DEF Load, End, proc
  <2>3. {ready', alive'} \subseteq BOOLEAN
    BY <2>2 DEF Limits, Starts
  <2>4. socket' = socket \/ (socket < MaxStarts /\ socket' = socket + 1)
    BY <2>2 DEF Starts
  <2>5. socket' <= MaxStarts
    BY <1>1, <2>4 DEF Limits
  <2> QED BY <2>1, <2>3, <2>5 DEF Limits
<1>7. CASE Tick \/ Crash \/ Notice \/ UNCHANGED vars
  <2>1. UNCHANGED <<rc, keep, ids, socket>>
    BY <1>7 DEF Tick, Crash, Notice, vars, app, proc
  <2>2. now' = now \/ (now < MaxTime /\ now' = now + 1)
    BY <1>7 DEF Tick, Crash, Notice, vars
  <2>3. ready' \in {ready, FALSE} /\ alive' \in {alive, FALSE}
    BY <1>7 DEF Tick, Crash, Notice, vars, proc
  <2>4. {ready', alive'} \subseteq BOOLEAN
    BY <2>3 DEF Limits
  <2>5. now' <= MaxTime
    BY <1>1, <2>2 DEF Limits
  <2> QED BY <2>1, <2>4, <2>5 DEF Limits
<1>8. CASE Ask \/ Info \/ UseHeld
  <2>1. UNCHANGED <<ready, alive, keep, ids, socket, now>>
    BY <1>8 DEF Ask, Info, UseHeld, proc
  <2>2. rc' \in {rc, "failed", "refused"}
    BY <1>8 DEF Ask, Info, UseHeld, Fails
  <2> QED BY <2>1, <2>2 DEF Limits
<1>9. CASE Rewind \/ Send
  <2>1. UNCHANGED <<ready, alive, ids, socket, now>>
    BY <1>9 DEF Rewind, Send, proc
  <2>2. keep' \in {keep} \union 0..MaxMessages
    BY <1>9 DEF Rewind, Send
  <2>3. rc' \in {rc, "failed", "refused", "lost"}
    BY <1>9 DEF Rewind, Send, Unknown, Fails
  <2> QED BY <1>1, <2>1, <2>2, <2>3 DEF Limits
<1>10. CASE Answered \/ ClientLeft \/ Broken
  <2>1. UNCHANGED <<ready, alive, keep, ids, socket, now>>
    BY <1>10 DEF Answered, ClientLeft, Broken, proc
  <2>2. rc' \in {"ok", "failed", "refused"}
    BY <1>10 DEF Answered, ClientLeft, Broken, Fails
  <2> QED BY <2>1, <2>2 DEF Limits
<1> QED BY <1>4, <1>5, <1>6, <1>7, <1>8, <1>9, <1>10 DEF Next

LEMMA EvictedKeeps == ASSUME IInv, Evicted, [Next]_vars PROVE Evicted'
<1>1. /\ ids \in Nat /\ evictions \in Nat /\ held.id \in Nat /\ held.id <= ids
      /\ \A s \in Slots : chats[s].id \in Nat /\ chats[s].id <= ids
      /\ \A s, t \in Slots : chats[s].id = chats[t].id /\ chats[s].id # 0 => s = t
  BY DEF IInv, Typed, Unique, Chat, Mirror
<1>2. ASSUME UNCHANGED <<ids, evictions>>, held'.id \in {held.id, 0},
             \A s \in Slots : chats'[s].id \in {chats[s].id, 0}
      PROVE  Evicted'
  BY <1>2 DEF Evicted
<1>3. ASSUME NEW table \in [Slots -> Chat],
             \A s \in Slots : table[s].id \in {chats[s].id, 0},
             NEW chat, Fresh(chat), Opened(table, chat)
      PROVE  /\ evictions' <= ids
             /\ ids' \in {ids, ids + 1} /\ (chat.id = ids + 1 => ids' = ids + 1)
             /\ \A s \in Slots : held.id # 0 /\ chats'[s].id = held.id => evictions' < held.id
  <2>1. PICK v \in Slots :
          /\ chats' = [table EXCEPT ![v] = chat]
          /\ evictions' = IF held.id # 0 /\ table[v].id = held.id THEN evictions + 1
                                                                  ELSE evictions
    BY <1>3 DEF Opened
  <2>2. ids' \in {ids, ids + 1} /\ (chat.id = ids + 1 => ids' = ids + 1)
    BY <1>1, <1>3 DEF Opened, Fresh, Free
  <2>3. chat.id # held.id \/ held.id = 0
    BY <1>1, <1>3 DEF Fresh, Free
  <2>4. chats'[v] = chat /\ \A s \in Slots : s # v => chats'[s] = table[s]
    BY <1>3, <2>1
  <2>5. CASE held.id # 0 /\ table[v].id = held.id
    <3>1. chats[v].id = held.id
      BY <1>3, <2>5
    <3>2. evictions < held.id /\ evictions' = evictions + 1
      BY <2>1, <2>5, <3>1 DEF Evicted
    <3>3. \A s \in Slots : chats'[s].id # held.id
      BY <1>1, <1>3, <2>3, <2>4, <2>5, <3>1
    <3> QED BY <1>1, <2>2, <3>2, <3>3
  <2>6. CASE ~(held.id # 0 /\ table[v].id = held.id)
    <3>1. evictions' = evictions
      BY <2>1, <2>6
    <3>2. \A s \in Slots : held.id # 0 /\ chats'[s].id = held.id => chats[s].id = held.id
      BY <1>3, <2>3, <2>4
    <3> QED BY <1>1, <2>2, <3>1, <3>2 DEF Evicted
  <2> QED BY <2>5, <2>6
<1>4. CASE OtherOpens
  <2>1. PICK chat \in {New(o) : o \in Options} \union {Free} : Opened(chats, chat)
    BY <1>4 DEF OtherOpens
  <2>2. Fresh(chat)
    BY NewFresh DEF IInv
  <2>3. held' = held
    BY <1>4 DEF OtherOpens, app
  <2>4. /\ evictions' <= ids /\ ids' \in {ids, ids + 1}
        /\ \A s \in Slots : held.id # 0 /\ chats'[s].id = held.id => evictions' < held.id
    BY <1>3, <2>1, <2>2 DEF IInv, Typed
  <2>5. evictions' \in Nat
    BY <2>1, <1>1 DEF Opened
  <2> QED BY <1>1, <2>3, <2>4, <2>5 DEF Evicted
<1>5. CASE Open
  <2>1. PICK table \in {chats} \union (IF held.socket = socket THEN {Closed(held.id)} ELSE {}) :
          \/ /\ Opened(table, New(request.options))
             /\ held' = [id |-> ids + 1, socket |-> socket,
                         options |-> request.options, messages |-> <<>>]
          \/ /\ \/ \E chat \in {New(request.options), Free} : Opened(table, chat)
                \/ chats' = table /\ UNCHANGED <<ids, evictions>>
             /\ held' = [held EXCEPT !.id = 0, !.messages = <<>>]
    BY <1>5 DEF Open
  <2>2. table \in [Slots -> Chat] /\ \A s \in Slots : table[s].id \in {chats[s].id, 0}
    BY <2>1, ClosedType DEF IInv, Typed
  <2>3. request.options \in Options
    BY <1>5, RequestOpen DEF Open
  <2>4. ASSUME NEW chat \in {New(request.options), Free}, Opened(table, chat)
        PROVE  /\ evictions' <= ids /\ evictions' \in Nat
               /\ ids' \in {ids, ids + 1} /\ (chat.id = ids + 1 => ids' = ids + 1)
    <3>1. Fresh(chat)
      BY <2>3, NewFresh DEF IInv
    <3>2. evictions' \in Nat
      BY <1>1, <2>4 DEF Opened
    <3> QED BY <1>3, <2>2, <2>4, <3>1, <3>2
  <2>5. CASE /\ Opened(table, New(request.options))
             /\ held' = [id |-> ids + 1, socket |-> socket,
                         options |-> request.options, messages |-> <<>>]
    <3>1. New(request.options).id = ids + 1 /\ held'.id = ids + 1
      BY <2>5 DEF New
    <3>2. evictions' <= ids /\ evictions' \in Nat /\ ids' = ids + 1
      BY <2>4, <2>5, <3>1
    <3> QED BY <1>1, <3>1, <3>2 DEF Evicted
  <2>6. CASE /\ \/ \E chat \in {New(request.options), Free} : Opened(table, chat)
                \/ chats' = table /\ UNCHANGED <<ids, evictions>>
             /\ held' = [held EXCEPT !.id = 0, !.messages = <<>>]
    <3>1. held'.id = 0
      BY <2>6 DEF IInv, Typed, Mirror
    <3>2. evictions' <= ids'
      <4>1. CASE \E chat \in {New(request.options), Free} : Opened(table, chat)
        BY <1>1, <2>4, <4>1
      <4>2. CASE UNCHANGED <<ids, evictions>>
        BY <4>2 DEF Evicted
      <4> QED BY <2>6, <4>1, <4>2
    <3> QED BY <3>1, <3>2 DEF Evicted
  <2> QED BY <2>1, <2>5, <2>6
<1>6. CASE Ask
  BY <1>1, <1>6 DEF Ask, Evicted
<1>7. CASE Crash \/ Load \/ End
  <2>1. UNCHANGED <<ids, evictions, held>>
    BY <1>7 DEF Crash, Load, End, app
  <2>2. UNCHANGED chats \/ chats' = [s \in Slots |-> Free]
    BY <1>7 DEF Crash, Load, End, Starts
  <2> QED BY <1>2, <2>1, <2>2 DEF Free
<1>8. CASE Tick \/ Notice \/ Info \/ UseHeld \/ UNCHANGED vars
  BY <1>2, <1>8 DEF Tick, Notice, Info, UseHeld, app, vars
<1>9. CASE Rewind
  <2>1. /\ pc = "rewind" /\ UNCHANGED <<ids, evictions>>
        /\ held'.id \in {held.id, 0}
    BY <1>9 DEF Rewind, Unknown, IInv, Typed, Mirror
  <2>2. \A s \in Slots : chats'[s].id = chats[s].id
    <3>1. held.id # 0
      BY <2>1 DEF IInv, Second
    <3>2. ASSUME NEW k \in 0..MaxMessages, chats' = Rewound(k),
                 \A s \in Found(held.id) : k <= Len(chats[s].messages)
          PROVE  \A s \in Slots : chats'[s].id = chats[s].id
      BY <3>1, <3>2, RewoundIs, ChatAssumption
    <3> QED BY <1>9, <3>2 DEF Rewind
  <2> QED BY <1>2, <2>1, <2>2
<1>10. CASE Send
  <2>1. /\ pc = "send" /\ UNCHANGED <<ids, evictions>>
        /\ held'.id \in {held.id, 0} /\ (UNCHANGED chats \/ chats' = Sent(chats))
    BY <1>10 DEF Send, Unknown, IInv, Typed, Mirror
  <2>2. \A s \in Slots : chats'[s].id = chats[s].id
    BY <2>1, SentIs
  <2> QED BY <1>2, <2>1, <2>2
<1>11. CASE Answered \/ ClientLeft \/ Broken
  <2>1. /\ pc = "wait" /\ UNCHANGED <<ids, evictions>>
        /\ UNCHANGED chats \/ \E said \in Messages : chats' = Said(said)
        /\ UNCHANGED held \/ \E text \in Messages : Push(text)
    BY <1>11 DEF Answered, ClientLeft, Broken
  <2>2. \A s \in Slots : chats'[s].id = chats[s].id
    BY <2>1, SaidIs
  <2>3. held'.id \in {held.id, 0}
    BY <2>1, PushIs
  <2> QED BY <1>2, <2>1, <2>2, <2>3
<1> QED BY <1>4, <1>5, <1>6, <1>7, <1>8, <1>9, <1>10, <1>11 DEF Next

\* The array of the messages the app keeps, and the chat in geistd, hold a
\* request of APP_CHAT_MESSAGES and its answer, however often a request is
\* repeated, rewound, cut short or sent to a chat left by another.
THEOREM SpecTypeOK == Spec => []TypeOK
<1> DEFINE Bounds == Sizes /\ Limits /\ Evicted
<1>1. Init => Bounds
  <2> SUFFICES ASSUME Init PROVE Bounds
    OBVIOUS
  <2>1. Len(<<>>) = 0 /\ Free.messages = <<>> /\ Free.id = 0
    BY DEF Free
  <2>2. Sizes
    BY <2>1, ChatAssumption DEF Init, Sizes, Short, NoHeld
  <2>3. Limits
    <3>1. {ready, alive} \subseteq BOOLEAN /\ rc = "ok"
      BY DEF Init
    <3>2. keep = 0 /\ ids = 0 /\ socket = 0 /\ now = 0
      BY DEF Init
    <3> QED BY <3>1, <3>2, ChatAssumption DEF Limits
  <2>4. Evicted
    BY DEF Init, Evicted, NoHeld
  <2> QED BY <2>2, <2>3, <2>4
<1>2. IInv /\ Bounds /\ [Next]_vars => Bounds'
  BY SizesKeeps, LimitsKeeps, EvictedKeeps
<1>3. IInv /\ Bounds => TypeOK
  <2> SUFFICES ASSUME IInv, Sizes, Limits, Evicted PROVE TypeOK
    OBVIOUS
  <2>1. /\ {MaxMessages, MaxIds, MaxStarts, MaxTime} \subseteq Nat
        /\ {ids, socket, now, keep, evictions, held.id} \subseteq Nat
        /\ held.id <= ids
    BY ChatAssumption DEF IInv, Typed, Unique, Mirror
  <2>2. ASSUME NEW m \in Seq(Messages), Short(m) PROVE m \in Texts
    <3>1. Len(m) \in 0..MaxMessages + 1 /\ m \in [1..Len(m) -> Messages]
      BY <2>1, <2>2, LenProperties DEF Short
    <3> QED BY <3>1 DEF Texts
  <2>3. held.messages \in Texts /\ \A s \in Slots : chats[s].messages \in Texts
    BY <2>2 DEF IInv, Typed, Chat, Mirror, Sizes
  <2>4. request \in Requests \union {None} /\ attempt \in {1, 2}
        /\ pc \in {"idle", "info", "fit", "rewind", "send", "wait", "end"}
    BY DEF IInv, Typed, Phases
  <2>5. /\ keep \in 0..MaxMessages /\ held.id \in 0..MaxIds /\ socket \in 0..MaxStarts
        /\ ids \in 0..MaxIds /\ now \in 0..MaxTime /\ evictions \in 0..MaxIds
    BY <2>1 DEF Limits, Evicted
  <2> QED BY <2>3, <2>4, <2>5 DEF TypeOK, Limits
<1> QED BY <1>1, <1>2, <1>3, SpecIInv, PTL DEF Spec

=============================================================================
