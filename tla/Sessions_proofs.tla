-------------------------- MODULE Sessions_proofs --------------------------
(***************************************************************************)
(* Proofs about Sessions, for every number of sessions, every vocabulary   *)
(* and every context length: while the engine's reset does not fail, the   *)
(* history that geistd keeps of a session is what the engine's cache       *)
(* holds, and the table implements Contexts; whether or not it fails, no   *)
(* history reaches CTX_CAP and a session is not evicted before one that    *)
(* was used earlier.                                                       *)
(***************************************************************************)
EXTENDS Sessions, SequenceTheorems, FiniteSetTheorems, TLAPS

(***************************************************************************)
(* The inductive invariant: each entry of the table is sound.  Neither     *)
(* property is inductive alone: that an append keeps history and cache     *)
(* equal needs hist_push not to refuse, which needs the bound.             *)
(***************************************************************************)
Session ==
    [id : Nat, hist : Seq(Tokens), pinned : Nat, used : Nat,
     kv : Seq(Tokens), enginePinned : Nat]

Sound(s) ==
    /\ s \in Session
    /\ s.hist = s.kv /\ s.pinned = s.enginePinned
    /\ s.pinned <= Len(s.hist) /\ Len(s.hist) < CtxCap

SInv ==
    /\ DOMAIN table = Slots
    /\ \A i \in Slots : Sound(table[i])
    /\ opened \in Nat /\ now \in Nat
    /\ generating \in Slots \union {0}

-----------------------------------------------------------------------------
(* Sequences.                                                              *)

\* First returns a prefix of the length asked for.
LEMMA FirstIs ==
    ASSUME NEW s \in Seq(Tokens), NEW n \in 0..Len(s)
    PROVE  First(n, s) \in Seq(Tokens) /\ Len(First(n, s)) = n
<1>1. Len(s) \in Nat /\ \A k \in 1..n : s[k] \in Tokens
  BY ElementOfSeq, LenProperties
<1> QED  BY <1>1, SubSeqProperties DEF First

\* A prefix of a sequence is a prefix of what is appended to it.
LEMMA FirstOfConcat ==
    ASSUME NEW s \in Seq(Tokens), NEW t \in Seq(Tokens), NEW n \in 0..Len(s)
    PROVE  First(n, s \o t) = First(n, s)
<1>1. CASE n = 0
  BY <1>1, SubSeqEmpty DEF First
<1>2. CASE n # 0
  <2>1. Len(s) \in Nat /\ 1 \in 1..Len(s) /\ n \in 1..Len(s)
    BY <1>2, LenProperties
  <2> QED  BY <2>1, SubSeqOfConcat1 DEF First
<1> QED  BY <1>1, <1>2

\* What a sequence has after its first n elements.
LEMMA RestIs ==
    ASSUME NEW s \in Seq(Tokens), NEW n \in 0..Len(s)
    PROVE  /\ SubSeq(s, n + 1, Len(s)) \in Seq(Tokens)
           /\ Len(SubSeq(s, n + 1, Len(s))) = Len(s) - n
<1>1. Len(s) \in Nat /\ \A k \in n + 1..Len(s) : s[k] \in Tokens
  BY ElementOfSeq, LenProperties
<1> QED  BY <1>1, SubSeqProperties

\* hist_push appends what fits.
LEMMA PushedFits ==
    ASSUME NEW h \in Seq(Tokens), NEW t \in Seq(Tokens), Len(h) + Len(t) <= CtxCap
    PROVE  Pushed(h, t) = h \o t /\ Pushed(h, t) \in Seq(Tokens)
           /\ Len(Pushed(h, t)) = Len(h) + Len(t)
<1>1. Len(h) \in Nat /\ Len(t) \in Nat /\ CtxCap \in Nat
  BY LenProperties, SessionsAssumption
<1>2. Pushed(h, t) = h \o t
  BY <1>1 DEF Pushed
<1> QED  BY <1>2, ConcatProperties

-----------------------------------------------------------------------------
(* Entries of the table.                                                   *)

\* A free entry is sound, and so is that of a session just opened.
LEMMA NoSessionSound ==
    ASSUME NEW n \in Nat, NEW u \in Nat
    PROVE  Sound(NoSession) /\ Sound([NoSession EXCEPT !.id = n, !.used = u])
<1>1. <<>> \in Seq(Tokens) /\ Len(<<>>) = 0 /\ CtxCap \in Nat \ {0}
  BY EmptySeq, SessionsAssumption
<1>2. NoSession \in Session /\ [NoSession EXCEPT !.id = n, !.used = u] \in Session
  BY <1>1 DEF Session, NoSession
<1>3. Sound(NoSession)
  BY <1>1, <1>2 DEF Sound, NoSession
<1> DEFINE e == [NoSession EXCEPT !.id = n, !.used = u]
<1>4. e.hist = NoSession.hist /\ e.kv = NoSession.kv /\ e.pinned = NoSession.pinned
      /\ e.enginePinned = NoSession.enginePinned
  BY <1>2 DEF Session
<1> HIDE DEF e
<1>5. Sound(e)
  BY <1>1, <1>2, <1>3, <1>4 DEF Sound, e
<1> QED  BY <1>3, <1>5 DEF e

\* When a session was last named does not matter.
LEMMA UsedSound ==
    ASSUME NEW s, Sound(s), NEW u \in Nat
    PROVE  Sound([s EXCEPT !.used = u])
BY DEF Sound, Session

\* Truncation leaves history and cache the same prefix.
LEMMA CutSound ==
    ASSUME NEW s, Sound(s)
    PROVE  LET c == [Truncated(s) EXCEPT !.hist = First(s.pinned, @)]
           IN  Sound(c) /\ Len(c.hist) = s.pinned /\ c.hist = First(s.pinned, s.hist)
<1>1. s.pinned \in 0..Len(s.hist) /\ s.hist \in Seq(Tokens) /\ Len(s.hist) \in Nat
  BY LenProperties DEF Sound, Session
<1>2. First(s.pinned, s.hist) \in Seq(Tokens) /\ Len(First(s.pinned, s.hist)) = s.pinned
  BY <1>1, FirstIs
<1>3. CtxCap \in Nat
  BY SessionsAssumption
<1> DEFINE p == First(s.pinned, s.hist)
           c == [Truncated(s) EXCEPT !.hist = First(s.pinned, @)]
<1>4. c = [s EXCEPT !.kv = p, !.hist = p]
  BY DEF Sound, Session, Truncated
<1>5. [s EXCEPT !.kv = p, !.hist = p] \in Session
  BY <1>2 DEF Sound, Session
<1>6. c.hist = p /\ c.kv = p /\ c.pinned = s.pinned /\ c.enginePinned = s.enginePinned
  BY <1>4 DEF Sound, Session
<1>7. s.pinned \in Nat /\ s.pinned < CtxCap
  BY <1>1, <1>3 DEF Sound, Session
<1> HIDE DEF p, c
<1>8. Sound(c) /\ Len(c.hist) = s.pinned /\ c.hist = p
  BY <1>2, <1>4, <1>5, <1>6, <1>7 DEF Sound, p
<1> QED  BY <1>8 DEF c, p

\* A decoded token joins both.
LEMMA DecodedSound ==
    ASSUME NEW s, Sound(s), HasRoom(s), NEW t \in Tokens
    PROVE  Sound(Decoded(s, t))
<1>1. s.hist \in Seq(Tokens) /\ Len(s.hist) \in Nat /\ CtxCap \in Nat /\ s.pinned \in Nat
      /\ s.kv = s.hist /\ s \in Session
  BY LenProperties, SessionsAssumption DEF Sound, Session
<1>2. <<t>> \in Seq(Tokens) /\ Len(<<t>>) = 1
  OBVIOUS
<1>3. Pushed(s.hist, <<t>>) = s.hist \o <<t>> /\ Len(Pushed(s.hist, <<t>>)) = Len(s.hist) + 1
  <2>1. Len(s.hist) + Len(<<t>>) <= CtxCap
    BY <1>1, <1>2 DEF HasRoom
  <2> QED  BY <1>1, <1>2, <2>1, PushedFits
<1>4. Append(s.hist, t) = s.hist \o <<t>> /\ Append(s.hist, t) \in Seq(Tokens)
  BY <1>1, AppendIsConcat, AppendProperties
<1> DEFINE h == Append(s.hist, t)
           d == Decoded(s, t)
<1>5. d = [s EXCEPT !.kv = h, !.hist = h]
  BY <1>1, <1>3, <1>4 DEF Decoded
<1>6. [s EXCEPT !.kv = h, !.hist = h] \in Session
  BY <1>1, <1>4 DEF Session
<1>7. d.hist = h /\ d.kv = h /\ d.pinned = s.pinned /\ d.enginePinned = s.enginePinned
  BY <1>1, <1>5 DEF Session
<1>8. Len(h) = Len(s.hist) + 1 /\ Len(h) < CtxCap /\ s.pinned <= Len(h)
      /\ s.pinned = s.enginePinned
  BY <1>1, <1>3, <1>4 DEF HasRoom, Sound
<1> HIDE DEF d, h
<1>9. Sound(d)
  BY <1>5, <1>6, <1>7, <1>8 DEF Sound
<1> QED  BY <1>9 DEF d

\* Replacing one entry by a sound one keeps the invariant.
LEMMA SetSound ==
    ASSUME SInv, NEW i \in Slots, NEW s, Sound(s), Set(i, s),
           UNCHANGED <<opened, now>>, generating' \in Slots \union {0}
    PROVE  SInv'
<1>1. Sound([s EXCEPT !.used = now])
  BY UsedSound DEF SInv
<1>2. DOMAIN table' = Slots
      /\ \A j \in Slots : table'[j] = IF j = i THEN [s EXCEPT !.used = now] ELSE table[j]
  BY DEF Set, SInv
<1>3. \A j \in Slots : Sound(table'[j])
  BY <1>1, <1>2 DEF SInv
<1> QED  BY <1>2, <1>3 DEF SInv, Sound, Session, Slots

-----------------------------------------------------------------------------
(* Requests.                                                               *)

\* The end of prefill: appended to both, or both cut back to the pinned prefix.
LEMMA FillSound ==
    ASSUME SInv, ~ResetMayFail, NEW i \in Slots, NEW s, Sound(s),
           NEW ids \in Seq(Tokens), Len(s.hist) <= Len(ids), Len(ids) < CtxCap,
           Fill(i, s, ids), UNCHANGED <<opened, now, generating>>
    PROVE  SInv'
<1> DEFINE tail == SubSeq(ids, Len(s.hist) + 1, Len(ids))
           all  == s.hist \o tail
<1>1. s \in Session /\ s.hist \in Seq(Tokens) /\ Len(s.hist) \in Nat /\ CtxCap \in Nat
      /\ s.kv = s.hist /\ s.pinned \in 0..Len(s.hist) /\ s.pinned = s.enginePinned
      /\ Len(ids) \in Nat /\ Len(s.hist) \in 0..Len(ids)
  BY LenProperties, SessionsAssumption DEF Sound, Session
<1>2. tail \in Seq(Tokens) /\ Len(tail) = Len(ids) - Len(s.hist)
  BY <1>1, RestIs
<1>3. generating' \in Slots \union {0}
  BY DEF SInv
<1> HIDE DEF tail
<1>4. CASE Set(i, [s EXCEPT !.kv = @ \o tail, !.hist = Pushed(@, tail)])
  <2>1. Len(s.hist) + Len(tail) = Len(ids)
    BY <1>1, <1>2
  <2>2. Len(s.hist) + Len(tail) <= CtxCap
    BY <1>1, <2>1
  <2>3. Pushed(s.hist, tail) = all /\ all \in Seq(Tokens) /\ Len(all) = Len(ids)
    BY <1>1, <1>2, <2>1, <2>2, PushedFits
  <2> HIDE DEF all
  <2>4. [s EXCEPT !.kv = @ \o tail, !.hist = Pushed(@, tail)]
          = [s EXCEPT !.kv = all, !.hist = all]
    BY <1>1, <2>3 DEF all
  <2>5. [s EXCEPT !.kv = all, !.hist = all] \in Session
    BY <1>1, <2>3 DEF Session
  <2>6. Sound([s EXCEPT !.kv = all, !.hist = all])
    BY <1>1, <2>3, <2>5 DEF Sound, Session
  <2> QED  BY <1>3, <1>4, <2>4, <2>6, SetSound
<1>5. CASE \E failed \in PartlyFilled(s, tail) : \E after \in MaybeTruncated(failed) :
             Set(i, [after EXCEPT !.hist = First(s.pinned, @)])
  <2>1. PICK n \in 0..Len(tail) :
          Set(i, [Truncated([s EXCEPT !.kv = @ \o First(n, tail)])
                    EXCEPT !.hist = First(s.pinned, @)])
    BY <1>5 DEF PartlyFilled, MaybeTruncated
  <2> DEFINE some == First(n, tail)
             cut  == [Truncated(s) EXCEPT !.hist = First(s.pinned, @)]
  <2>2. some \in Seq(Tokens)
    BY <1>2, FirstIs
  <2>3. First(s.pinned, s.hist \o some) = First(s.pinned, s.hist)
    BY <1>1, <2>2, FirstOfConcat
  <2> HIDE DEF some
  <2>4. [Truncated([s EXCEPT !.kv = @ \o some]) EXCEPT !.hist = First(s.pinned, @)] = cut
    BY <1>1, <2>3 DEF Truncated, Session
  <2>5. Sound(cut)
    BY CutSound
  <2>6. Set(i, cut)
    BY <2>1, <2>4 DEF some
  <2> QED  BY <1>3, <2>5, <2>6, SetSound
<1> QED  BY <1>4, <1>5 DEF Fill, tail

LEMMA PrefillSound ==
    ASSUME SInv, ~ResetMayFail, NEW i \in Slots, NEW ids \in Requests, Prefill(i, ids)
    PROVE  SInv'
<1> DEFINE s == table[i]
           cut == [Truncated(s) EXCEPT !.hist = First(s.pinned, @)]
<1>1. Sound(s) /\ UNCHANGED <<opened, now, generating>> /\ generating' \in Slots \union {0}
  BY DEF SInv, Prefill
<1>2. ids \in Seq(Tokens) /\ Len(ids) < CtxCap /\ Len(ids) \in Nat
  BY SessionsAssumption, LenProperties DEF Prefill
<1>3. CASE PrefillTail(i, ids)
  <2>1. Len(s.hist) <= Len(ids) /\ Fill(i, s, ids)
    BY <1>3 DEF PrefillTail, StartsWith
  <2> QED  BY <1>1, <1>2, <2>1, FillSound
<1>4. CASE PrefillSame(i, ids)
  BY <1>1, <1>4, SetSound DEF PrefillSame
<1>5. CASE PrefillDiverged(i, ids)
  <2>1. Sound(cut) /\ Len(cut.hist) = s.pinned
    BY <1>1, CutSound
  <2>2. Fill(i, cut, ids)
    BY <1>5 DEF PrefillDiverged
  <2>3. s.pinned \in 0..Len(s.hist) /\ s.hist \in Seq(Tokens)
    BY <1>1, LenProperties DEF Sound, Session
  <2>4. s.pinned <= Len(ids)
    BY <1>5, <2>3, FirstIs DEF PrefillDiverged, StartsWith
  <2> QED  BY <1>1, <1>2, <2>1, <2>2, <2>4, FillSound
<1> QED  BY <1>3, <1>4, <1>5 DEF Prefill

LEMMA ResetSound ==
    ASSUME SInv, ~ResetMayFail, NEW i \in Slots, Reset(i)
    PROVE  SInv'
<1> DEFINE s == table[i]
           cut == [Truncated(s) EXCEPT !.hist = First(s.pinned, @)]
<1>1. Sound(cut)
  BY CutSound DEF SInv
<1>2. Truncated(s).pinned = s.pinned
  BY DEF SInv, Sound, Session, Truncated
<1>3. Set(i, cut) /\ UNCHANGED <<opened, now>> /\ generating' \in Slots \union {0}
  BY <1>2 DEF Reset, MaybeTruncated, SInv
<1> QED  BY <1>1, <1>3, SetSound

LEMMA PinSound ==
    ASSUME SInv, NEW i \in Slots, NEW n \in 1..CtxCap, Pin(i, n)
    PROVE  SInv'
<1> DEFINE s == table[i]
           p == First(n, s.hist)
<1>1. Sound(s) /\ s \in Session /\ s.hist \in Seq(Tokens) /\ Len(s.hist) \in Nat
      /\ CtxCap \in Nat /\ s.kv = s.hist
  BY LenProperties, SessionsAssumption DEF SInv, Sound, Session
<1>2. n \in 1..Len(s.hist)
      /\ Set(i, [s EXCEPT !.kv = p, !.enginePinned = n, !.hist = p, !.pinned = n])
  BY <1>1 DEF Pin
<1>3. p \in Seq(Tokens) /\ Len(p) = n /\ n \in Nat /\ n < CtxCap
  BY <1>1, <1>2, FirstIs DEF Sound
<1> HIDE DEF p
<1> DEFINE c == [s EXCEPT !.kv = p, !.enginePinned = n, !.hist = p, !.pinned = n]
<1>4. c \in Session /\ c.kv = p /\ c.hist = p /\ c.pinned = n /\ c.enginePinned = n
  BY <1>1, <1>3 DEF Session
<1> HIDE DEF c
<1>5. Sound(c)
  BY <1>3, <1>4 DEF Sound
<1> QED  BY <1>2, <1>5, SetSound DEF Pin, SInv, c

LEMMA UnpinSound ==
    ASSUME SInv, NEW i \in Slots, Unpin(i)
    PROVE  SInv'
<1> DEFINE s == table[i]
<1>1. s \in Session /\ <<>> \in Seq(Tokens) /\ Len(<<>>) = 0 /\ CtxCap \in Nat \ {0}
  BY EmptySeq, SessionsAssumption DEF SInv, Sound
<1> DEFINE c == [s EXCEPT !.kv = <<>>, !.enginePinned = 0, !.hist = <<>>, !.pinned = 0]
<1>2. c \in Session /\ c.kv = <<>> /\ c.hist = <<>> /\ c.pinned = 0 /\ c.enginePinned = 0
  BY <1>1 DEF Session
<1> HIDE DEF c
<1>3. Sound(c)
  BY <1>1, <1>2 DEF Sound
<1> QED  BY <1>3, SetSound DEF Unpin, SInv, c

LEMMA OpenSound ==
    ASSUME SInv, Open
    PROVE  SInv'
<1> DEFINE kept == [i \in Slots |-> IF Idle(i) THEN NoSession ELSE table[i]]
           new  == [NoSession EXCEPT !.id = opened + 1, !.used = now]
<1>1. Sound(NoSession) /\ Sound(new)
  <2>1. opened + 1 \in Nat /\ now \in Nat
    BY DEF SInv
  <2> QED  BY <2>1, NoSessionSound
<1>2. \A i \in Slots : Sound(kept[i])
  BY <1>1 DEF SInv
<1>3. /\ opened' \in Nat
      /\ \E s \in {NoSession, new} : table' = [kept EXCEPT ![Slot(kept)] = s]
  BY DEF Open, SInv
<1> HIDE DEF kept, new
<1>4. DOMAIN kept = Slots
  BY DEF kept
<1>5. DOMAIN table' = Slots /\ \A i \in Slots : Sound(table'[i])
  BY <1>1, <1>2, <1>3, <1>4
<1> QED  BY <1>3, <1>5 DEF Open, SInv

-----------------------------------------------------------------------------
(* The theorems.                                                           *)

\* main starts with an empty table.
LEMMA InitSound == Init => SInv
<1>1. Sound(NoSession)
  BY NoSessionSound, 0 \in Nat
<1> QED  BY <1>1 DEF Init, SInv

LEMMA NextSound ==
    ASSUME SInv, ~ResetMayFail, [Next]_vars
    PROVE  SInv'
<1>1. CASE Accept \/ Hello \/ Hangup \/ GenerateEnd \/ UNCHANGED vars
  BY <1>1 DEF Accept, Hello, Hangup, GenerateEnd, vars, SInv
<1>2. CASE Tick
  BY <1>2 DEF Tick, SInv
<1>3. CASE Open
  BY <1>3, OpenSound
<1>4. ASSUME NEW i \in Slots, Touch(i) \/ Generate(i)
      PROVE  SInv'
  <2>1. Sound(table[i]) /\ Set(i, table[i]) /\ UNCHANGED <<opened, now>>
        /\ generating' \in Slots \union {0}
    BY <1>4 DEF Touch, Generate, SInv
  <2> QED  BY <2>1, SetSound
<1>5. ASSUME NEW i \in Slots, Close(i)
      PROVE  SInv'
  BY <1>5, NoSessionSound DEF Close, SInv
<1>6. ASSUME NEW i \in Slots, Reset(i) \/ Unpin(i)
      PROVE  SInv'
  BY <1>6, ResetSound, UnpinSound
<1>7. ASSUME NEW i \in Slots, NEW ids \in Requests, Prefill(i, ids)
      PROVE  SInv'
  BY <1>7, PrefillSound
<1>8. ASSUME NEW i \in Slots, NEW n \in 1..CtxCap, Pin(i, n)
      PROVE  SInv'
  BY <1>8, PinSound
<1>9. ASSUME NEW i \in Slots, NEW t \in Tokens, Step(i, t)
      PROVE  SInv'
  <2>1. Sound(Decoded(table[i], t))
    BY <1>9, DecodedSound DEF Step, SInv
  <2> QED  BY <1>9, <2>1, SetSound DEF Step, SInv
<1>10. ASSUME NEW t \in Tokens, GenerateToken(t)
       PROVE  SInv'
  <2>1. generating \in Slots /\ Sound(Decoded(table[generating], t))
    BY <1>10, DecodedSound DEF GenerateToken, SInv
  <2> QED  BY <1>10, <2>1 DEF GenerateToken, SInv
<1> QED
  BY <1>1, <1>2, <1>3, <1>4, <1>5, <1>6, <1>7, <1>8, <1>9, <1>10 DEF Next

\* Every entry of the table stays sound.
THEOREM TableIsSound == ASSUME ~ResetMayFail PROVE Spec => []SInv
<1>1. SInv /\ [Next]_vars => SInv'
  BY NextSound
<1> QED  BY <1>1, InitSound, PTL DEF Spec

\* struct sess, "what the KV cache holds, in order": whatever the order of
\* prefills, steps, generations, pins, resets and failures.
THEOREM HistoryIsTheCache == ASSUME ~ResetMayFail PROVE Spec => []HistoryIsCache
<1>1. SInv => HistoryIsCache
  BY DEF SInv, Sound, HistoryIsCache
<1> QED  BY <1>1, TableIsSound, PTL

-----------------------------------------------------------------------------
(* The refinement.  An identifier names at most one entry, and random_id   *)
(* gives out none twice; so each operation on an entry changes the context *)
(* of one identifier.                                                      *)

Named ==
    /\ \A i \in Slots : table[i].id <= opened
    /\ \A i, j \in Slots : Live(i) /\ table[i].id = table[j].id => i = j
    /\ opened \in 0..MaxId

\* The session that a generate request streams from is live: nothing else is
\* served meanwhile.
Busy == generating # 0 => Live(generating)

\* An operation on entry i leaves it with the cache c.
Becomes(i, c) ==
    \A j \in Slots : /\ table'[j].id = table[j].id
                     /\ table'[j].kv = IF j = i THEN c ELSE table[j].kv

LEMMA SetBecomes ==
    ASSUME SInv, NEW i \in Slots, NEW s, Sound(s), s.id = table[i].id, Set(i, s)
    PROVE  Becomes(i, s.kv)
BY DEF Set, Becomes, SInv, Sound, Session

\* The context of an identifier.
LEMMA ContextOf ==
    ASSUME SInv, Named
    PROVE  /\ \A i \in Slots : Live(i) =>
                /\ table[i].id \in Ids /\ context[table[i].id] = table[i].kv
                /\ table[i].kv # Absent
           /\ \A id \in Ids : (\A i \in Slots : table[i].id # id) => context[id] = Absent
<1>1. ASSUME NEW i \in Slots, Live(i)
      PROVE  /\ table[i].id \in Ids /\ context[table[i].id] = table[i].kv
             /\ table[i].kv # Absent
  <2>1. table[i].id \in Ids /\ table[i].kv \in Seq(Tokens)
    BY <1>1, SessionsAssumption DEF SInv, Sound, Session, Named, Live, Ids
  <2>2. (CHOOSE j \in Slots : table[j].id = table[i].id) = i
    BY <1>1 DEF Named
  <2> QED  BY <1>1, <2>1, <2>2, SessionsAssumption DEF context
<1>2. ASSUME NEW id \in Ids, \A i \in Slots : table[i].id # id
      PROVE  context[id] = Absent
  BY <1>2 DEF context
<1> QED  BY <1>1, <1>2

\* An operation on one entry changes one context.
LEMMA OneContextChanges ==
    ASSUME SInv, Named, NEW i \in Slots, Live(i), NEW c, Becomes(i, c), opened' = opened
    PROVE  /\ Named'
           /\ context' = [context EXCEPT ![table[i].id] = c]
           /\ context[table[i].id] = table[i].kv /\ context[table[i].id] # Absent
           /\ table[i].id \in Ids
<1>1. Named'
  BY DEF Named, Becomes, Live
<1>2. /\ table[i].id \in Ids /\ context[table[i].id] = table[i].kv
      /\ context[table[i].id] # Absent
  BY ContextOf
<1>3. ASSUME NEW id \in Ids
      PROVE  context'[id] = IF id = table[i].id THEN c ELSE context[id]
  <2>1. CASE \E j \in Slots : table[j].id = id
    <3>1. PICK j \in Slots : table[j].id = id
      BY <2>1
    <3>2. (CHOOSE k \in Slots : table'[k].id = id) = j
          /\ (CHOOSE k \in Slots : table[k].id = id) = j
      BY <3>1 DEF Becomes, Named, Ids, Live
    <3>3. context'[id] = table'[j].kv /\ context[id] = table[j].kv
      BY <3>1, <3>2 DEF context, Becomes
    <3> QED  BY <3>1, <3>3 DEF Becomes, Named, Live, Ids
  <2>2. CASE \A j \in Slots : table[j].id # id
    BY <2>2 DEF context, Becomes
  <2> QED  BY <2>1, <2>2
<1>4. context' = [context EXCEPT ![table[i].id] = c]
  BY <1>2, <1>3 DEF context
<1> QED  BY <1>1, <1>2, <1>4

\* An operation that cuts a context back.
LEMMA CutPromise ==
    ASSUME SInv, Named, NEW i \in Slots, Live(i), NEW n \in 0..Len(table[i].kv),
           Becomes(i, First(n, table[i].kv)), UNCHANGED <<opened, reply>>
    PROVE  Named' /\ Promise!Cut(table[i].id)
<1>1. First(n, table[i].kv) \in Promise!Prefixes(table[i].kv)
  BY DEF Promise!Prefixes, First
<1> QED  BY <1>1, OneContextChanges DEF Promise!Cut

\* One that leaves every context as it is.
LEMMA SameContexts ==
    ASSUME SInv, Named, \A j \in Slots : table'[j].id = table[j].id /\ table'[j].kv = table[j].kv,
           UNCHANGED <<opened, reply>>
    PROVE  Named' /\ UNCHANGED <<context, reply>>
<1>1. Named'
  BY DEF Named, Live
<1>2. ASSUME NEW id \in Ids, NEW i \in Slots, table[i].id = id
      PROVE  (CHOOSE j \in Slots : table'[j].id = id) = i
             /\ (CHOOSE j \in Slots : table[j].id = id) = i
  BY <1>2 DEF Named, Live, Ids
<1>3. ASSUME NEW id \in Ids
      PROVE  context'[id] = context[id]
  <2>1. CASE \E i \in Slots : table[i].id = id
    <3>1. PICK i \in Slots : table[i].id = id
      BY <2>1
    <3>2. \E j \in Slots : table'[j].id = id
      BY <3>1
    <3>3. context[id] = table[i].kv
      BY <1>2, <3>1 DEF context
    <3>4. context'[id] = table'[i].kv
      BY <1>2, <3>1, <3>2 DEF context
    <3> QED  BY <3>3, <3>4
  <2>2. CASE ~\E i \in Slots : table[i].id = id
    BY <2>2 DEF context
  <2> QED  BY <2>1, <2>2
<1> QED  BY <1>1, <1>3 DEF context

\* The end of prefill makes the context what the request says, or fails and
\* leaves the pinned prefix.
LEMMA FillPromise ==
    ASSUME SInv, Named, ~ResetMayFail, NEW i \in Slots, Live(i),
           NEW s, Sound(s), s.id = table[i].id,
           s.pinned <= Len(table[i].kv), First(s.pinned, s.hist) = First(s.pinned, table[i].kv),
           NEW ids \in Requests, StartsWith(ids, s.hist), Len(ids) < CtxCap,
           Fill(i, s, ids), opened' = opened
    PROVE  Named' /\ Promise!Prefill(table[i].id, ids)
<1> DEFINE tail == SubSeq(ids, Len(s.hist) + 1, Len(ids))
<1>1. s \in Session /\ s.hist \in Seq(Tokens) /\ Len(s.hist) \in Nat /\ CtxCap \in Nat
      /\ s.kv = s.hist /\ s.pinned \in 0..Len(s.hist) /\ s.pinned = s.enginePinned
      /\ Len(ids) \in Nat /\ Len(s.hist) \in 0..Len(ids) /\ ids \in Seq(Tokens)
      /\ table[i].kv \in Seq(Tokens) /\ Len(table[i].kv) \in Nat
  BY LenProperties, SessionsAssumption DEF Sound, Session, StartsWith, SInv
<1>2. tail \in Seq(Tokens) /\ Len(tail) = Len(ids) - Len(s.hist)
  BY <1>1, RestIs
<1>3. s.hist \o tail = ids
  <2>1. s.hist = First(Len(s.hist), ids)
    BY DEF StartsWith
  <2>2. 1 \in 1..Len(ids) + 1 /\ Len(s.hist) \in 1 - 1..Len(ids)
        /\ Len(ids) \in Len(s.hist)..Len(ids)
    BY <1>1
  <2>3. SubSeq(ids, 1, Len(s.hist)) \o tail = SubSeq(ids, 1, Len(ids))
    BY <1>1, <2>2, ConcatAdjacentSubSeq
  <2>4. SubSeq(ids, 1, Len(ids)) = ids
    BY <1>1, SubSeqFull
  <2> QED  BY <2>1, <2>3, <2>4 DEF First
<1> HIDE DEF tail
<1>4. CASE /\ Set(i, [s EXCEPT !.kv = @ \o tail, !.hist = Pushed(@, tail)])
           /\ Answered(i, ids, TRUE)
  <2>1. Becomes(i, ids)
    BY <1>1, <1>3, <1>4 DEF Set, Becomes, SInv, Sound, Session
  <2> QED  BY <1>4, <2>1, OneContextChanges DEF Promise!Prefill, Answered
<1>5. CASE /\ \E failed \in PartlyFilled(s, tail) : \E after \in MaybeTruncated(failed) :
                Set(i, [after EXCEPT !.hist = First(s.pinned, @)])
           /\ Answered(i, ids, FALSE)
  <2>1. PICK n \in 0..Len(tail) :
          Set(i, [Truncated([s EXCEPT !.kv = @ \o First(n, tail)])
                    EXCEPT !.hist = First(s.pinned, @)])
    BY <1>5 DEF PartlyFilled, MaybeTruncated
  <2> DEFINE some == First(n, tail)
             kept == First(s.pinned, table[i].kv)
  <2>2. some \in Seq(Tokens)
    BY <1>2, FirstIs
  <2>3. First(s.pinned, s.hist \o some) = kept
    BY <1>1, <2>2, FirstOfConcat
  <2> HIDE DEF some
  <2>4. Becomes(i, kept)
    BY <1>1, <2>1, <2>3 DEF Set, Becomes, SInv, Sound, Session, Truncated, some
  <2>5. kept \in Promise!Prefixes(table[i].kv)
    BY <1>1 DEF Promise!Prefixes, First
  <2> HIDE DEF kept
  <2> QED  BY <1>5, <2>4, <2>5, OneContextChanges DEF Promise!Prefill, Answered
<1> QED  BY <1>4, <1>5 DEF Fill, tail

LEMMA PrefillPromise ==
    ASSUME SInv, Named, ~ResetMayFail, NEW i \in Slots, NEW ids \in Requests, Prefill(i, ids)
    PROVE  Named' /\ Promise!Prefill(table[i].id, ids)
<1> DEFINE s == table[i]
           cut == [Truncated(s) EXCEPT !.hist = First(s.pinned, @)]
<1>1. Sound(s) /\ Live(i) /\ opened' = opened /\ s.hist = s.kv
      /\ s.hist \in Seq(Tokens) /\ s.pinned \in 0..Len(s.hist) /\ s \in Session
  BY LenProperties DEF SInv, Prefill, Found, Sound, Session
<1>2. Len(ids) < CtxCap /\ ids \in Seq(Tokens) /\ Len(ids) \in Nat
  BY SessionsAssumption, LenProperties DEF Prefill
<1>3. CASE PrefillTail(i, ids)
  BY <1>1, <1>2, <1>3, FillPromise DEF PrefillTail
<1>4. CASE PrefillSame(i, ids)
  <2>1. Becomes(i, ids)
    BY <1>1, <1>4, SetBecomes DEF PrefillSame
  <2> QED  BY <1>1, <1>4, <2>1, OneContextChanges DEF PrefillSame, Promise!Prefill, Answered
<1>5. CASE PrefillDiverged(i, ids)
  <2>1. /\ Sound(cut) /\ Len(cut.hist) = s.pinned
        /\ cut.hist = First(s.pinned, s.hist)
    BY <1>1, CutSound
  <2>2. Fill(i, cut, ids) /\ StartsWith(ids, cut.hist)
    BY <1>5, <2>1 DEF PrefillDiverged
  <2>3. cut.id = s.id /\ cut.pinned = s.pinned
    BY <1>1 DEF Truncated, Session
  <2>4. First(s.pinned, cut.hist) = First(s.pinned, s.hist)
    <3>1. cut.hist \in Seq(Tokens) /\ First(Len(cut.hist), cut.hist) = cut.hist
      BY <2>1, SubSeqFull DEF Sound, Session, First
    <3> QED  BY <2>1, <3>1
  <2> HIDE DEF cut
  <2>5. s.pinned <= Len(s.kv)
    BY <1>1
  <2> QED  BY <1>1, <1>2, <2>1, <2>2, <2>3, <2>4, <2>5, FillPromise
<1> QED  BY <1>3, <1>4, <1>5 DEF Prefill

\* open names at most one identifier anew; those that are gone were evicted.
LEMMA OpenPromise ==
    ASSUME SInv, Named, Open
    PROVE  Named' /\ Promise!Open
<1> DEFINE kept == [i \in Slots |-> IF Idle(i) THEN NoSession ELSE table[i]]
           fresh == [NoSession EXCEPT !.id = opened + 1, !.used = now]
           slot == Slot(kept)
           new  == IF opened' = opened THEN {} ELSE {opened + 1}
           gone == {id \in Ids : context'[id] = Absent}
<1>1. /\ NoSession.id = 0
      /\ fresh.id = opened + 1 /\ fresh.kv = <<>>
      /\ opened \in Nat /\ MaxId \in Nat /\ opened <= MaxId
  BY SessionsAssumption DEF NoSession, SInv, Named
<1>2. /\ \A i \in Slots : kept[i] = table[i] \/ kept[i].id = 0
      /\ DOMAIN kept = Slots
  BY <1>1
<1>3. \/ opened' = opened + 1 /\ opened < MaxId /\ table' = [kept EXCEPT ![slot] = fresh]
      \/ opened' = opened /\ table' = [kept EXCEPT ![slot] = NoSession]
  BY DEF Open
<1> HIDE DEF kept, fresh, slot
<1>4. ASSUME NEW i \in Slots
      PROVE  \/ table'[i] = table[i] \/ table'[i].id = 0
             \/ /\ i = slot /\ table'[i].id = opened + 1 /\ table'[i].kv = <<>>
                /\ opened' = opened + 1
  BY <1>1, <1>2, <1>3
<1>5. Named'
  <2>1. \A i \in Slots : table[i].id \in Nat /\ table[i].id <= opened
    BY DEF Named, SInv, Sound, Session
  <2>2. opened' \in 0..MaxId
    BY <1>1, <1>3
  <2>3. \A i \in Slots : table'[i].id <= opened'
    BY <1>1, <1>3, <1>4, <2>1
  <2>4. ASSUME NEW i \in Slots, NEW j \in Slots, table'[i].id # 0, table'[i].id = table'[j].id
        PROVE  i = j
    BY <1>1, <1>4, <2>1, <2>4 DEF Named, Live
  <2> QED  BY <2>2, <2>3, <2>4 DEF Named, Live
<1>6. new \in SUBSET {id \in Ids : context[id] = Absent}
      /\ \A id, other \in new : id = other
  <2>1. CASE opened' = opened
    BY <2>1
  <2>2. CASE opened' = opened + 1
    <3>1. opened + 1 \in Ids /\ \A i \in Slots : table[i].id # opened + 1
      BY <1>1, <1>3, <2>2 DEF Ids, Named, SInv, Sound, Session
    <3> QED  BY <1>1, <2>2, <3>1, ContextOf
  <2> QED  BY <1>3, <2>1, <2>2
<1>7. ASSUME NEW id \in Ids, id \notin gone
      PROVE  context'[id] = IF id \in new THEN <<>> ELSE context[id]
  <2>1. PICK i \in Slots : table'[i].id = id
    BY <1>7 DEF context
  <2>2. (CHOOSE j \in Slots : table'[j].id = id) = i
    BY <1>5, <2>1 DEF Named, Live, Ids
  <2>3. context'[id] = table'[i].kv
    BY <2>1, <2>2 DEF context
  <2>4. CASE table'[i] = table[i]
    <3>1. Live(i) /\ context[id] = table[i].kv
      BY <2>1, <2>4, ContextOf DEF Live, Ids
    <3>2. id \notin new
      BY <1>1, <2>1, <2>4 DEF Named
    <3> QED  BY <2>3, <2>4, <3>1, <3>2
  <2>5. CASE /\ table'[i].id = opened + 1 /\ table'[i].kv = <<>>
             /\ opened' = opened + 1
    BY <1>1, <2>1, <2>3, <2>5
  <2> QED  BY <1>4, <2>1, <2>4, <2>5 DEF Ids
<1>8. context' = [id \in Ids |-> IF id \in gone THEN Absent
                                ELSE IF id \in new THEN <<>> ELSE context[id]]
  BY <1>7 DEF context
<1>9. gone \in SUBSET Ids
  OBVIOUS
<1> HIDE DEF gone, new
<1> QED  BY <1>5, <1>6, <1>8, <1>9 DEF Promise!Open, Open

LEMMA ClosePromise ==
    ASSUME SInv, Named, NEW i \in Slots, Close(i)
    PROVE  Named' /\ Promise!Close(table[i].id)
<1>1. /\ Live(i) /\ table'[i].id = 0 /\ UNCHANGED <<opened, reply>>
      /\ \A j \in Slots \ {i} : table'[j] = table[j]
  BY DEF Close, Found, SInv, NoSession
<1>2. Named'
  BY <1>1 DEF Named, Live, SInv
<1>3. /\ table[i].id \in Ids /\ context[table[i].id] # Absent
  BY <1>1, ContextOf
<1>4. ASSUME NEW id \in Ids
      PROVE  context'[id] = IF id = table[i].id THEN Absent ELSE context[id]
  <2>1. CASE \E j \in Slots \ {i} : table[j].id = id
    <3>1. PICK j \in Slots \ {i} : table[j].id = id
      BY <2>1
    <3>2. (CHOOSE k \in Slots : table'[k].id = id) = j
          /\ (CHOOSE k \in Slots : table[k].id = id) = j /\ id # table[i].id
      BY <1>1, <3>1 DEF Named, Live, Ids
    <3> QED  BY <1>1, <3>1, <3>2 DEF context
  <2>2. CASE \A j \in Slots \ {i} : table[j].id # id
    <3>1. \A j \in Slots : table'[j].id # id
      BY <1>1, <2>2 DEF Ids
    <3>2. id # table[i].id => context[id] = Absent
      BY <2>2 DEF context
    <3> QED  BY <3>1, <3>2 DEF context
  <2> QED  BY <2>1, <2>2
<1>5. context' = [context EXCEPT ![table[i].id] = Absent]
  BY <1>3, <1>4 DEF context
<1> QED  BY <1>1, <1>2, <1>3, <1>5 DEF Promise!Close

\* Every step of the table is a step of the promise, or changes no context.
LEMMA StepPromise ==
    ASSUME SInv, Named, Busy, ~ResetMayFail, [Next]_vars
    PROVE  Named' /\ [Promise!Next]_<<context, reply>>
<1>1. CASE Accept \/ Hello \/ Hangup \/ Tick \/ GenerateEnd \/ UNCHANGED vars
  BY <1>1, SameContexts DEF Accept, Hello, Hangup, Tick, GenerateEnd, vars
<1>2. CASE Open
  BY <1>2, OpenPromise DEF Promise!Next
<1>3. ASSUME NEW i \in Slots, Touch(i) \/ Generate(i)
      PROVE  Named' /\ [Promise!Next]_<<context, reply>>
  <2>1. Sound(table[i]) /\ Set(i, table[i]) /\ UNCHANGED <<opened, reply>>
    BY <1>3 DEF Touch, Generate, SInv
  <2>2. Becomes(i, table[i].kv)
    BY <2>1, SetBecomes
  <2> QED  BY <2>1, <2>2, SameContexts DEF Becomes
<1>4. ASSUME NEW i \in Slots, Close(i)
      PROVE  Named' /\ [Promise!Next]_<<context, reply>>
  <2>1. table[i].id \in Ids
    BY <1>4, ContextOf DEF Close, Found
  <2> QED  BY <1>4, <2>1, ClosePromise DEF Promise!Next
<1>5. ASSUME NEW i \in Slots, NEW n \in 0..Len(table[i].kv), Found(i),
             Becomes(i, First(n, table[i].kv)), UNCHANGED <<opened, reply>>
      PROVE  Named' /\ [Promise!Next]_<<context, reply>>
  <2>1. table[i].id \in Ids
    BY <1>5, ContextOf DEF Found
  <2> QED  BY <1>5, <2>1, CutPromise DEF Promise!Next, Found
<1>6. ASSUME NEW i \in Slots
      PROVE  /\ table[i] \in Session /\ Sound(table[i])
             /\ table[i].hist = table[i].kv /\ table[i].pinned = table[i].enginePinned
             /\ Len(table[i].kv) \in Nat /\ table[i].pinned \in 0..Len(table[i].kv)
  BY LenProperties DEF SInv, Sound, Session
<1>7. ASSUME NEW i \in Slots, Reset(i)
      PROVE  Named' /\ [Promise!Next]_<<context, reply>>
  <2>1. Becomes(i, First(table[i].pinned, table[i].kv))
    BY <1>6, <1>7 DEF Reset, MaybeTruncated, Truncated, Set, Becomes, SInv, Session
  <2> QED  BY <1>5, <1>6, <1>7, <2>1 DEF Reset
<1>8. ASSUME NEW i \in Slots, Unpin(i)
      PROVE  Named' /\ [Promise!Next]_<<context, reply>>
  <2>1. First(0, table[i].kv) = <<>>
    BY SubSeqEmpty DEF First
  <2>2. Becomes(i, First(0, table[i].kv))
    BY <1>6, <1>8, <2>1 DEF Unpin, Set, Becomes, SInv, Session
  <2> QED  BY <1>5, <1>6, <1>8, <2>2 DEF Unpin
<1>9. ASSUME NEW i \in Slots, NEW n \in 1..CtxCap, Pin(i, n)
      PROVE  Named' /\ [Promise!Next]_<<context, reply>>
  <2>1. n \in 0..Len(table[i].kv)
    BY <1>6, <1>9 DEF Pin
  <2>2. Becomes(i, First(n, table[i].kv))
    BY <1>6, <1>9 DEF Pin, Set, Becomes, SInv, Session
  <2> QED  BY <1>5, <1>9, <2>1, <2>2 DEF Pin
<1>10. ASSUME NEW i \in Slots, NEW ids \in Requests, Prefill(i, ids)
       PROVE  Named' /\ [Promise!Next]_<<context, reply>>
  <2>1. table[i].id \in Ids
    BY <1>10, ContextOf DEF Prefill, Found
  <2> QED  BY <1>10, <2>1, PrefillPromise DEF Promise!Next
<1>11. ASSUME NEW i \in Slots, NEW t \in Tokens, Live(i), opened' = opened, reply' = reply,
              Becomes(i, Append(table[i].kv, t))
       PROVE  Named' /\ [Promise!Next]_<<context, reply>>
  <2>1. /\ table[i].id \in Ids /\ Named'
        /\ Promise!Decode(table[i].id, t)
    BY <1>11, OneContextChanges DEF Promise!Decode
  <2> QED  BY <2>1 DEF Promise!Next
<1>12. ASSUME NEW i \in Slots, NEW t \in Tokens, Step(i, t)
       PROVE  Named' /\ [Promise!Next]_<<context, reply>>
  <2>1. Becomes(i, Append(table[i].kv, t))
    BY <1>6, <1>12 DEF Step, Decoded, Set, Becomes, SInv, Session
  <2> QED  BY <1>11, <1>12, <2>1 DEF Step, Found
<1>13. ASSUME NEW t \in Tokens, GenerateToken(t)
       PROVE  Named' /\ [Promise!Next]_<<context, reply>>
  <2>1. generating \in Slots
    BY <1>13 DEF GenerateToken, SInv
  <2>2. Becomes(generating, Append(table[generating].kv, t))
    BY <1>6, <1>13, <2>1 DEF GenerateToken, Decoded, Becomes, SInv, Session
  <2> QED  BY <1>11, <1>13, <2>1, <2>2 DEF GenerateToken, Busy
<1> QED
  BY <1>1, <1>2, <1>3, <1>4, <1>7, <1>8, <1>9, <1>10, <1>12, <1>13 DEF Next

LEMMA BusyKept ==
    ASSUME SInv, Busy, [Next]_vars
    PROVE  Busy'
<1>1. CASE \E t \in Tokens : GenerateToken(t)
  BY <1>1 DEF GenerateToken, Busy, Live, Decoded, SInv, Sound, Session
<1>2. CASE \E i \in Slots : Generate(i)
  <2>1. PICK i \in Slots : Generate(i)
    BY <1>2
  <2>2. generating' = i /\ table'[i].id = table[i].id /\ Live(i)
    BY <2>1 DEF Generate, Set, Found, SInv, Sound, Session
  <2> QED  BY <2>2 DEF Busy, Live
<1>3. CASE Accept \/ Tick \/ UNCHANGED vars
  BY <1>3 DEF Accept, Tick, vars, Busy, Live
<1>4. CASE Hello \/ Hangup \/ GenerateEnd
  BY <1>4 DEF Hello, Hangup, GenerateEnd, Busy
<1>5. CASE Open
  BY <1>5 DEF Open, Serving, Busy
<1>6. ASSUME NEW i \in Slots,
             \/ Touch(i) \/ Close(i) \/ Reset(i) \/ Unpin(i)
             \/ \E ids \in Requests : Prefill(i, ids)
             \/ \E n \in 1..CtxCap : Pin(i, n)
             \/ \E t \in Tokens : Step(i, t)
      PROVE  Busy'
  <2>1. generating = 0 /\ generating' = generating
    BY <1>6 DEF Touch, Close, Reset, Unpin, Prefill, Pin, Step, Found, Serving
  <2> QED  BY <2>1 DEF Busy
<1> QED  BY <1>1, <1>2, <1>3, <1>4, <1>5, <1>6 DEF Next

\* The table implements Contexts: what a client's identifier names is what its
\* last successful prefill asked for and what was decoded since, whatever other
\* clients do.
THEOREM PromiseIsKept == ASSUME ~ResetMayFail PROVE Spec => KeepsPromise
<1>1. Init => Named /\ Busy
  BY SessionsAssumption DEF Init, NoSession, Named, Busy, Live
<1>2. Init => Promise!Init
  <2> SUFFICES ASSUME Init PROVE Promise!Init
    OBVIOUS
  <2>1. \A i \in Slots : table[i].id = 0
    BY DEF Init, NoSession
  <2>2. \A id \in Ids : \A i \in Slots : table[i].id # id
    BY <2>1 DEF Ids
  <2>3. context = [id \in Ids |-> Absent]
    BY <2>2 DEF context
  <2> QED  BY <2>3 DEF Init, Promise!Init
<1>3. SInv /\ Named /\ Busy /\ [Next]_vars => Named' /\ Busy'
  BY StepPromise, BusyKept
<1>4. SInv /\ Named /\ Busy /\ [Next]_vars => [Promise!Next]_<<context, reply>>
  BY StepPromise
<1> QED
  BY <1>1, <1>2, <1>3, <1>4, TableIsSound, PTL DEF Spec, KeepsPromise, Promise!Spec
-----------------------------------------------------------------------------
(* When the engine's reset may fail.  History and cache then differ, but   *)
(* what is kept of each session stays within its bounds, and the table     *)
(* evicts in the order of use.                                             *)

\* The cache may hold more than the history.
Bounded(s) ==
    /\ s \in Session
    /\ s.pinned = s.enginePinned
    /\ s.pinned <= Len(s.hist) /\ Len(s.hist) < CtxCap /\ Len(s.hist) <= Len(s.kv)

BInv ==
    /\ DOMAIN table = Slots
    /\ \A i \in Slots : Bounded(table[i]) /\ table[i].id <= opened
    /\ opened \in Nat /\ now \in Nat
    /\ generating \in Slots \union {0}

\* What a bounded entry is made of.
LEMMA BoundedIs ==
    ASSUME NEW s, Bounded(s)
    PROVE  /\ s \in Session /\ s.hist \in Seq(Tokens) /\ s.kv \in Seq(Tokens)
           /\ Len(s.hist) \in Nat /\ Len(s.kv) \in Nat /\ CtxCap \in Nat
           /\ s.pinned \in 0..Len(s.hist) /\ s.pinned \in 0..Len(s.kv)
           /\ s.enginePinned = s.pinned
<1>1. /\ s \in Session /\ s.hist \in Seq(Tokens) /\ s.kv \in Seq(Tokens)
      /\ Len(s.hist) \in Nat /\ Len(s.kv) \in Nat /\ CtxCap \in Nat /\ s.pinned \in Nat
  BY LenProperties, SessionsAssumption DEF Bounded, Session
<1> QED BY <1>1 DEF Bounded

\* Another history and another cache; the history cut back to n tokens.
With(s, k, h) == [s EXCEPT !.kv = k, !.hist = h]
CutTo(s, n) == [s EXCEPT !.hist = First(n, @)]

LEMMA Replaced ==
    ASSUME NEW s, Bounded(s), NEW h \in Seq(Tokens), NEW k \in Seq(Tokens),
           s.pinned <= Len(h), Len(h) < CtxCap, Len(h) <= Len(k)
    PROVE  Bounded(With(s, k, h)) /\ With(s, k, h).id = s.id
<1> DEFINE c == With(s, k, h)
<1>1. /\ c \in Session /\ c.hist = h /\ c.kv = k /\ c.id = s.id
      /\ c.pinned = s.pinned /\ c.enginePinned = s.enginePinned
  BY DEF Bounded, Session, With
<1> HIDE DEF c
<1>2. Bounded(c)
  BY <1>1 DEF Bounded
<1> QED BY <1>1, <1>2 DEF c

\* The entry of a session that was named.
LEMMA SetBounded ==
    ASSUME BInv, NEW i \in Slots, NEW s, Bounded(s), s.id = table[i].id, Set(i, s),
           UNCHANGED <<opened, now>>, generating' \in Slots \union {0}
    PROVE  BInv'
<1> DEFINE c == [s EXCEPT !.used = now]
<1>1. c \in Session /\ c.hist = s.hist /\ c.kv = s.kv /\ c.pinned = s.pinned
      /\ c.enginePinned = s.enginePinned /\ c.id = s.id
  BY DEF BInv, Bounded, Session
<1>2. \A j \in Slots : table'[j] = IF j = i THEN c ELSE table[j]
  BY DEF Set, BInv
<1>3. DOMAIN table' = Slots
  BY DEF Set, BInv
<1> HIDE DEF c
<1>4. Bounded(c)
  BY <1>1 DEF Bounded
<1> QED BY <1>1, <1>2, <1>3, <1>4 DEF BInv

\* reset: the history is cut back, and the cache unless that failed.
IsCut(c, s) == Bounded(c) /\ c.id = s.id /\ Len(c.hist) = s.pinned

LEMMA CutBounded ==
    ASSUME NEW s, Bounded(s), NEW h \in Seq(Tokens), s.pinned <= Len(h), Len(h) < CtxCap,
           NEW k \in Seq(Tokens), Len(s.kv) <= Len(k)
    PROVE  /\ IsCut(CutTo(With(s, k, h), s.pinned), s)
           /\ IsCut(CutTo(Truncated(With(s, k, h)), s.pinned), s)
<1>1. /\ s \in Session /\ Len(s.kv) \in Nat /\ CtxCap \in Nat /\ s.enginePinned = s.pinned
      /\ s.pinned \in 0..Len(s.hist) /\ s.pinned \in 0..Len(s.kv) /\ Len(s.hist) < CtxCap
      /\ Len(s.hist) \in Nat
  BY BoundedIs DEF Bounded
<1>2. Len(h) \in Nat /\ Len(k) \in Nat /\ s.pinned \in 0..Len(h) /\ s.pinned \in 0..Len(k)
  BY <1>1, LenProperties
<1> DEFINE p == First(s.pinned, h)
           q == First(s.pinned, k)
           b == CutTo(With(s, k, h), s.pinned)
           c == CutTo(Truncated(With(s, k, h)), s.pinned)
<1>3. p \in Seq(Tokens) /\ Len(p) = s.pinned /\ q \in Seq(Tokens) /\ Len(q) = s.pinned
  BY <1>2, FirstIs
<1>4. b = With(s, k, p) /\ c = With(s, q, p)
  BY <1>1 DEF Truncated, Session, With, CutTo
<1> HIDE DEF p, q, b, c
<1>5. /\ s.pinned <= Len(p) /\ Len(p) < CtxCap /\ Len(p) <= Len(q) /\ Len(p) <= Len(k)
  BY <1>1, <1>2, <1>3
<1>6. /\ Bounded(With(s, k, p)) /\ With(s, k, p).id = s.id
      /\ Bounded(With(s, q, p)) /\ With(s, q, p).id = s.id
  BY <1>3, <1>5, Replaced
<1>7. b.hist = p /\ c.hist = p
  BY <1>1, <1>4 DEF Session, With
<1>8. Bounded(b) /\ b.id = s.id /\ Bounded(c) /\ c.id = s.id
  BY <1>4, <1>6
<1> QED BY <1>3, <1>7, <1>8 DEF b, c, IsCut

\* The end of prefill.
LEMMA FillBounded ==
    ASSUME BInv, NEW i \in Slots, NEW s, Bounded(s), s.id = table[i].id,
           NEW ids \in Seq(Tokens), Len(s.hist) <= Len(ids), Len(ids) < CtxCap,
           Fill(i, s, ids), UNCHANGED <<opened, now, generating>>
    PROVE  BInv'
<1> DEFINE tail == SubSeq(ids, Len(s.hist) + 1, Len(ids))
<1>1. /\ s \in Session /\ s.hist \in Seq(Tokens) /\ s.kv \in Seq(Tokens)
      /\ Len(s.hist) \in Nat /\ Len(s.kv) \in Nat /\ CtxCap \in Nat
      /\ s.pinned \in 0..Len(s.hist) /\ Len(s.hist) <= Len(s.kv) /\ Len(s.hist) < CtxCap
      /\ Len(ids) \in Nat /\ Len(s.hist) \in 0..Len(ids)
  BY BoundedIs, LenProperties DEF Bounded
<1>2. tail \in Seq(Tokens) /\ Len(tail) = Len(ids) - Len(s.hist)
  BY <1>1, RestIs
<1>3. generating' \in Slots \union {0}
  BY DEF BInv
<1> HIDE DEF tail
<1>4. CASE Set(i, [s EXCEPT !.kv = @ \o tail, !.hist = Pushed(@, tail)])
  <2> DEFINE h == Pushed(s.hist, tail)
             k == s.kv \o tail
  <2>1. h \in Seq(Tokens) /\ Len(h) = Len(ids)
    BY <1>1, <1>2, PushedFits
  <2>2. k \in Seq(Tokens) /\ Len(k) = Len(s.kv) + Len(tail)
    BY <1>1, <1>2, ConcatProperties
  <2>3. [s EXCEPT !.kv = @ \o tail, !.hist = Pushed(@, tail)] = With(s, k, h)
    BY <1>1 DEF With
  <2> HIDE DEF h, k
  <2>4. s.pinned <= Len(h) /\ Len(h) < CtxCap /\ Len(h) <= Len(k)
    BY <1>1, <1>2, <2>1, <2>2
  <2> QED BY <1>3, <1>4, <2>1, <2>2, <2>3, <2>4, Replaced, SetBounded
<1>5. CASE \E failed \in PartlyFilled(s, tail) : \E after \in MaybeTruncated(failed) :
             Set(i, [after EXCEPT !.hist = First(s.pinned, @)])
  <2>1. PICK n \in 0..Len(tail) :
          \E after \in {[s EXCEPT !.kv = @ \o First(n, tail)],
                        Truncated([s EXCEPT !.kv = @ \o First(n, tail)])} :
            Set(i, [after EXCEPT !.hist = First(s.pinned, @)])
    BY <1>5 DEF PartlyFilled, MaybeTruncated
  <2> DEFINE k == s.kv \o First(n, tail)
             h == s.hist
  <2>2. First(n, tail) \in Seq(Tokens)
    BY <1>2, FirstIs
  <2>3. k \in Seq(Tokens) /\ Len(s.kv) <= Len(k)
    <3>1. k \in Seq(Tokens) /\ Len(k) = Len(s.kv) + Len(First(n, tail))
      BY <1>1, <2>2, ConcatProperties
    <3> QED BY <1>1, <2>2, <3>1, LenProperties
  <2>4. [s EXCEPT !.kv = @ \o First(n, tail)] = With(s, k, h)
    BY <1>1 DEF Session, With
  <2>5. h \in Seq(Tokens) /\ s.pinned <= Len(h) /\ Len(h) < CtxCap
    BY <1>1
  <2> HIDE DEF k, h
  <2> DEFINE x == CutTo(With(s, k, h), s.pinned)
             y == CutTo(Truncated(With(s, k, h)), s.pinned)
  <2>6. Set(i, x) \/ Set(i, y)
    <3> DEFINE failed == [s EXCEPT !.kv = @ \o First(n, tail)]
    <3>1. Set(i, CutTo(failed, s.pinned)) \/ Set(i, CutTo(Truncated(failed), s.pinned))
      BY <2>1 DEF CutTo
    <3> HIDE DEF failed
    <3> QED BY <2>4, <3>1 DEF failed
  <2>7. IsCut(x, s) /\ IsCut(y, s)
    BY <2>3, <2>5, CutBounded
  <2> HIDE DEF x, y
  <2>8. Bounded(x) /\ x.id = s.id /\ Bounded(y) /\ y.id = s.id
    BY <2>7 DEF IsCut
  <2> QED BY <1>3, <2>6, <2>8, SetBounded
<1> QED BY <1>4, <1>5 DEF Fill, tail

\* An entry as it is, written as one with its history and cache replaced.
LEMMA Itself ==
    ASSUME NEW s \in Session
    PROVE  s = With(s, s.kv, s.hist)
BY DEF Session, With

LEMMA PrefillBounded ==
    ASSUME BInv, NEW i \in Slots, NEW ids \in Requests, Prefill(i, ids)
    PROVE  BInv'
<1> DEFINE s == table[i]
           cut == [Truncated(s) EXCEPT !.hist = First(s.pinned, @)]
<1>1. Bounded(s) /\ UNCHANGED <<opened, now, generating>> /\ generating' \in Slots \union {0}
  BY DEF BInv, Prefill
<1>2. ids \in Seq(Tokens) /\ Len(ids) < CtxCap /\ Len(ids) \in Nat
  BY SessionsAssumption, LenProperties DEF Prefill
<1>3. CASE PrefillTail(i, ids)
  <2>1. Len(s.hist) <= Len(ids) /\ Fill(i, s, ids)
    BY <1>3 DEF PrefillTail, StartsWith
  <2> QED BY <1>1, <1>2, <2>1, FillBounded
<1>4. CASE Set(i, s)
  BY <1>1, <1>4, SetBounded
<1>5. CASE StartsWith(ids, First(s.pinned, s.hist)) /\ Fill(i, cut, ids)
  <2>1. /\ s \in Session /\ s.hist \in Seq(Tokens) /\ s.kv \in Seq(Tokens)
        /\ s.pinned \in 0..Len(s.hist) /\ Len(s.hist) < CtxCap /\ s.pinned <= Len(s.hist)
    BY <1>1, BoundedIs DEF Bounded
  <2>2. Bounded(cut) /\ cut.id = s.id /\ Len(cut.hist) = s.pinned
    <3> DEFINE a == Truncated(s)
    <3>1. Len(s.kv) <= Len(s.kv)
      BY <1>1, BoundedIs
    <3>2. a = Truncated(With(s, s.kv, s.hist))
      BY <2>1, Itself
    <3>3. cut = CutTo(a, s.pinned)
      BY DEF CutTo
    <3> HIDE DEF a, s, cut
    <3>4. IsCut(CutTo(a, s.pinned), s)
      BY <1>1, <2>1, <3>1, <3>2, CutBounded
    <3> QED BY <3>3, <3>4 DEF IsCut
  <2>3. s.pinned <= Len(ids)
    BY <1>5, <2>1, FirstIs DEF StartsWith
  <2> QED BY <1>1, <1>2, <1>5, <2>2, <2>3, FillBounded
<1> QED BY <1>3, <1>4, <1>5 DEF Prefill, PrefillSame, PrefillDiverged

LEMMA ResetBounded ==
    ASSUME BInv, NEW i \in Slots, Reset(i)
    PROVE  BInv'
<1> DEFINE s == table[i]
<1>1. Bounded(s) /\ UNCHANGED <<opened, now>> /\ generating' \in Slots \union {0}
  BY DEF BInv, Reset
<1>2. /\ s \in Session /\ s.hist \in Seq(Tokens) /\ s.kv \in Seq(Tokens)
      /\ s.pinned <= Len(s.hist) /\ Len(s.hist) < CtxCap /\ Len(s.kv) <= Len(s.kv)
  BY <1>1, BoundedIs DEF Bounded
<1>3. PICK after \in {s, Truncated(s)} : Set(i, [after EXCEPT !.hist = First(after.pinned, @)])
  BY DEF Reset, MaybeTruncated
<1>4. after.pinned = s.pinned
  BY <1>2 DEF Truncated, Session
<1> DEFINE x == CutTo(s, s.pinned)
           y == CutTo(Truncated(s), s.pinned)
<1>5. Bounded(x) /\ x.id = s.id /\ Bounded(y) /\ y.id = s.id
  <2>1. s = With(s, s.kv, s.hist)
    BY <1>2, Itself
  <2> HIDE DEF s
  <2>2. IsCut(CutTo(With(s, s.kv, s.hist), s.pinned), s)
        /\ IsCut(CutTo(Truncated(With(s, s.kv, s.hist)), s.pinned), s)
    BY <1>1, <1>2, CutBounded
  <2> QED BY <2>1, <2>2 DEF IsCut
<1>6. Set(i, x) \/ Set(i, y)
  BY <1>3, <1>4 DEF CutTo
<1> HIDE DEF x, y
<1> QED BY <1>1, <1>5, <1>6, SetBounded

LEMMA PinBounded ==
    ASSUME BInv, NEW i \in Slots, (\E n \in 1..CtxCap : Pin(i, n)) \/ Unpin(i)
    PROVE  BInv'
<1> DEFINE s == table[i]
<1>1. /\ s \in Session /\ s.hist \in Seq(Tokens) /\ s.kv \in Seq(Tokens)
      /\ Len(s.hist) \in Nat /\ Len(s.kv) \in Nat /\ CtxCap \in Nat \ {0}
      /\ Len(s.hist) < CtxCap /\ Len(s.hist) <= Len(s.kv)
  BY BoundedIs, SessionsAssumption DEF BInv, Bounded
<1>2. UNCHANGED <<opened, now>> /\ generating' \in Slots \union {0}
  BY DEF BInv, Pin, Unpin
<1>3. ASSUME NEW h \in Seq(Tokens), NEW k \in Seq(Tokens), NEW n \in Nat,
             Len(h) = n, Len(k) = n, n < CtxCap,
             Set(i, [s EXCEPT !.kv = k, !.enginePinned = n, !.hist = h, !.pinned = n])
      PROVE  BInv'
  <2> DEFINE c == [s EXCEPT !.kv = k, !.enginePinned = n, !.hist = h, !.pinned = n]
  <2>1. /\ c \in Session /\ c.kv = k /\ c.hist = h /\ c.pinned = n /\ c.enginePinned = n
        /\ c.id = s.id
    BY <1>1 DEF Session
  <2> HIDE DEF c
  <2>2. Bounded(c)
    BY <1>3, <2>1 DEF Bounded
  <2> QED BY <1>2, <1>3, <2>1, <2>2, SetBounded DEF c
<1>4. ASSUME NEW n \in 1..CtxCap, Pin(i, n) PROVE BInv'
  <2>1. /\ n \in 1..Len(s.hist) /\ n \in 0..Len(s.hist) /\ n \in 0..Len(s.kv)
        /\ n \in Nat /\ n < CtxCap
    <3>1. n \in 1..Len(s.hist)
      BY <1>4 DEF Pin
    <3> HIDE DEF s
    <3> QED BY <1>1, <3>1
  <2>2. /\ First(n, s.hist) \in Seq(Tokens) /\ Len(First(n, s.hist)) = n
        /\ First(n, s.kv) \in Seq(Tokens) /\ Len(First(n, s.kv)) = n
    BY <1>1, <2>1, FirstIs
  <2>3. Set(i, [s EXCEPT !.kv = First(n, s.kv), !.enginePinned = n,
                         !.hist = First(n, s.hist), !.pinned = n])
    BY <1>4 DEF Pin
  <2> QED BY <1>3, <2>1, <2>2, <2>3
<1>5. CASE Unpin(i)
  <2>1. <<>> \in Seq(Tokens) /\ Len(<<>>) = 0
    BY EmptySeq
  <2>2. Set(i, [s EXCEPT !.kv = <<>>, !.enginePinned = 0, !.hist = <<>>, !.pinned = 0])
    BY <1>5 DEF Unpin
  <2>3. 0 \in Nat /\ 0 < CtxCap
    BY <1>1
  <2> HIDE DEF s
  <2> QED BY <1>3, <2>1, <2>2, <2>3
<1> QED BY <1>4, <1>5

LEMMA DecodedBounded ==
    ASSUME NEW s, Bounded(s), HasRoom(s), NEW t \in Tokens
    PROVE  Bounded(Decoded(s, t)) /\ Decoded(s, t).id = s.id
<1>1. /\ s \in Session /\ s.hist \in Seq(Tokens) /\ s.kv \in Seq(Tokens)
      /\ Len(s.hist) \in Nat /\ Len(s.kv) \in Nat /\ CtxCap \in Nat
      /\ s.pinned \in 0..Len(s.hist) /\ Len(s.hist) <= Len(s.kv)
  BY BoundedIs DEF Bounded
<1>2. <<t>> \in Seq(Tokens) /\ Len(<<t>>) = 1
  OBVIOUS
<1> DEFINE h == Pushed(s.hist, <<t>>)
           k == Append(s.kv, t)
<1>3. h \in Seq(Tokens) /\ Len(h) = Len(s.hist) + 1 /\ Len(h) < CtxCap
  <2>1. Len(s.hist) < CtxCap - 1
    BY DEF HasRoom
  <2>2. Len(s.hist) + Len(<<t>>) <= CtxCap
    BY <1>1, <1>2, <2>1
  <2>3. h \in Seq(Tokens) /\ Len(h) = Len(s.hist) + Len(<<t>>)
    BY <1>1, <1>2, <2>2, PushedFits
  <2> HIDE DEF h
  <2> QED BY <1>1, <1>2, <2>1, <2>3
<1>4. k \in Seq(Tokens) /\ Len(k) = Len(s.kv) + 1
  BY <1>1, AppendProperties
<1>5. Decoded(s, t) = With(s, k, h)
  BY DEF Decoded, With
<1> HIDE DEF h, k
<1>6. s.pinned <= Len(h) /\ Len(h) <= Len(k)
  <2> DEFINE n == Len(s.hist)
             m == Len(s.kv)
  <2>1. n \in Nat /\ m \in Nat /\ n <= m /\ s.pinned \in 0..n
    BY <1>1
  <2>2. Len(h) = n + 1 /\ Len(k) = m + 1
    BY <1>3, <1>4
  <2> HIDE DEF n, m
  <2> QED BY <2>1, <2>2
<1> QED BY <1>3, <1>4, <1>5, <1>6, Replaced

LEMMA NoSessionBounded ==
    ASSUME NEW n \in Nat, NEW u \in Nat
    PROVE  /\ Bounded(NoSession) /\ NoSession.id = 0
           /\ Bounded([NoSession EXCEPT !.id = n, !.used = u])
           /\ [NoSession EXCEPT !.id = n, !.used = u].id = n
<1>1. Sound(NoSession) /\ Sound([NoSession EXCEPT !.id = n, !.used = u])
  BY NoSessionSound
<1>2. ASSUME NEW s, Sound(s) PROVE Bounded(s)
  BY <1>2, LenProperties DEF Sound, Bounded, Session
<1>3. NoSession.id = 0 /\ [NoSession EXCEPT !.id = n, !.used = u].id = n
  BY DEF NoSession
<1> QED BY <1>1, <1>2, <1>3

LEMMA OpenBounded ==
    ASSUME BInv, Open
    PROVE  BInv'
<1> DEFINE kept == [i \in Slots |-> IF Idle(i) THEN NoSession ELSE table[i]]
           new  == [NoSession EXCEPT !.id = opened + 1, !.used = now]
<1>1. opened + 1 \in Nat /\ opened \in Nat /\ now \in Nat
  BY DEF BInv
<1>2. /\ Bounded(NoSession) /\ NoSession.id = 0
      /\ Bounded(new) /\ new.id = opened + 1
  BY <1>1, NoSessionBounded
<1>3. \A i \in Slots : Bounded(kept[i]) /\ kept[i].id \in Nat /\ kept[i].id <= opened
  BY <1>1, <1>2 DEF BInv, Bounded, Session
<1>4. \/ opened' = opened + 1 /\ table' = [kept EXCEPT ![Slot(kept)] = new]
      \/ opened' = opened /\ table' = [kept EXCEPT ![Slot(kept)] = NoSession]
  BY DEF Open
<1> HIDE DEF kept, new
<1>5. DOMAIN kept = Slots
  BY DEF kept
<1>6. DOMAIN table' = Slots /\ opened' \in Nat
  BY <1>1, <1>4, <1>5
<1>7. ASSUME NEW i \in Slots PROVE Bounded(table'[i]) /\ table'[i].id <= opened'
  <2>1. CASE i = Slot(kept)
    BY <1>1, <1>2, <1>4, <1>5, <2>1
  <2>2. CASE i # Slot(kept)
    BY <1>1, <1>3, <1>4, <1>5, <2>2
  <2> QED BY <2>1, <2>2
<1> QED BY <1>6, <1>7 DEF Open, BInv

LEMMA NextBounded == ASSUME BInv, [Next]_vars PROVE BInv'
<1>1. CASE Accept \/ Hello \/ Hangup \/ Tick \/ GenerateEnd \/ UNCHANGED vars
  BY <1>1 DEF Accept, Hello, Hangup, Tick, GenerateEnd, vars, BInv
<1>2. CASE Open
  BY <1>2, OpenBounded
<1>3. ASSUME NEW i \in Slots, Touch(i) \/ Generate(i) PROVE BInv'
  <2>1. Bounded(table[i]) /\ Set(i, table[i]) /\ UNCHANGED <<opened, now>>
        /\ generating' \in Slots \union {0}
    BY <1>3 DEF Touch, Generate, BInv
  <2> QED BY <2>1, SetBounded
<1>4. ASSUME NEW i \in Slots, Close(i) PROVE BInv'
  <2>1. Bounded(NoSession) /\ NoSession.id = 0
    BY NoSessionBounded, 0 \in Nat
  <2>2. \A j \in Slots : table'[j] = table[j] \/ table'[j] = NoSession
    BY <1>4 DEF Close, BInv
  <2>3. opened \in Nat /\ 0 <= opened
    BY DEF BInv
  <2> QED BY <1>4, <2>1, <2>2, <2>3 DEF Close, BInv
<1>5. ASSUME NEW i \in Slots, Reset(i) \/ Unpin(i) \/ \E n \in 1..CtxCap : Pin(i, n)
      PROVE  BInv'
  BY <1>5, ResetBounded, PinBounded
<1>6. ASSUME NEW i \in Slots, NEW ids \in Requests, Prefill(i, ids) PROVE BInv'
  BY <1>6, PrefillBounded
<1>7. ASSUME NEW i \in Slots, NEW t \in Tokens, Step(i, t) PROVE BInv'
  <2>1. Bounded(Decoded(table[i], t)) /\ Decoded(table[i], t).id = table[i].id
    BY <1>7, DecodedBounded DEF Step, BInv
  <2> QED BY <1>7, <2>1, SetBounded DEF Step, BInv
<1>8. ASSUME NEW t \in Tokens, GenerateToken(t) PROVE BInv'
  <2> DEFINE d == Decoded(table[generating], t)
  <2>1. generating \in Slots /\ Bounded(d) /\ d.id = table[generating].id
    BY <1>8, DecodedBounded DEF GenerateToken, BInv
  <2>2. table' = [table EXCEPT ![generating] = d]
    BY <1>8 DEF GenerateToken
  <2> HIDE DEF d
  <2> QED BY <1>8, <2>1, <2>2 DEF GenerateToken, BInv
<1> QED BY <1>1, <1>2, <1>3, <1>4, <1>5, <1>6, <1>7, <1>8 DEF Next

\* Each entry of the table stays within its bounds, also after resets that failed.
THEOREM TableIsBounded == Spec => []BInv
<1>1. Init => BInv
  <2>1. Bounded(NoSession) /\ NoSession.id = 0
    BY NoSessionBounded, 0 \in Nat
  <2> QED BY <2>1 DEF Init, BInv
<1>2. BInv /\ [Next]_vars => BInv'
  BY NextBounded
<1> QED BY <1>1, <1>2, PTL DEF Spec

\* hist_push never refuses a token that the engine has decoded, and what is
\* pinned is in the history, also after resets that failed.
THEOREM ContextFits == Spec => []Fits
<1>1. BInv => Fits
  BY DEF BInv, Bounded, Fits
<1> QED BY <1>1, TableIsBounded, PTL

\* A non-empty finite set of numbers has a smallest one: of the sets of those
\* up to one of its elements, one contains no other.
LEMMA FiniteSmallest ==
    ASSUME NEW T, T \subseteq Nat, IsFiniteSet(T), T # {}
    PROVE  \E m \in T : \A n \in T : m <= n
<1> DEFINE UpTo(k) == {j \in T : j <= k}
           Starts  == {UpTo(k) : k \in T}
           R       == StrictSubsetOrdering(T)
<1>1. IsWellFoundedOn(R, SUBSET T)
  BY FS_StrictSubsetOrderingWellFounded, FS_FiniteSubsetsOfFinite
<1>2. Starts \subseteq SUBSET T /\ Starts # {}
  OBVIOUS
<1> HIDE DEF R
<1>3. PICK S \in Starts : \A U \in Starts : ~ (<<U, S>> \in R)
  BY <1>1, <1>2, WFMin
<1>4. PICK m \in T : S = UpTo(m)
  BY <1>3
<1>5. ASSUME NEW n \in T, n < m PROVE FALSE
  <2>1. n \in Nat /\ m \in Nat /\ \A k \in T : k \in Nat
    OBVIOUS
  <2>2. m \in UpTo(m) /\ m \notin UpTo(n)
    BY <1>5, <2>1
  <2>3. UpTo(n) \subseteq UpTo(m)
    <3>1. \A j \in T : j <= n => j <= m
      BY <1>5, <2>1
    <3> QED BY <3>1
  <2>4. UpTo(n) \in Starts /\ UpTo(n) \in SUBSET T /\ UpTo(m) \in SUBSET T
    OBVIOUS
  <2> HIDE DEF UpTo, Starts
  <2>5. <<UpTo(n), UpTo(m)>> \in R
    BY <2>2, <2>3, <2>4 DEF R, StrictSubsetOrdering
  <2> QED BY <1>3, <1>4, <2>4, <2>5
<1> QED BY <1>5

\* So has any non-empty set of numbers: it is among those up to one of them.
LEMMA Smallest ==
    ASSUME NEW T, T \subseteq Nat, T # {}
    PROVE  \E m \in T : \A n \in T : m <= n
<1>1. PICK k \in T : TRUE
  OBVIOUS
<1> DEFINE low == {j \in T : j <= k}
<1>2. k \in Nat /\ \A j \in T : j \in Nat
  BY <1>1
<1>3. 0 \in Int /\ k \in Int
  BY <1>2
<1>4. IsFiniteSet(0..k) /\ low \subseteq 0..k /\ low \subseteq Nat /\ low # {}
  <2>1. IsFiniteSet(0..k)
    BY <1>3, FS_Interval
  <2>2. k \in low
    BY <1>1, <1>2
  <2>3. \A j \in low : j \in Nat /\ j \in 0..k
    BY <1>2
  <2> QED BY <2>1, <2>2, <2>3
<1>5. IsFiniteSet(low)
  BY <1>4, FS_Subset
<1>6. PICK m \in low : \A n \in low : m <= n
  <2> HIDE DEF low
  <2> QED BY <1>4, <1>5, FiniteSmallest
<1>7. ASSUME NEW n \in T PROVE m <= n
  <2>1. n \in Nat /\ m \in Nat /\ m <= k
    BY <1>2, <1>6
  <2> QED BY <1>2, <1>6, <2>1
<1> QED BY <1>6, <1>7

\* sess_slot has an answer, which is a free slot or the least recently used.
LEMMA SlotIs ==
    ASSUME NEW tab, \A i \in Slots : tab[i].used \in Nat
    PROVE  /\ Slot(tab) \in Slots
           /\ \/ tab[Slot(tab)].id = 0
              \/ \A j \in Slots : tab[Slot(tab)].used <= tab[j].used
<1>1. NMax \in Nat \ {0} /\ Slots \subseteq Nat /\ Slots # {}
  BY SessionsAssumption DEF Slots
<1>2. CASE \E i \in Slots : tab[i].id = 0
  <2> DEFINE free == {i \in Slots : tab[i].id = 0}
  <2>1. free \subseteq Nat /\ free # {}
    BY <1>1, <1>2
  <2>2. PICK m \in free : \A n \in free : m <= n
    BY <2>1, Smallest
  <2>3. m \in Slots /\ tab[m].id = 0 /\ \A j \in 1..m - 1 : tab[j].id # 0
    BY <1>1, <2>2 DEF Slots
  <2>4. Slot(tab) \in Slots /\ tab[Slot(tab)].id = 0
    BY <1>2, <2>3 DEF Slot
  <2> QED BY <2>4
<1>3. CASE ~ \E i \in Slots : tab[i].id = 0
  <2> DEFINE uses == {tab[i].used : i \in Slots}
  <2>1. uses \subseteq Nat /\ uses # {}
    BY <1>1
  <2>2. PICK u \in uses : \A v \in uses : u <= v
    BY <2>1, Smallest
  <2> DEFINE least == {i \in Slots : tab[i].used = u}
  <2>3. least \subseteq Nat /\ least # {}
    BY <1>1, <2>2
  <2>4. PICK m \in least : \A n \in least : m <= n
    BY <2>3, Smallest
  <2>5. /\ m \in Slots /\ \A j \in Slots : tab[m].used <= tab[j].used
        /\ \A j \in 1..m - 1 : tab[j].used > tab[m].used
    <3>1. m \in Slots /\ tab[m].used = u /\ \A j \in Slots : tab[m].used <= tab[j].used
      BY <2>2
    <3>2. ASSUME NEW j \in 1..m - 1 PROVE tab[j].used > tab[m].used
      <4>1. j \in Slots /\ j < m /\ j \in Nat /\ m \in Nat
        BY <1>1, <3>1 DEF Slots
      <4>2. tab[j].used # u
        BY <2>4, <4>1
      <4>3. tab[j].used \in Nat /\ u \in Nat /\ u <= tab[j].used
        BY <3>1, <4>1
      <4> QED BY <3>1, <4>2, <4>3
    <3> QED BY <3>1, <3>2
  <2>6. LeastRecent(tab) \in Slots /\ \A j \in Slots : tab[LeastRecent(tab)].used <= tab[j].used
    BY <2>5 DEF LeastRecent
  <2> QED BY <1>3, <2>6 DEF Slot
<1> QED BY <1>2, <1>3

\* open: a session that is kept was used within --idle, so one used after it is
\* not idle, and it is not the victim.
LEMMA OpenKeepsRecent ==
    ASSUME BInv, Open, opened' # opened, NEW i \in Slots, NEW j \in Slots,
           Live(i), Live(j), table[i].used < table[j].used, table'[i].id = table[i].id
    PROVE  table'[j].id = table[j].id
<1> DEFINE kept == [k \in Slots |-> IF Idle(k) THEN NoSession ELSE table[k]]
           new  == [NoSession EXCEPT !.id = opened + 1, !.used = now]
           slot == Slot(kept)
<1>1. table' = [kept EXCEPT ![slot] = new]
  BY DEF Open
<1>2. /\ opened \in Nat /\ now \in Nat /\ IdleS \in Nat
      /\ \A k \in Slots : /\ table[k].used \in Nat /\ table[k].id \in Nat
                          /\ table[k].id <= opened
  BY SessionsAssumption DEF BInv, Bounded, Session
<1>3. new.id = opened + 1 /\ NoSession.id = 0 /\ NoSession.used = 0
  BY DEF NoSession
<1>4. \A k \in Slots : kept[k] = IF Idle(k) THEN NoSession ELSE table[k]
  OBVIOUS
<1>5. DOMAIN kept = Slots
  OBVIOUS
<1>6. \A k \in Slots : kept[k].used \in Nat
  BY <1>2, <1>3, <1>4
<1> HIDE DEF kept, new
<1>7. slot \in Slots /\ (kept[slot].id = 0 \/ \A k \in Slots : kept[slot].used <= kept[k].used)
  BY <1>6, SlotIs
<1> HIDE DEF slot
<1>8. table'[slot] = new /\ \A k \in Slots : k # slot => table'[k] = kept[k]
  BY <1>1, <1>5, <1>7
<1>9. i # slot
  BY <1>2, <1>3, <1>8
<1>10. ~Idle(i)
  BY <1>3, <1>4, <1>8, <1>9 DEF Live
<1>11. ~Idle(j)
  BY <1>2, <1>10 DEF Idle, Live
<1>12. kept[i] = table[i] /\ kept[j] = table[j]
  BY <1>4, <1>10, <1>11
<1>13. slot # j
  BY <1>2, <1>7, <1>12 DEF Live
<1> QED BY <1>8, <1>12, <1>13

\* docs/GEISTD.md, "least recently used": neither the idle time nor a full table
\* costs a session before one that was named earlier.
THEOREM RecentSurvives == Spec => RecentSurvive
<1>1. ASSUME BInv, [Next]_vars, opened' # opened PROVE Open
  BY <1>1 DEF Next, vars, Accept, Hello, Hangup, Tick, GenerateEnd, Touch, Close, Generate, Reset,
              Unpin, Prefill, Pin, Step, GenerateToken
<1>2. BInv /\ [Next]_vars =>
        (opened' # opened =>
           \A i, j \in Slots :
             /\ Live(i) /\ Live(j) /\ table[i].used < table[j].used
             /\ table'[i].id = table[i].id
             => table'[j].id = table[j].id)
  BY <1>1, OpenKeepsRecent
<1> QED BY <1>2, TableIsBounded, PTL DEF Spec, RecentSurvive
=============================================================================
