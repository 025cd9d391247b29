-------------------------- MODULE Lifecycle_proofs --------------------------
(***************************************************************************)
(* Proofs about Lifecycle: whatever the interleaving of geistd's threads   *)
(* and geist-app's loads, and wherever geistd dies, a snapshot is that of  *)
(* one moment, none goes back, a read gives up only with cause, and no     *)
(* thread writes to memory that is unmapped; for every number of phases    *)
(* and of words.                                                           *)
(***************************************************************************)
EXTENDS Lifecycle, SequenceTheorems, TLAPS

NWords == WordOf(NPhases)

Mains ==
    {"inherit", "silent", "process", "started", "phase", "set", "end", "start", "create",
     "serve", "stop", "join", "close", "gone"}

\* What a read is.
Reads ==
    [at : {"number", "words", "check", "read", "missed"}, lock : Locks, attempt : Nat,
     seq : Nat, got : Seq(Nat), calm : BOOLEAN, then : {"poll", "ready"}]

Types ==
    /\ seq \in [Locks -> Nat]
    /\ DOMAIN word = Locks
    /\ word["phase"] \in [1..NWords -> {0, 1}]
    /\ word["memory"] \in [1..NFields -> Nat]
    /\ alive \in BOOLEAN /\ mapped \in BOOLEAN
    /\ DOMAIN pc = Threads /\ pc["main"] \in Mains /\ pc["sampler"] \in {"off", "loop", "due"}
    /\ cap \in [Threads -> {"none", "add", "store", "end", "clear"}]
    /\ own \in [Threads -> Nat] /\ next \in [Threads -> Nat]
    /\ reached \in Nat /\ taken \in Nat
    /\ writing \in BOOLEAN /\ stopped \in BOOLEAN /\ ready \in BOOLEAN
    /\ rd \in Reads
    /\ seen \in [Locks -> [seq : Nat, got : Seq(Nat)]]

(***************************************************************************)
(* Where the threads are.                                                  *)
(***************************************************************************)
Early == {"inherit", "silent", "process", "started", "start"}

Places ==
    /\ pc["main"] \notin {"create", "serve"} => cap["main"] = "none"
    /\ pc["sampler"] # "loop" => cap["sampler"] = "none"
    /\ pc["main"] \in Early \union {"create", "close", "gone"} => pc["sampler"] = "off"
    /\ pc["main"] \in {"phase", "set", "end"} /\ reached = 1 => pc["sampler"] = "off"
    /\ ~mapped => pc["main"] \in {"inherit", "silent", "gone"}
    /\ pc["main"] \in {"inherit", "silent", "process", "started"} => reached = 1
    /\ pc["main"] \in {"start", "create"} => reached = 2
    /\ pc["main"] \in {"phase", "set", "end"} => reached \in 1..NPhases
    /\ pc["main"] = "serve" => reached = NPhases + 1
    /\ pc["main"] \in {"stop", "join", "close", "gone"} => reached \in 2..NPhases + 1

(***************************************************************************)
(* What is in the memory.  The try-lock keeps one writer; the number of a  *)
(* lock is odd exactly while its words differ or may.                      *)
(***************************************************************************)
Odd(n) == n % 2 = 1

OneWriter ==
    /\ \A t \in Threads : cap[t] # "none" => writing /\ own[t] = taken
    /\ \A t, u \in Threads : cap[t] # "none" /\ cap[u] # "none" => t = u

Published ==
    /\ Odd(seq["memory"]) <=> \E t \in Threads : cap[t] \in {"store", "end"}
    /\ \A k \in 1..NFields : word["memory"][k] <= taken
    /\ (\A t \in Threads : cap[t] # "store") =>
         \A j, k \in 1..NFields : word["memory"][j] = word["memory"][k]
    /\ \A t \in Threads : cap[t] = "store" =>
         /\ next[t] \in 1..NFields
         /\ \A k \in 1..NFields : k < next[t] => word["memory"][k] = own[t]
    /\ \A t \in Threads : cap[t] = "end" =>
         \A k \in 1..NFields : word["memory"][k] = own[t]

\* Samples follow the process and its start.
Order ==
    /\ seq["memory"] = 0 => word["memory"][1] = 0
    /\ word["phase"][Started] # 0 => word["phase"][Process] # 0
    /\ pc["main"] \in {"inherit", "silent"} => word["phase"][Process] = 0
    /\ pc["main"] \notin {"inherit", "silent", "process"} => word["phase"][Process] # 0
    /\ pc["main"] \notin {"inherit", "silent", "process", "started"} => word["phase"][Started] # 0
    /\ pc["main"] \in {"inherit", "silent", "process", "started"} => word["memory"][1] = 0

Reported ==
    /\ Odd(seq["phase"]) <=> pc["main"] \in {"set", "end"}
    /\ \A p \in 1..NPhases :
         word["phase"][WordOf(p)] # 0 <=> p < reached \/ (p = reached /\ pc["main"] = "end")

(***************************************************************************)
(* What geist-app has read.                                                *)
(***************************************************************************)
Reading == rd.at \in {"words", "check"}
Numbered == [l \in Locks |-> IF l = "phase" THEN 3..NWords ELSE 1..NFields]

\* While the number has not changed, neither have the words under it.
Loaded ==
    Reading =>
      /\ ~Odd(rd.seq) /\ rd.seq <= seq[rd.lock]
      /\ IF rd.at = "check" THEN Len(rd.got) = Last[rd.lock] ELSE Len(rd.got) < Last[rd.lock]
      /\ \A k \in 1..Len(rd.got) : rd.got[k] <= word[rd.lock][k]
      /\ rd.seq = seq[rd.lock] =>
           \A k \in 1..Len(rd.got) : k \in Numbered[rd.lock] => rd.got[k] = word[rd.lock][k]
      /\ rd.calm => /\ rd.seq = seq[rd.lock]
                    /\ \A k \in 1..Len(rd.got) : rd.got[k] = word[rd.lock][k]

Remembered ==
    \A l \in Locks :
      /\ seen[l].seq <= seq[l]
      /\ Len(seen[l].got) = Last[l]
      /\ \A k \in 1..Last[l] : seen[l].got[k] <= word[l][k]

\* The read that precedes readiness meets nobody who writes.
Complete == reached = NPhases + 1

Ready ==
    /\ rd.at \notin Done /\ rd.then = "ready" =>
         rd.lock = "phase" /\ (pc["main"] = "silent" \/ (Complete /\ rd.calm))
    /\ ready => \/ pc["main"] = "silent"
                \/ Complete /\ \A p \in 1..NPhases : seen["phase"].got[WordOf(p)] # 0

LInv ==
    /\ Types /\ Places
    /\ OneWriter /\ Published /\ Order /\ Reported
    /\ Loaded /\ Remembered /\ Untorn
    /\ NotMissed /\ Ready

(***************************************************************************)
(* What a step of geistd does to the memory and to the read under way.     *)
(***************************************************************************)
WriterStep ==
    /\ UNCHANGED <<seen, ready>>
    /\ rd' = [rd EXCEPT !.calm = rd'.calm]
    /\ \A l \in Locks : seq[l] <= seq'[l]
    /\ \A l \in Locks : \A k \in 1..Last[l] : word[l][k] <= word'[l][k]
    /\ \A l \in Locks : ~Odd(seq[l]) /\ seq'[l] = seq[l] =>
         \A k \in Numbered[l] : word'[l][k] = word[l][k]
    /\ rd'.calm => /\ rd.calm
                   /\ seq'[rd.lock] = seq[rd.lock] /\ word'[rd.lock] = word[rd.lock]
    /\ pc["main"] = "silent" => pc'["main"] = "silent"
    /\ Complete => Complete' /\ (rd.lock = "phase" => rd'.calm = rd.calm)

-----------------------------------------------------------------------------
(* Helpers.                                                                *)

LEMMA OddNext ==
    ASSUME NEW n \in Nat
    PROVE  Odd(n) <=> ~Odd(n + 1)
BY DEF Odd

LEMMA OddZero == ~Odd(0)
BY DEF Odd

LEMMA Sizes ==
    /\ NPhases \in Nat /\ NPhases >= 2 /\ NFields \in Nat /\ NFields >= 1
    /\ NWords = NPhases + 2 /\ Last["phase"] = NWords /\ Last["memory"] = NFields
    /\ Numbered["phase"] = 3..NWords /\ Numbered["memory"] = 1..NFields
    /\ Process = 1 /\ Started = 2 /\ \A p : WordOf(p) = p + 2
    /\ "phase" \in Locks /\ "memory" \in Locks
BY LifecycleAssumption DEF NWords, WordOf, Last, Numbered, Process, Started, Locks

\* A store changes one word of one lock.
LEMMA StoreIs ==
    ASSUME Types, NEW l \in Locks, NEW k, NEW v, Store(l, k, v)
    PROVE  /\ DOMAIN word' = Locks
           /\ word'[l] = [word[l] EXCEPT ![k] = v]
           /\ \A m \in Locks : m # l => word'[m] = word[m]
           /\ rd' = [rd EXCEPT !.calm = rd.calm /\ l # rd.lock]
BY DEF Types, Store, Disturb

\* And an addition one number.
LEMMA AddIs ==
    ASSUME Types, NEW l \in Locks, Add(l)
    PROVE  /\ seq' \in [Locks -> Nat]
           /\ seq'[l] = seq[l] + 1
           /\ \A m \in Locks : m # l => seq'[m] = seq[m]
           /\ rd' = [rd EXCEPT !.calm = rd.calm /\ l # rd.lock]
<1>0. seq' = [seq EXCEPT ![l] = @ + 1]
  BY DEF Add
<1>1. seq \in [Locks -> Nat] /\ seq[l] + 1 \in Nat
  BY DEF Types
<1>2. rd' = [rd EXCEPT !.calm = rd.calm /\ l # rd.lock]
  BY DEF Add, Disturb
<1> QED  BY <1>0, <1>1, <1>2

\* A step of main's moves main alone.
LEMMA GotoIs ==
    ASSUME Types, NEW t \in Threads, NEW place, Goto(t, place)
    PROVE  /\ DOMAIN pc' = Threads /\ pc'[t] = place
           /\ \A u \in Threads : u # t => pc'[u] = pc[u]
BY DEF Types, Goto

-----------------------------------------------------------------------------
(* The initial state.                                                      *)

LEMMA InitLInv == Init => LInv
<1> SUFFICES ASSUME Init
             PROVE  LInv
  OBVIOUS
<1> USE DEF Init
<1>0. <<>> \in Seq(Nat) /\ Len(<<>>) = 0
  BY EmptySeq
<1>1. /\ word["phase"] = [k \in 1..NWords |-> 0]
      /\ word["memory"] = [k \in 1..NFields |-> 0]
      /\ DOMAIN word = Locks
      /\ seen["phase"] = NoSnapshot("phase") /\ seen["memory"] = NoSnapshot("memory")
      /\ pc["main"] = "inherit" /\ pc["sampler"] = "off"
  BY Sizes DEF Threads
<1>2. \A l \in Locks : /\ NoSnapshot(l).seq = 0
                       /\ NoSnapshot(l).got \in Seq(Nat)
                       /\ Len(NoSnapshot(l).got) = Last[l]
                       /\ \A k \in 1..Last[l] : NoSnapshot(l).got[k] = 0
                       /\ NoSnapshot(l) \in [seq : Nat, got : Seq(Nat)]
  BY Sizes DEF NoSnapshot, Locks
<1>3. Types
  BY <1>0, <1>1, <1>2, Sizes DEF Types, Reads, Mains, Threads, Locks
<1>4. Places
  BY <1>1, Sizes DEF Places, Early, Threads
<1>5. OneWriter /\ Published /\ Order /\ Reported
  <2>1. OneWriter /\ Published
    BY <1>1, OddZero, Sizes DEF OneWriter, Published
  <2>2. Order
    BY <1>1, Sizes DEF Order
  <2>3. Reported
    <3>1. seq["phase"] = 0 /\ reached = 1 /\ ~(pc["main"] \in {"set", "end"})
      BY <1>1, Sizes
    <3>2. \A p \in 1..NPhases : WordOf(p) \in 1..NWords /\ ~(p < reached)
      BY <3>1, Sizes
    <3>3. ~Odd(seq["phase"])
      BY <3>1, OddZero
    <3>4. \A k \in 1..NWords : word["phase"][k] = 0
      <4> HIDE DEF Init
      <4> QED  BY <1>1
    <3>5. pc["main"] # "end"
      BY <1>1
    <3> QED  BY <3>1, <3>2, <3>3, <3>4, <3>5, Sizes DEF Reported
  <2> QED  BY <2>1, <2>2, <2>3
<1>6. Loaded /\ Ready
  BY DEF Loaded, Reading, Ready, Done
<1>7. Remembered
  BY <1>1, <1>2, Sizes DEF Remembered, Locks
<1>8. Untorn /\ NotMissed
  <2>1. \A p \in 1..NPhases - 1 : WordOf(p) \in 1..NWords /\ WordOf(p + 1) \in 1..NWords
    BY Sizes
  <2>2. Untorn
    <3>1. \A k \in 1..NFields : seen["memory"].got[k] = 0
      BY <1>1, <1>2, Sizes
    <3>2. \A k \in 1..NWords : seen["phase"].got[k] = 0
      BY <1>1, <1>2, Sizes
    <3> QED  BY <3>1, <3>2, <2>1, Sizes DEF Untorn
  <2> QED  BY <2>2 DEF NotMissed
<1> QED  BY <1>3, <1>4, <1>5, <1>6, <1>7, <1>8 DEF LInv

-----------------------------------------------------------------------------
(* The steps of geistd, by what they do to the memory.                     *)

\* What geistd keeps true by itself.
GInv == Types /\ Places /\ OneWriter /\ Published /\ Order /\ Reported

\* The read that is disturbed has the type of a read.
LEMMA DisturbedRead ==
    ASSUME Types, NEW b \in BOOLEAN, rd' = [rd EXCEPT !.calm = rd.calm /\ b]
    PROVE  /\ rd' \in Reads
           /\ rd' = [rd EXCEPT !.calm = rd'.calm]
           /\ rd'.calm = (rd.calm /\ b)
<1>1. rd.calm \in BOOLEAN /\ (rd.calm /\ b) \in BOOLEAN
  BY DEF Types, Reads
<1>2. rd'.calm = (rd.calm /\ b)
  BY <1>1 DEF Types, Reads
<1> QED  BY <1>1, <1>2 DEF Types, Reads

LEMMA WordsAreNumbers ==
    ASSUME Types
    PROVE  \A l \in Locks : /\ seq[l] \in Nat /\ Numbered[l] \subseteq 1..Last[l]
                            /\ \A k \in 1..Last[l] : word[l][k] \in Nat
                            /\ DOMAIN word[l] = 1..Last[l]
<1>1. \A k \in 1..NWords : word["phase"][k] \in Nat
  <2>1. word["phase"] \in [1..NWords -> {0, 1}]
    BY DEF Types
  <2>2. \A k \in 1..NWords : word["phase"][k] \in {0, 1}
    BY <2>1
  <2> QED  BY <2>2
<1>2. \A k \in 1..NFields : word["memory"][k] \in Nat
  <2>1. word["memory"] \in [1..NFields -> Nat]
    BY DEF Types
  <2> QED  BY <2>1
<1>3. DOMAIN word["phase"] = 1..NWords /\ DOMAIN word["memory"] = 1..NFields
  BY DEF Types
<1>4. 3..NWords \subseteq 1..NWords
  BY Sizes
<1> QED  BY <1>1, <1>2, <1>3, <1>4, Sizes DEF Types, Locks

LEMMA QuietStep ==
    ASSUME Types, UNCHANGED <<seq, word, rd, seen, ready>>,
           pc["main"] = "silent" => pc'["main"] = "silent", Complete => Complete'
    PROVE  WriterStep
<1>1. rd' = [rd EXCEPT !.calm = rd'.calm]
  BY DEF Types, Reads
<1>2. \A l \in Locks : seq[l] <= seq'[l]
  BY DEF Types
<1>3. \A l \in Locks : \A k \in 1..Last[l] : word[l][k] <= word'[l][k]
  BY WordsAreNumbers
<1> QED  BY <1>1, <1>2, <1>3 DEF WriterStep

LEMMA StoreStep ==
    ASSUME Types, NEW l \in Locks, NEW k \in 1..Last[l], NEW v, Store(l, k, v),
           word[l][k] <= v, Odd(seq[l]) \/ k \notin Numbered[l],
           UNCHANGED <<seq, seen, ready, reached>>,
           pc["main"] = "silent" => pc'["main"] = "silent", l = "phase" => ~Complete
    PROVE  WriterStep
<1>1. /\ DOMAIN word' = Locks
      /\ word'[l] = [word[l] EXCEPT ![k] = v]
      /\ \A m \in Locks : m # l => word'[m] = word[m]
      /\ rd' = [rd EXCEPT !.calm = rd.calm /\ l # rd.lock]
  BY StoreIs
<1>2. /\ rd' = [rd EXCEPT !.calm = rd'.calm]
      /\ rd'.calm = (rd.calm /\ l # rd.lock)
  BY <1>1, DisturbedRead
<1>3. \A m \in Locks : seq[m] <= seq'[m]
  BY DEF Types
<1>4. \A m \in Locks : \A j \in 1..Last[m] : word[m][j] <= word'[m][j]
  <2> SUFFICES ASSUME NEW m \in Locks, NEW j \in 1..Last[m]
               PROVE  word[m][j] <= word'[m][j]
    OBVIOUS
  <2>1. word[m][j] \in Nat /\ j \in DOMAIN word[m]
    BY WordsAreNumbers
  <2>2. word'[m][j] = word[m][j] \/ (m = l /\ j = k /\ word'[m][j] = v)
    BY <1>1, <2>1
  <2> QED  BY <2>1, <2>2
<1>5. \A m \in Locks : ~Odd(seq[m]) /\ seq'[m] = seq[m] =>
        \A j \in Numbered[m] : word'[m][j] = word[m][j]
  <2>1. SUFFICES ASSUME NEW m \in Locks, ~Odd(seq[m]), NEW j \in Numbered[m]
                 PROVE  word'[m][j] = word[m][j]
    OBVIOUS
  <2>2. CASE m # l
    BY <1>1, <2>2
  <2>3. CASE m = l
    <3>1. k # j
      BY <2>1, <2>3
    <3>2. j \in DOMAIN word[l]
      BY <2>3, WordsAreNumbers
    <3> QED  BY <1>1, <2>3, <3>1, <3>2
  <2> QED  BY <2>2, <2>3
<1>6. rd.lock \in Locks /\ rd.calm \in BOOLEAN
  BY DEF Types, Reads
<1>7. rd'.calm => /\ rd.calm
                  /\ seq'[rd.lock] = seq[rd.lock] /\ word'[rd.lock] = word[rd.lock]
  BY <1>1, <1>2, <1>6
<1>8. Complete => Complete' /\ (rd.lock = "phase" => rd'.calm = rd.calm)
  BY <1>2, <1>6 DEF Complete
<1> QED  BY <1>2, <1>3, <1>4, <1>5, <1>7, <1>8 DEF WriterStep

LEMMA AddStep ==
    ASSUME Types, NEW l \in Locks, Add(l), UNCHANGED <<word, seen, ready>>,
           pc["main"] = "silent" => pc'["main"] = "silent",
           Complete => Complete' /\ l # "phase"
    PROVE  WriterStep
<1>1. /\ seq' \in [Locks -> Nat]
      /\ seq'[l] = seq[l] + 1
      /\ \A m \in Locks : m # l => seq'[m] = seq[m]
      /\ rd' = [rd EXCEPT !.calm = rd.calm /\ l # rd.lock]
  BY AddIs
<1>2. /\ rd' = [rd EXCEPT !.calm = rd'.calm]
      /\ rd'.calm = (rd.calm /\ l # rd.lock)
  BY <1>1, DisturbedRead
<1>3. \A m \in Locks : seq[m] <= seq'[m]
  BY <1>1, WordsAreNumbers
<1>4. \A m \in Locks : \A j \in 1..Last[m] : word[m][j] <= word'[m][j]
  BY WordsAreNumbers
<1>6. rd.lock \in Locks /\ rd.calm \in BOOLEAN
  BY DEF Types, Reads
<1>7. rd'.calm => /\ rd.calm
                  /\ seq'[rd.lock] = seq[rd.lock] /\ word'[rd.lock] = word[rd.lock]
  BY <1>1, <1>2, <1>6
<1>8. Complete => Complete' /\ (rd.lock = "phase" => rd'.calm = rd.calm)
  BY <1>2, <1>6
<1> QED  BY <1>2, <1>3, <1>4, <1>7, <1>8 DEF WriterStep

\* Main alone does not disturb the sampler's lock.
LEMMA MainKeeps ==
    ASSUME OneWriter, Published, UNCHANGED Rest,
           word'["memory"] = word["memory"], seq'["memory"] = seq["memory"]
    PROVE  OneWriter' /\ Published'
<1>1. UNCHANGED <<cap, own, next, writing, taken>>
  BY DEF Rest
<1> QED  BY <1>1 DEF OneWriter, Published

-----------------------------------------------------------------------------
(* The steps of main and of the sampler's loop.                            *)

\* Types and places of a step that stores and adds nothing.
LEMMA QuietTypes ==
    ASSUME Types, UNCHANGED <<seq, word, rd, Rest>>,
           DOMAIN pc' = Threads, pc'["main"] \in Mains, pc'["sampler"] \in {"off", "loop", "due"},
           reached' \in Nat, mapped' \in BOOLEAN, stopped' \in BOOLEAN
    PROVE  Types'
BY DEF Types, Rest

LEMMA InheritKeeps ==
    ASSUME GInv, Inherit
    PROVE  GInv' /\ WriterStep
<1> USE DEF GInv
<1>1. /\ pc["main"] = "inherit" /\ UNCHANGED <<seq, word, rd, reached, stopped, Rest>>
      /\ DOMAIN pc' = Threads /\ pc'["sampler"] = pc["sampler"]
      /\ \/ pc'["main"] = "process" /\ mapped' = TRUE
         \/ pc'["main"] = "silent" /\ mapped' = mapped
  BY GotoIs DEF Inherit, At, Quietly, Threads
<1>2. Types'
  BY <1>1, QuietTypes DEF Types, Mains
<1>3. Places'
  BY <1>1 DEF Places, Early, Rest
<1>4. OneWriter' /\ Published'
  BY <1>1, MainKeeps DEF Rest
<1>5. Order' /\ Reported'
  BY <1>1 DEF Order, Reported
<1>6. WriterStep
  BY <1>1, QuietStep DEF Rest, Complete
<1> QED  BY <1>2, <1>3, <1>4, <1>5, <1>6

LEMMA CreateSamplerKeeps ==
    ASSUME GInv, CreateSampler
    PROVE  GInv' /\ WriterStep
<1> USE DEF GInv
<1>1. /\ pc["main"] = "create" /\ UNCHANGED <<seq, word, rd, mapped, reached, stopped, Rest>>
      /\ cap["main"] = "none"
      /\ DOMAIN pc' = Threads /\ pc'["main"] = "phase" /\ pc'["sampler"] \in {"loop", "off"}
  BY DEF CreateSampler, At, Quietly, Threads, Types
<1>2. Types'
  BY <1>1, QuietTypes DEF Types, Mains
<1>3. Places'
  <2>1. reached' = 2 /\ 2 \in 1..NPhases /\ mapped' /\ cap' = cap /\ cap["sampler"] = "none"
    BY <1>1, Sizes DEF Places, Early, Rest, Types
  <2> QED  BY <1>1, <2>1 DEF Places, Early
<1>4. OneWriter' /\ Published'
  BY <1>1, MainKeeps DEF Rest
<1>5. Order' /\ Reported'
  BY <1>1 DEF Order, Reported
<1>6. WriterStep
  BY <1>1, QuietStep DEF Rest, Complete
<1> QED  BY <1>2, <1>3, <1>4, <1>5, <1>6

LEMMA ServeEndKeeps ==
    ASSUME GInv, ServeEnd
    PROVE  GInv' /\ WriterStep
<1> USE DEF GInv
<1>1. /\ pc["main"] = "serve" /\ UNCHANGED <<seq, word, rd, mapped, reached, stopped, Rest>>
      /\ cap["main"] = "none"
      /\ DOMAIN pc' = Threads /\ pc'["main"] = "stop" /\ pc'["sampler"] = pc["sampler"]
  BY GotoIs DEF ServeEnd, At, Quietly, Threads
<1>2. Types'
  BY <1>1, QuietTypes DEF Types, Mains
<1>3. Places'
  BY <1>1, Sizes DEF Places, Early, Rest, Types
<1>4. OneWriter' /\ Published'
  BY <1>1, MainKeeps DEF Rest
<1>5. Order' /\ Reported'
  BY <1>1 DEF Order, Reported
<1>6. WriterStep
  BY <1>1, QuietStep DEF Rest, Complete
<1> QED  BY <1>2, <1>3, <1>4, <1>5, <1>6

LEMMA StopSamplerKeeps ==
    ASSUME GInv, StopSampler
    PROVE  GInv' /\ WriterStep
<1> USE DEF GInv
<1>1. /\ pc["main"] = "stop" /\ UNCHANGED <<seq, word, rd, mapped, reached, Rest>>
      /\ cap["main"] = "none"
      /\ stopped' = TRUE
      /\ DOMAIN pc' = Threads /\ pc'["main"] = "join" /\ pc'["sampler"] = pc["sampler"]
  BY GotoIs DEF StopSampler, At, Quietly, Threads
<1>2. Types'
  BY <1>1, QuietTypes DEF Types, Mains
<1>3. Places'
  BY <1>1, Sizes DEF Places, Early, Rest, Types
<1>4. OneWriter' /\ Published'
  BY <1>1, MainKeeps DEF Rest
<1>5. Order' /\ Reported'
  BY <1>1 DEF Order, Reported
<1>6. WriterStep
  BY <1>1, QuietStep DEF Rest, Complete
<1> QED  BY <1>2, <1>3, <1>4, <1>5, <1>6

LEMMA JoinSamplerKeeps ==
    ASSUME GInv, JoinSampler
    PROVE  GInv' /\ WriterStep
<1> USE DEF GInv
<1>1. /\ pc["main"] = "join" /\ UNCHANGED <<seq, word, rd, mapped, reached, stopped, Rest>>
      /\ cap["main"] = "none"
      /\ pc["sampler"] = "off"
      /\ DOMAIN pc' = Threads /\ pc'["main"] = "close" /\ pc'["sampler"] = pc["sampler"]
  BY GotoIs DEF JoinSampler, At, Quietly, Threads
<1>2. Types'
  BY <1>1, QuietTypes DEF Types, Mains
<1>3. Places'
  BY <1>1, Sizes DEF Places, Early, Rest, Types
<1>4. OneWriter' /\ Published'
  BY <1>1, MainKeeps DEF Rest
<1>5. Order' /\ Reported'
  BY <1>1 DEF Order, Reported
<1>6. WriterStep
  BY <1>1, QuietStep DEF Rest, Complete
<1> QED  BY <1>2, <1>3, <1>4, <1>5, <1>6

LEMMA CloseKeeps ==
    ASSUME GInv, Close
    PROVE  GInv' /\ WriterStep
<1> USE DEF GInv
<1>1. /\ pc["main"] = "close" /\ UNCHANGED <<seq, word, rd, reached, stopped, Rest>>
      /\ cap["main"] = "none"
      /\ mapped' = FALSE
      /\ DOMAIN pc' = Threads /\ pc'["main"] = "gone" /\ pc'["sampler"] = pc["sampler"]
  BY GotoIs DEF Close, At, Quietly, Threads
<1>2. Types'
  BY <1>1, QuietTypes DEF Types, Mains
<1>3. Places'
  BY <1>1, Sizes DEF Places, Early, Rest, Types
<1>4. OneWriter' /\ Published'
  BY <1>1, MainKeeps DEF Rest
<1>5. Order' /\ Reported'
  BY <1>1 DEF Order, Reported
<1>6. WriterStep
  BY <1>1, QuietStep DEF Rest, Complete
<1> QED  BY <1>2, <1>3, <1>4, <1>5, <1>6

LEMMA SamplerLookKeeps ==
    ASSUME GInv, SamplerLook
    PROVE  GInv' /\ WriterStep
<1> USE DEF GInv
<1>1. /\ pc["sampler"] = "loop" /\ UNCHANGED <<seq, word, rd, mapped, reached, stopped, Rest>>
      /\ cap["sampler"] = "none"
      /\ DOMAIN pc' = Threads /\ pc'["main"] = pc["main"] /\ pc'["sampler"] \in {"off", "due"}
  BY GotoIs DEF SamplerLook, Quietly, Threads
<1>2. Types'
  BY <1>1, QuietTypes DEF Types, Mains
<1>3. Places'
  BY <1>1 DEF Places, Early, Rest, Types
<1>4. OneWriter' /\ Published'
  BY <1>1, MainKeeps DEF Rest
<1>5. Order' /\ Reported'
  BY <1>1 DEF Order, Reported
<1>6. WriterStep
  BY <1>1, QuietStep DEF Rest, Complete
<1> QED  BY <1>2, <1>3, <1>4, <1>5, <1>6

LEMMA DieKeeps ==
    ASSUME GInv, Die
    PROVE  GInv' /\ WriterStep
<1> USE DEF GInv
<1>1. /\ alive' = FALSE
      /\ UNCHANGED <<seq, word, mapped, pc, cap, own, next, reached, writing, stopped, taken,
                     rd, seen, ready>>
  BY DEF Die, Quietly
<1>2. Types'
  BY <1>1 DEF Types
<1>3. Places' /\ OneWriter' /\ Published' /\ Order' /\ Reported'
  BY <1>1 DEF Places, OneWriter, Published, Order, Reported
<1>4. WriterStep
  BY <1>1, QuietStep DEF Complete
<1> QED  BY <1>2, <1>3, <1>4

-----------------------------------------------------------------------------
(* The phases that main reports.                                           *)

LEMMA ReportTypes ==
    ASSUME Types, UNCHANGED <<mapped, stopped, Rest>>, reached' \in Nat,
           DOMAIN pc' = Threads, pc'["main"] \in Mains, pc'["sampler"] = pc["sampler"],
           seq' \in [Locks -> Nat], DOMAIN word' = Locks,
           word'["phase"] \in [1..NWords -> {0, 1}], word'["memory"] = word["memory"],
           NEW b \in BOOLEAN, rd' = [rd EXCEPT !.calm = rd.calm /\ b]
    PROVE  Types'
<1>1. rd' \in Reads
  BY DisturbedRead
<1> QED  BY <1>1 DEF Types, Rest

\* What a store under "phase" leaves and changes.
LEMMA ReportStore ==
    ASSUME Types, NEW k \in 1..NWords, Store("phase", k, 1)
    PROVE  /\ DOMAIN word' = Locks /\ word'["memory"] = word["memory"]
           /\ word'["phase"] \in [1..NWords -> {0, 1}]
           /\ word'["phase"][k] = 1 /\ word["phase"][k] <= 1
           /\ \A j \in 1..NWords : j # k => word'["phase"][j] = word["phase"][j]
           /\ rd' = [rd EXCEPT !.calm = rd.calm /\ "phase" # rd.lock]
<1>1. /\ DOMAIN word' = Locks /\ word'["memory"] = word["memory"]
      /\ word'["phase"] = [word["phase"] EXCEPT ![k] = 1]
      /\ rd' = [rd EXCEPT !.calm = rd.calm /\ "phase" # rd.lock]
  <2>1. "phase" \in Locks /\ "memory" \in Locks /\ "memory" # "phase"
    BY Sizes
  <2>2. /\ DOMAIN word' = Locks
        /\ word'["phase"] = [word["phase"] EXCEPT ![k] = 1]
        /\ \A m \in Locks : m # "phase" => word'[m] = word[m]
        /\ rd' = [rd EXCEPT !.calm = rd.calm /\ "phase" # rd.lock]
    BY <2>1, StoreIs, Zenon
  <2> QED  BY <2>1, <2>2
<1>2. word["phase"] \in [1..NWords -> {0, 1}]
  BY DEF Types
<1>3. word["phase"][k] \in {0, 1}
  BY <1>2
<1>4. word'["phase"] \in [1..NWords -> {0, 1}]
  BY <1>1, <1>2
<1>5. /\ word'["phase"][k] = 1
      /\ \A j \in 1..NWords : j # k => word'["phase"][j] = word["phase"][j]
  BY <1>1, <1>2
<1>6. word["phase"][k] <= 1
  BY <1>3
<1> QED  BY <1>1, <1>4, <1>5, <1>6

LEMMA InheritProcessKeeps ==
    ASSUME GInv, InheritProcess
    PROVE  GInv' /\ WriterStep
<1> USE DEF GInv
<1>1. /\ pc["main"] = "process" /\ UNCHANGED <<seq, mapped, reached, stopped, Rest>>
      /\ cap["main"] = "none" /\ Store("phase", 1, 1) /\ 1 \in 1..NWords
      /\ DOMAIN pc' = Threads /\ pc'["main"] = "started" /\ pc'["sampler"] = pc["sampler"]
  BY GotoIs, Sizes DEF InheritProcess, At, Threads
<1>2. /\ DOMAIN word' = Locks /\ word'["memory"] = word["memory"]
      /\ word'["phase"] \in [1..NWords -> {0, 1}]
      /\ word'["phase"][1] = 1 /\ word["phase"][1] <= 1
      /\ \A j \in 1..NWords : j # 1 => word'["phase"][j] = word["phase"][j]
      /\ rd' = [rd EXCEPT !.calm = rd.calm /\ "phase" # rd.lock]
  BY <1>1, ReportStore
<1>3. Types'
  BY <1>1, <1>2, ReportTypes DEF Types, Mains
<1>4. Places'
  BY <1>1 DEF Places, Early, Rest
<1>5. OneWriter' /\ Published'
  BY <1>1, <1>2, MainKeeps
<1>6. Order'
  BY <1>1, <1>2, Sizes DEF Order
<1>7. Reported'
  <2>1. \A p \in 1..NPhases : word'["phase"][WordOf(p)] = word["phase"][WordOf(p)]
    BY <1>2, Sizes
  <2> QED  BY <1>1, <2>1 DEF Reported
<1>8. WriterStep
  <2>1. reached = 1 /\ ~Complete
    BY <1>1, Sizes DEF Places, Complete
  <2> QED  BY <1>1, <1>2, <2>1, StoreStep, Sizes DEF Rest
<1> QED  BY <1>3, <1>4, <1>5, <1>6, <1>7, <1>8

LEMMA InheritStartedKeeps ==
    ASSUME GInv, InheritStarted
    PROVE  GInv' /\ WriterStep
<1> USE DEF GInv
<1>1. /\ pc["main"] = "started" /\ UNCHANGED <<seq, mapped, reached, stopped, Rest>>
      /\ cap["main"] = "none" /\ Store("phase", 2, 1) /\ 2 \in 1..NWords
      /\ DOMAIN pc' = Threads /\ pc'["main"] = "phase" /\ pc'["sampler"] = pc["sampler"]
  BY GotoIs, Sizes DEF InheritStarted, At, Threads
<1>2. /\ DOMAIN word' = Locks /\ word'["memory"] = word["memory"]
      /\ word'["phase"] \in [1..NWords -> {0, 1}]
      /\ word'["phase"][2] = 1 /\ word["phase"][2] <= 1
      /\ \A j \in 1..NWords : j # 2 => word'["phase"][j] = word["phase"][j]
      /\ rd' = [rd EXCEPT !.calm = rd.calm /\ "phase" # rd.lock]
  BY <1>1, ReportStore
<1>3. Types'
  BY <1>1, <1>2, ReportTypes DEF Types, Mains
<1>4. Places'
  BY <1>1, Sizes DEF Places, Early, Rest
<1>5. OneWriter' /\ Published'
  BY <1>1, <1>2, MainKeeps
<1>6. Order'
  BY <1>1, <1>2, Sizes DEF Order
<1>7. Reported'
  <2>1. \A p \in 1..NPhases : word'["phase"][WordOf(p)] = word["phase"][WordOf(p)]
    BY <1>2, Sizes
  <2> QED  BY <1>1, <2>1 DEF Reported
<1>8. WriterStep
  <2>1. reached = 1 /\ ~Complete
    BY <1>1, Sizes DEF Places, Complete
  <2> QED  BY <1>1, <1>2, <2>1, StoreStep, Sizes DEF Rest
<1> QED  BY <1>3, <1>4, <1>5, <1>6, <1>7, <1>8

LEMMA PhaseBeginKeeps ==
    ASSUME GInv, PhaseBegin
    PROVE  GInv' /\ WriterStep
<1> USE DEF GInv
<1>1. /\ pc["main"] = "phase" /\ UNCHANGED <<word, mapped, reached, stopped, Rest>>
      /\ cap["main"] = "none" /\ Add("phase")
      /\ DOMAIN pc' = Threads /\ pc'["main"] = "set" /\ pc'["sampler"] = pc["sampler"]
  BY GotoIs DEF PhaseBegin, At, Threads
<1>2. /\ seq' \in [Locks -> Nat]
      /\ seq'["phase"] = seq["phase"] + 1 /\ seq'["memory"] = seq["memory"]
      /\ rd' = [rd EXCEPT !.calm = rd.calm /\ "phase" # rd.lock]
  BY <1>1, AddIs, Sizes
<1>3. Types'
  BY <1>1, <1>2, ReportTypes DEF Types, Mains
<1>4. Places'
  BY <1>1 DEF Places, Early, Rest
<1>5. OneWriter' /\ Published'
  BY <1>1, <1>2, MainKeeps
<1>6. Order'
  BY <1>1, <1>2 DEF Order
<1>7. Reported'
  <2>1. ~Odd(seq["phase"]) /\ seq["phase"] \in Nat
    BY <1>1, WordsAreNumbers, Sizes DEF Reported
  <2>2. Odd(seq'["phase"])
    BY <1>2, <2>1, OddNext
  <2> QED  BY <1>1, <2>2 DEF Reported
<1>8. WriterStep
  <2>1. ~Complete
    BY <1>1, Sizes DEF Places, Complete
  <2> QED  BY <1>1, <2>1, AddStep, Sizes DEF Rest
<1> QED  BY <1>3, <1>4, <1>5, <1>6, <1>7, <1>8

LEMMA PhaseSetKeeps ==
    ASSUME GInv, PhaseSet
    PROVE  GInv' /\ WriterStep
<1> USE DEF GInv
<1> DEFINE k == WordOf(reached)
<1>1. /\ pc["main"] = "set" /\ UNCHANGED <<seq, mapped, reached, stopped, Rest>>
      /\ cap["main"] = "none" /\ Store("phase", k, 1)
      /\ DOMAIN pc' = Threads /\ pc'["main"] = "end" /\ pc'["sampler"] = pc["sampler"]
  BY GotoIs DEF PhaseSet, At, Threads
<1>0. reached \in 1..NPhases /\ k \in 1..NWords /\ k # 1 /\ k # 2
  BY <1>1, Sizes DEF Places
<1>2. /\ DOMAIN word' = Locks /\ word'["memory"] = word["memory"]
      /\ word'["phase"] \in [1..NWords -> {0, 1}]
      /\ word'["phase"][k] = 1 /\ word["phase"][k] <= 1
      /\ \A j \in 1..NWords : j # k => word'["phase"][j] = word["phase"][j]
      /\ rd' = [rd EXCEPT !.calm = rd.calm /\ "phase" # rd.lock]
  BY <1>0, <1>1, ReportStore
<1>3. Types'
  BY <1>1, <1>2, ReportTypes DEF Types, Mains
<1>4. Places'
  BY <1>1 DEF Places, Early, Rest
<1>5. OneWriter' /\ Published'
  BY <1>1, <1>2, MainKeeps
<1>6. Order'
  <2>1. word'["phase"][1] = word["phase"][1] /\ word'["phase"][2] = word["phase"][2]
    <3> HIDE DEF k
    <3>1. 1 \in 1..NWords /\ 2 \in 1..NWords
      BY Sizes
    <3> QED  BY <1>0, <1>2, <3>1
  <2> QED  BY <1>1, <1>2, <2>1, Sizes DEF Order
<1>7. Reported'
  <2>1. \A p \in 1..NPhases : p # reached =>
          word'["phase"][WordOf(p)] = word["phase"][WordOf(p)]
    BY <1>0, <1>2, Sizes
  <2> QED  BY <1>0, <1>1, <1>2, <2>1 DEF Reported
<1>8. WriterStep
  <2>1. ~Complete /\ Odd(seq["phase"])
    BY <1>0, <1>1, Sizes DEF Reported, Complete
  <2> QED  BY <1>0, <1>1, <1>2, <2>1, StoreStep, Sizes DEF Rest
<1> QED  BY <1>3, <1>4, <1>5, <1>6, <1>7, <1>8

LEMMA PhaseEndKeeps ==
    ASSUME GInv, PhaseEnd
    PROVE  GInv' /\ WriterStep
<1> USE DEF GInv
<1>1. /\ pc["main"] = "end" /\ UNCHANGED <<word, mapped, stopped, Rest>>
      /\ cap["main"] = "none" /\ Add("phase") /\ reached' = reached + 1
      /\ DOMAIN pc' = Threads /\ pc'["sampler"] = pc["sampler"]
      /\ \/ reached = 1 /\ pc'["main"] = "start"
         \/ reached \in 2..NPhases - 1 /\ pc'["main"] = "phase"
         \/ reached = NPhases /\ pc'["main"] = "serve"
         \/ reached = 2 /\ pc'["main"] = "stop"
  BY GotoIs DEF PhaseEnd, At, Threads
<1>0. reached \in 1..NPhases
  BY <1>1 DEF Places
<1>2. /\ seq' \in [Locks -> Nat]
      /\ seq'["phase"] = seq["phase"] + 1 /\ seq'["memory"] = seq["memory"]
      /\ rd' = [rd EXCEPT !.calm = rd.calm /\ "phase" # rd.lock]
  BY <1>1, AddIs, Sizes
<1>3. Types'
  <2>1. pc'["main"] \in Mains /\ reached' \in Nat
    BY <1>0, <1>1 DEF Mains
  <2>2. word'["phase"] \in [1..NWords -> {0, 1}] /\ DOMAIN word' = Locks
    BY <1>1 DEF Types
  <2> QED  BY <1>1, <1>2, <2>1, <2>2, ReportTypes
<1>4. Places'
  BY <1>0, <1>1, Sizes DEF Places, Early, Rest
<1>5. OneWriter' /\ Published'
  BY <1>1, <1>2, MainKeeps
<1>6. Order'
  BY <1>1, <1>2 DEF Order
<1>7. Reported'
  <2>1. Odd(seq["phase"]) /\ seq["phase"] \in Nat
    BY <1>1, WordsAreNumbers, Sizes DEF Reported
  <2>2. ~Odd(seq'["phase"])
    BY <1>2, <2>1, OddNext
  <2> QED  BY <1>0, <1>1, <2>2 DEF Reported
<1>8. WriterStep
  <2>1. ~Complete /\ pc["main"] # "silent"
    BY <1>0, <1>1, Sizes DEF Complete
  <2> QED  BY <1>1, <2>1, AddStep, Sizes DEF Rest
<1> QED  BY <1>3, <1>4, <1>5, <1>6, <1>7, <1>8

-----------------------------------------------------------------------------
(* The captures.                                                           *)

LEMMA CaptureTypes ==
    ASSUME Types, UNCHANGED <<alive, mapped, reached, stopped, ready, seen>>,
           DOMAIN pc' = Threads, pc'["main"] \in Mains, pc'["sampler"] \in {"off", "loop", "due"},
           cap' \in [Threads -> {"none", "add", "store", "end", "clear"}],
           own' \in [Threads -> Nat], next' \in [Threads -> Nat], taken' \in Nat,
           writing' \in BOOLEAN, seq' \in [Locks -> Nat], DOMAIN word' = Locks,
           word'["phase"] = word["phase"], word'["memory"] \in [1..NFields -> Nat],
           NEW b \in BOOLEAN, rd' = [rd EXCEPT !.calm = rd.calm /\ b]
    PROVE  Types'
<1>1. rd' \in Reads
  BY DisturbedRead
<1> QED  BY <1>1 DEF Types

\* Where a thread can be that holds the try-lock.
LEMMA HolderPlace ==
    ASSUME Places, NEW t \in Threads, cap[t] # "none"
    PROVE  /\ t = "main" => pc["main"] \in {"create", "serve"}
           /\ t = "sampler" => pc["sampler"] = "loop"
           /\ pc["main"] \notin {"inherit", "silent", "process", "started"}
BY DEF Places, Early, Threads

LEMMA CaptureKeeps ==
    ASSUME GInv, NEW t \in Threads, Capture(t)
    PROVE  GInv' /\ WriterStep
<1> USE DEF GInv
<1>1. /\ cap[t] = "none" /\ DOMAIN pc' = Threads
      /\ UNCHANGED <<seq, word, rd, alive, mapped, next, reached, stopped, seen, ready>>
  BY GotoIs DEF Capture, Quietly
<1>2. \/ /\ t = "main" /\ pc["main"] = "start" /\ pc'["main"] = "create"
         /\ pc'["sampler"] = pc["sampler"]
      \/ /\ t = "main" /\ pc["main"] = "serve" /\ pc'["main"] = "serve"
         /\ pc'["sampler"] = pc["sampler"]
      \/ /\ t = "sampler" /\ pc["sampler"] = "due" /\ pc'["sampler"] = "loop"
         /\ pc'["main"] = pc["main"]
  <2>1. Goto(t, After(pc[t])) /\ pc[t] \in Captures[t]
    BY DEF Capture
  <2>2. /\ pc'[t] = After(pc[t])
        /\ \A u \in Threads : u # t => pc'[u] = pc[u]
    BY <2>1, GotoIs
  <2>3. t = "main" \/ t = "sampler"
    BY DEF Threads
  <2> QED  BY <2>1, <2>2, <2>3 DEF Captures, After, Threads
<1>3. CASE UNCHANGED <<writing, taken, own, cap>>
  <2>1. Types'
    BY <1>1, <1>2, <1>3 DEF Types, Mains
  <2>2. Places'
    BY <1>1, <1>2, <1>3 DEF Places, Early, Threads
  <2>3. OneWriter' /\ Published'
    BY <1>1, <1>3 DEF OneWriter, Published
  <2> QED
    <3>1. Order' /\ Reported'
      BY <1>1, <1>2 DEF Order, Reported
    <3> QED  BY <2>1, <2>2, <2>3, <3>1, <1>1, <1>2, QuietStep DEF Complete
<1>4. CASE /\ ~writing /\ writing' = TRUE /\ taken' = taken + 1
           /\ own' = [own EXCEPT ![t] = taken + 1] /\ cap' = [cap EXCEPT ![t] = "add"]
  <2>0. taken \in Nat /\ \A u \in Threads : cap[u] = "none"
    BY <1>4 DEF Types, OneWriter
  <2>1. Types'
    <3>1. cap' \in [Threads -> {"none", "add", "store", "end", "clear"}]
      BY <1>4 DEF Types
    <3>2. own' \in [Threads -> Nat] /\ taken' \in Nat
      BY <1>4, <2>0 DEF Types
    <3> QED  BY <1>1, <1>2, <1>4, <3>1, <3>2 DEF Types, Mains
  <2>2. Places'
    BY <1>1, <1>2, <1>4 DEF Places, Early, Threads, Types
  <2>3. /\ cap'[t] = "add" /\ own'[t] = taken'
        /\ \A u \in Threads : u # t => cap'[u] = "none"
    BY <1>4, <2>0 DEF Types
  <2>4. OneWriter'
    BY <1>4, <2>3 DEF OneWriter
  <2>5. \A k \in 1..NFields : word["memory"][k] <= taken'
    BY <1>4, <2>0, WordsAreNumbers, Sizes DEF Published
  <2>6. Published'
    BY <1>1, <2>0, <2>3, <2>5 DEF Published
  <2> QED
    <3>1. Order' /\ Reported'
      BY <1>1, <1>2 DEF Order, Reported
    <3> QED  BY <2>1, <2>2, <2>4, <2>6, <3>1, <1>1, <1>2, QuietStep DEF Complete
<1> QED  BY <1>3, <1>4 DEF Capture

LEMMA WriteBeginKeeps ==
    ASSUME GInv, NEW t \in Threads, WriteBegin(t)
    PROVE  GInv' /\ WriterStep
<1> USE DEF GInv
<1>1. /\ cap[t] = "add" /\ Add("memory")
      /\ cap' = [cap EXCEPT ![t] = "store"] /\ next' = [next EXCEPT ![t] = 1]
      /\ UNCHANGED <<word, alive, mapped, pc, own, reached, writing, stopped, taken, seen, ready>>
  BY DEF WriteBegin
<1>2. /\ seq' \in [Locks -> Nat]
      /\ seq'["memory"] = seq["memory"] + 1 /\ seq'["phase"] = seq["phase"]
      /\ rd' = [rd EXCEPT !.calm = rd.calm /\ "memory" # rd.lock]
  BY <1>1, AddIs, Sizes
<1>3. /\ cap'[t] = "store" /\ next'[t] = 1
      /\ \A u \in Threads : u # t => cap[u] = "none" /\ cap'[u] = "none"
  BY <1>1 DEF Types, OneWriter
<1>4. Types'
  <2>1. /\ cap' \in [Threads -> {"none", "add", "store", "end", "clear"}]
        /\ next' \in [Threads -> Nat]
    BY <1>1 DEF Types
  <2>2. /\ DOMAIN pc' = Threads /\ pc'["main"] \in Mains
        /\ pc'["sampler"] \in {"off", "loop", "due"} /\ own' \in [Threads -> Nat]
        /\ taken' \in Nat /\ writing' \in BOOLEAN /\ DOMAIN word' = Locks
        /\ word'["memory"] \in [1..NFields -> Nat]
    BY <1>1 DEF Types
  <2> QED  BY <1>1, <1>2, <2>1, <2>2, CaptureTypes
<1>5. Places'
  BY <1>1, <1>3 DEF Places, Threads
<1>6. OneWriter'
  BY <1>1, <1>3 DEF OneWriter
<1>7. Published'
  <2>1. ~Odd(seq["memory"]) /\ seq["memory"] \in Nat
    BY <1>1, <1>3, WordsAreNumbers, Sizes DEF Published
  <2>2. Odd(seq'["memory"])
    BY <1>2, <2>1, OddNext
  <2>3. \A j, k \in 1..NFields : word["memory"][j] = word["memory"][k]
    BY <1>1, <1>3 DEF Published
  <2>4. next'[t] \in 1..NFields /\ \A k \in 1..NFields : ~(k < next'[t])
    BY <1>3, Sizes
  <2> QED  BY <1>1, <1>3, <2>2, <2>3, <2>4 DEF Published
<1>8. Order' /\ Reported'
  <2>1. seq'["memory"] # 0
    BY <1>2, WordsAreNumbers, Sizes
  <2> QED  BY <1>1, <1>2, <2>1 DEF Order, Reported
<1>9. WriterStep
  BY <1>1, AddStep, Sizes DEF Complete
<1> QED  BY <1>4, <1>5, <1>6, <1>7, <1>8, <1>9

LEMMA WriteWordKeeps ==
    ASSUME GInv, NEW t \in Threads, WriteWord(t)
    PROVE  GInv' /\ WriterStep
<1> USE DEF GInv
<1> DEFINE n == next[t]
<1>1. /\ cap[t] = "store" /\ Store("memory", n, own[t])
      /\ \/ n < NFields /\ next' = [next EXCEPT ![t] = n + 1] /\ cap' = cap
         \/ n = NFields /\ cap' = [cap EXCEPT ![t] = "end"] /\ next' = next
      /\ UNCHANGED <<seq, alive, mapped, pc, own, reached, writing, stopped, taken, seen, ready>>
  BY DEF WriteWord
<1>2. /\ n \in 1..NFields /\ own[t] = taken /\ taken \in Nat
      /\ \A k \in 1..NFields : k < n => word["memory"][k] = taken
  <2>1. cap[t] = "store"
    BY <1>1
  <2>2. own[t] = taken
    BY <2>1 DEF OneWriter
  <2>3. n \in 1..NFields /\ \A k \in 1..NFields : k < n => word["memory"][k] = own[t]
    BY <2>1 DEF Published
  <2> QED  BY <2>2, <2>3 DEF Types
<1>3. word["memory"] \in [1..NFields -> Nat]
  BY DEF Types
<1>4. /\ DOMAIN word' = Locks
      /\ word'["memory"] = [word["memory"] EXCEPT ![n] = taken]
      /\ word'["phase"] = word["phase"]
      /\ rd' = [rd EXCEPT !.calm = rd.calm /\ "memory" # rd.lock]
  <2> HIDE DEF n
  <2>1. "memory" \in Locks /\ "phase" \in Locks /\ "phase" # "memory"
    BY Sizes
  <2>2. Store("memory", n, taken)
    BY <1>1, <1>2
  <2>3. /\ DOMAIN word' = Locks
        /\ word'["memory"] = [word["memory"] EXCEPT ![n] = taken]
        /\ \A m \in Locks : m # "memory" => word'[m] = word[m]
        /\ rd' = [rd EXCEPT !.calm = rd.calm /\ "memory" # rd.lock]
    BY <2>1, <2>2, StoreIs, Zenon
  <2> QED  BY <2>1, <2>3
<1>5. /\ word'["memory"][n] = taken
      /\ \A k \in 1..NFields : k # n => word'["memory"][k] = word["memory"][k]
      /\ word'["memory"] \in [1..NFields -> Nat]
  BY <1>2, <1>3, <1>4
<1>6. \A u \in Threads : u # t => cap[u] = "none" /\ cap'[u] = "none"
  BY <1>1 DEF Types, OneWriter
<1>7. Types'
  <2>1. /\ cap' \in [Threads -> {"none", "add", "store", "end", "clear"}]
        /\ next' \in [Threads -> Nat]
    <3> HIDE DEF n
    <3>0. next \in [Threads -> Nat]
      BY DEF Types
    <3>1. n + 1 \in Nat
      BY <1>2, Sizes
    <3>2. next' \in [Threads -> Nat]
      BY <1>1, <3>0, <3>1
    <3> QED  BY <1>1, <3>2 DEF Types
  <2>2. /\ DOMAIN pc' = Threads /\ pc'["main"] \in Mains
        /\ pc'["sampler"] \in {"off", "loop", "due"} /\ own' \in [Threads -> Nat]
        /\ taken' \in Nat /\ writing' \in BOOLEAN /\ seq' \in [Locks -> Nat]
    BY <1>1 DEF Types
  <2> QED  BY <1>1, <1>4, <1>5, <2>1, <2>2, CaptureTypes
<1>8. Places'
  BY <1>1, <1>6 DEF Places, Threads
<1>9. OneWriter' /\ cap'[t] \in {"store", "end"}
  BY <1>1, <1>6 DEF OneWriter, Types
<1>10. Published'
  <2>1. Odd(seq'["memory"])
    BY <1>1 DEF Published
  <2>2. \A k \in 1..NFields : word'["memory"][k] <= taken'
    BY <1>1, <1>2, <1>5 DEF Published
  <2>3. CASE n < NFields
    <3>1. /\ cap'[t] = "store" /\ next'[t] = n + 1 /\ n + 1 \in 1..NFields
          /\ own'[t] = taken'
      <4> HIDE DEF n
      <4>1. next' = [next EXCEPT ![t] = n + 1] /\ cap' = cap
        BY <1>1, <2>3, Sizes
      <4>2. n + 1 \in 1..NFields
        BY <1>2, <2>3, Sizes
      <4>3. t \in DOMAIN next
        BY DEF Types
      <4> QED  BY <1>1, <1>2, <4>1, <4>2, <4>3
    <3>2. \A k \in 1..NFields : k < n + 1 => word'["memory"][k] = taken
      BY <1>2, <1>5
    <3> QED  BY <1>1, <1>6, <2>1, <2>2, <3>1, <3>2 DEF Published
  <2>4. CASE n = NFields
    <3>1. cap'[t] = "end" /\ own'[t] = taken'
      BY <1>1, <1>2, <2>4, Sizes DEF Types
    <3>2. \A k \in 1..NFields : word'["memory"][k] = taken
      BY <1>2, <1>5, <2>4
    <3> QED  BY <1>1, <1>6, <2>1, <2>2, <3>1, <3>2 DEF Published
  <2> QED  BY <1>1, <2>3, <2>4
<1>11. Order' /\ Reported'
  <2>1. seq["memory"] # 0
    BY <1>1, OddZero DEF Published
  <2>2. pc["main"] \notin {"inherit", "silent", "process", "started"}
    BY <1>1, HolderPlace
  <2> QED  BY <1>1, <1>4, <2>1, <2>2 DEF Order, Reported
<1>12. WriterStep
  <2> HIDE DEF n
  <2>1. n \in 1..Last["memory"] /\ "memory" \in Locks /\ Store("memory", n, taken)
    BY <1>1, <1>2, Sizes
  <2>2. word["memory"][n] <= taken /\ Odd(seq["memory"])
    BY <1>1, <1>2 DEF Published
  <2> QED  BY <1>1, <2>1, <2>2, StoreStep
<1> QED  BY <1>7, <1>8, <1>9, <1>10, <1>11, <1>12

LEMMA WriteEndKeeps ==
    ASSUME GInv, NEW t \in Threads, WriteEnd(t)
    PROVE  GInv' /\ WriterStep
<1> USE DEF GInv
<1>1. /\ cap[t] = "end" /\ Add("memory")
      /\ cap' = [cap EXCEPT ![t] = "clear"]
      /\ UNCHANGED <<word, alive, mapped, pc, own, next, reached, writing, stopped, taken,
                     seen, ready>>
  BY DEF WriteEnd
<1>2. /\ seq' \in [Locks -> Nat]
      /\ seq'["memory"] = seq["memory"] + 1 /\ seq'["phase"] = seq["phase"]
      /\ rd' = [rd EXCEPT !.calm = rd.calm /\ "memory" # rd.lock]
  BY <1>1, AddIs, Sizes
<1>3. /\ cap'[t] = "clear"
      /\ \A u \in Threads : u # t => cap[u] = "none" /\ cap'[u] = "none"
  BY <1>1 DEF Types, OneWriter
<1>4. Types'
  <2>1. cap' \in [Threads -> {"none", "add", "store", "end", "clear"}]
    BY <1>1 DEF Types
  <2>2. /\ DOMAIN pc' = Threads /\ pc'["main"] \in Mains
        /\ pc'["sampler"] \in {"off", "loop", "due"} /\ own' \in [Threads -> Nat]
        /\ taken' \in Nat /\ writing' \in BOOLEAN /\ DOMAIN word' = Locks
        /\ next' \in [Threads -> Nat] /\ word'["memory"] \in [1..NFields -> Nat]
    BY <1>1 DEF Types
  <2> QED  BY <1>1, <1>2, <2>1, <2>2, CaptureTypes
<1>5. Places'
  BY <1>1, <1>3 DEF Places, Threads
<1>6. OneWriter'
  BY <1>1, <1>3 DEF OneWriter
<1>7. Published'
  <2>1. Odd(seq["memory"]) /\ seq["memory"] \in Nat
    BY <1>1, WordsAreNumbers, Sizes DEF Published
  <2>2. ~Odd(seq'["memory"])
    BY <1>2, <2>1, OddNext
  <2>3. \A k \in 1..NFields : word["memory"][k] = own[t]
    BY <1>1 DEF Published
  <2>4. \A u \in Threads : cap'[u] \notin {"store", "end"}
    BY <1>3
  <2> QED  BY <1>1, <2>2, <2>3, <2>4 DEF Published
<1>8. Order' /\ Reported'
  <2>1. seq'["memory"] # 0
    BY <1>2, WordsAreNumbers, Sizes
  <2> QED  BY <1>1, <1>2, <2>1 DEF Order, Reported
<1>9. WriterStep
  BY <1>1, AddStep, Sizes DEF Complete
<1> QED  BY <1>4, <1>5, <1>6, <1>7, <1>8, <1>9

LEMMA CapturedKeeps ==
    ASSUME GInv, NEW t \in Threads, Captured(t)
    PROVE  GInv' /\ WriterStep
<1> USE DEF GInv
<1>1. /\ cap[t] = "clear" /\ writing' = FALSE /\ cap' = [cap EXCEPT ![t] = "none"]
      /\ UNCHANGED <<seq, word, alive, mapped, pc, own, next, reached, stopped, taken,
                     rd, seen, ready>>
  BY DEF Captured, Quietly
<1>2. \A u \in Threads : cap'[u] = "none" /\ cap[u] \in {"none", "clear"}
  BY <1>1 DEF Types, OneWriter
<1>3. Types'
  BY <1>1 DEF Types
<1>4. Places' /\ OneWriter'
  BY <1>1, <1>2 DEF Places, OneWriter, Threads
<1>5. Published'
  BY <1>1, <1>2 DEF Published
<1>6. Order' /\ Reported'
  BY <1>1 DEF Order, Reported
<1>7. WriterStep
  BY <1>1, QuietStep DEF Complete
<1> QED  BY <1>3, <1>4, <1>5, <1>6, <1>7

\* Every step of geistd.
LEMMA GeistdKeeps ==
    ASSUME GInv, (\E t \in Threads : Capturing(t)) \/ Main \/ SamplerLook \/ Die
    PROVE  GInv' /\ WriterStep
<1>1. ASSUME NEW t \in Threads, Capturing(t)
      PROVE  GInv' /\ WriterStep
  BY <1>1, CaptureKeeps, WriteBeginKeeps, WriteWordKeeps, WriteEndKeeps, CapturedKeeps
     DEF Capturing
<1>2. CASE Main
  BY <1>2, InheritKeeps, InheritProcessKeeps, InheritStartedKeeps, PhaseBeginKeeps,
     PhaseSetKeeps, PhaseEndKeeps, CreateSamplerKeeps, ServeEndKeeps, StopSamplerKeeps,
     JoinSamplerKeeps, CloseKeeps DEF Main
<1> QED  BY <1>1, <1>2, SamplerLookKeeps, DieKeeps

-----------------------------------------------------------------------------
(* geist-app's reads.                                                      *)

RInv == Loaded /\ Remembered /\ Untorn /\ NotMissed /\ Ready

LEMMA ReadType == Types => rd \in Reads
BY DEF Types

\* No step of geistd spoils what has been read.
LEMMA WriterKeepsReader ==
    ASSUME LInv, GInv', WriterStep
    PROVE  RInv'
<1> USE DEF LInv, GInv
<1>1. /\ rd \in Reads /\ rd' \in Reads /\ rd' = [rd EXCEPT !.calm = rd'.calm]
  BY ReadType DEF WriterStep, Types, Reads
<1>2. /\ rd'.at = rd.at /\ rd'.lock = rd.lock /\ rd'.seq = rd.seq /\ rd'.got = rd.got
      /\ rd'.then = rd.then /\ rd.lock \in Locks /\ rd.seq \in Nat /\ rd.got \in Seq(Nat)
  BY <1>1 DEF Reads
<1>3. seen' = seen /\ ready' = ready
  BY DEF WriterStep
<1>4. \A l \in Locks : /\ seq[l] \in Nat /\ seq'[l] \in Nat /\ seq[l] <= seq'[l]
                       /\ \A k \in 1..Last[l] : /\ word[l][k] \in Nat /\ word'[l][k] \in Nat
                                                /\ word[l][k] <= word'[l][k]
  <2>1. \A l \in Locks : seq'[l] \in Nat
    BY DEF Types
  <2>2. \A l \in Locks : \A k \in 1..Last[l] : word'[l][k] \in Nat
    <3>1. \A k \in 1..NWords : word'["phase"][k] \in {0, 1}
      BY DEF Types
    <3>2. word'["memory"] \in [1..NFields -> Nat]
      BY DEF Types
    <3>3. Last["phase"] = NWords /\ Last["memory"] = NFields
      BY Sizes
    <3>4. \A k \in 1..Last["phase"] : word'["phase"][k] \in Nat
      BY <3>1, <3>3
    <3>5. \A k \in 1..Last["memory"] : word'["memory"][k] \in Nat
      BY <3>2, <3>3
    <3> QED  BY <3>4, <3>5 DEF Locks
  <2> QED  BY <2>1, <2>2, WordsAreNumbers DEF WriterStep
<1>5. Loaded'
  <2> SUFFICES ASSUME Reading'
               PROVE  /\ ~Odd(rd.seq) /\ rd.seq <= seq'[rd.lock]
                      /\ IF rd.at = "check" THEN Len(rd.got) = Last[rd.lock]
                                            ELSE Len(rd.got) < Last[rd.lock]
                      /\ \A k \in 1..Len(rd.got) : rd.got[k] <= word'[rd.lock][k]
                      /\ rd.seq = seq'[rd.lock] =>
                           \A k \in 1..Len(rd.got) : k \in Numbered[rd.lock] =>
                             rd.got[k] = word'[rd.lock][k]
                      /\ rd'.calm => /\ rd.seq = seq'[rd.lock]
                                     /\ \A k \in 1..Len(rd.got) : rd.got[k] = word'[rd.lock][k]
    BY <1>2 DEF Loaded
  <2> DEFINE l == rd.lock
  <2> HIDE DEF l
  <2>1. Reading
    BY <1>2 DEF Reading
  <2>2. /\ ~Odd(rd.seq) /\ rd.seq <= seq[l]
        /\ IF rd.at = "check" THEN Len(rd.got) = Last[l] ELSE Len(rd.got) < Last[l]
        /\ \A k \in 1..Len(rd.got) : rd.got[k] <= word[l][k]
        /\ rd.seq = seq[l] =>
             \A k \in 1..Len(rd.got) : k \in Numbered[l] => rd.got[k] = word[l][k]
        /\ rd.calm => rd.seq = seq[l] /\ \A k \in 1..Len(rd.got) : rd.got[k] = word[l][k]
    BY <2>1 DEF Loaded, l
  <2>3. l \in Locks
    BY <1>2 DEF l
  <2>4. Len(rd.got) \in Nat /\ Last[l] \in Nat
    BY <1>2, <2>3, LenProperties, Sizes DEF Locks
  <2>5. \A k \in 1..Len(rd.got) : k \in 1..Last[l] /\ rd.got[k] \in Nat
    <3>1. \A k \in 1..Len(rd.got) : rd.got[k] \in Nat
      BY <1>2, ElementOfSeq
    <3> QED  BY <2>2, <2>4, <3>1
  <2>6. \A k \in 1..Len(rd.got) : rd.got[k] <= word'[l][k]
    BY <1>4, <2>2, <2>3, <2>5
  <2>7. rd.seq <= seq'[l]
    BY <1>2, <1>4, <2>2, <2>3
  <2>8. rd.seq = seq'[l] =>
          \A k \in 1..Len(rd.got) : k \in Numbered[l] => rd.got[k] = word'[l][k]
    <3> SUFFICES ASSUME rd.seq = seq'[l]
                 PROVE  \A k \in 1..Len(rd.got) : k \in Numbered[l] => rd.got[k] = word'[l][k]
      OBVIOUS
    <3>1. seq[l] = rd.seq /\ seq'[l] = seq[l] /\ ~Odd(seq[l])
      BY <1>2, <1>4, <2>2, <2>3
    <3>2. \A k \in Numbered[l] : word'[l][k] = word[l][k]
      BY <2>3, <3>1 DEF WriterStep
    <3> QED  BY <2>2, <3>1, <3>2
  <2>9. rd'.calm => rd.seq = seq'[l] /\ \A k \in 1..Len(rd.got) : rd.got[k] = word'[l][k]
    BY <2>2 DEF WriterStep, l
  <2> QED  BY <2>2, <2>6, <2>7, <2>8, <2>9 DEF l
<1>6. Remembered'
  <2> SUFFICES ASSUME NEW l \in Locks
               PROVE  /\ seen[l].seq <= seq'[l]
                      /\ Len(seen[l].got) = Last[l]
                      /\ \A k \in 1..Last[l] : seen[l].got[k] <= word'[l][k]
    BY <1>3 DEF Remembered
  <2>1. /\ seen[l].seq <= seq[l] /\ Len(seen[l].got) = Last[l]
        /\ \A k \in 1..Last[l] : seen[l].got[k] <= word[l][k]
    BY DEF Remembered
  <2>2. seen[l].seq \in Nat /\ seen[l].got \in Seq(Nat)
    BY DEF Types
  <2>3. \A k \in 1..Last[l] : seen[l].got[k] \in Nat
    BY <2>1, <2>2, ElementOfSeq
  <2>4. seen[l].seq <= seq'[l]
    BY <1>4, <2>1, <2>2
  <2>5. \A k \in 1..Last[l] : seen[l].got[k] <= word'[l][k]
    BY <1>4, <2>1, <2>3
  <2> QED  BY <2>1, <2>4, <2>5
<1>7. Untorn'
  BY <1>3 DEF Untorn
<1>8. NotMissed'
  <2> SUFFICES ASSUME rd.at = "missed", rd'.calm
               PROVE  \/ rd.lock = "phase" /\ (word'["phase"][Started] = 0
                                                \/ pc'["main"] \in {"set", "end"})
                      \/ rd.lock = "memory" /\ (word'["memory"][1] = 0
                                                 \/ \E t \in Threads : cap'[t] \in {"store", "end"})
    BY <1>2 DEF NotMissed
  <2>1. rd.calm /\ seq'[rd.lock] = seq[rd.lock] /\ word'[rd.lock] = word[rd.lock]
    BY DEF WriterStep
  <2>2. CASE rd.lock = "phase"
    <3>1. word["phase"][Started] = 0 \/ pc["main"] \in {"set", "end"}
      BY <2>1, <2>2 DEF NotMissed
    <3>2. pc["main"] \in {"set", "end"} => pc'["main"] \in {"set", "end"}
      BY <2>1, <2>2 DEF Reported
    <3> QED  BY <2>1, <2>2, <3>1, <3>2
  <2>3. CASE rd.lock = "memory"
    <3>1. word["memory"][1] = 0 \/ \E t \in Threads : cap[t] \in {"store", "end"}
      BY <2>1, <2>3 DEF NotMissed
    <3>2. (\E t \in Threads : cap[t] \in {"store", "end"}) =>
            \E t \in Threads : cap'[t] \in {"store", "end"}
      BY <2>1, <2>3 DEF Published
    <3> QED  BY <2>1, <2>3, <3>1, <3>2
  <2> QED  BY <1>2, <2>2, <2>3 DEF Locks
<1>9. Ready'
  <2>1. /\ pc["main"] = "silent" => pc'["main"] = "silent"
        /\ Complete => Complete' /\ (rd.lock = "phase" => rd'.calm = rd.calm)
    BY DEF WriterStep
  <2>2. rd.at \notin Done /\ rd.then = "ready" =>
          rd.lock = "phase" /\ (pc'["main"] = "silent" \/ (Complete' /\ rd'.calm))
    BY <2>1 DEF Ready
  <2>3. ready => \/ pc'["main"] = "silent"
                 \/ Complete' /\ \A p \in 1..NPhases : seen["phase"].got[WordOf(p)] # 0
    BY <2>1 DEF Ready
  <2> QED  BY <1>2, <1>3, <2>2, <2>3 DEF Ready, Done
<1> QED  BY <1>5, <1>6, <1>7, <1>8, <1>9 DEF RInv

\* A read changes nothing of geistd's.
LEMMA ReaderLeaves ==
    ASSUME GInv, UNCHANGED geistd, rd' \in Reads, ready' \in BOOLEAN,
           seen' \in [Locks -> [seq : Nat, got : Seq(Nat)]]
    PROVE  GInv'
<1>1. UNCHANGED <<seq, word, alive, mapped, pc, cap, own, next, reached, writing, stopped, taken>>
  BY DEF geistd
<1>2. Types'
  BY <1>1 DEF GInv, Types, Reads
<1> QED  BY <1>1, <1>2 DEF GInv, Places, OneWriter, Published, Order, Reported

\* The parity that lifecycle_read and lifecycle_memory_read test.
LEMMA EvenIsNotOdd ==
    ASSUME NEW n \in Nat
    PROVE  n % 2 = 0 <=> ~Odd(n)
BY DEF Odd

LEMMA BeginKeeps ==
    ASSUME LInv, NEW l \in Locks, NEW then \in {"poll", "ready"}, Begin(l, then),
           then = "ready" => l = "phase" /\ (pc["main"] = "silent" \/ Complete)
    PROVE  LInv'
<1> USE DEF LInv
<1>1. /\ rd' = [at |-> "number", lock |-> l, attempt |-> 1, seq |-> 0, got |-> <<>>,
                calm |-> TRUE, then |-> then]
      /\ UNCHANGED <<seen, ready, geistd>>
  BY DEF Begin
<1>2. /\ rd'.at = "number" /\ rd'.lock = l /\ rd'.then = then /\ rd'.calm = TRUE
      /\ rd' \in Reads
  BY <1>1, EmptySeq DEF Reads
<1>3. UNCHANGED <<seq, word, pc, cap, reached>>
  BY <1>1 DEF geistd
<1>4. GInv'
  BY <1>1, <1>2, ReaderLeaves DEF GInv, Types
<1>5. Loaded' /\ NotMissed'
  BY <1>2 DEF Loaded, Reading, NotMissed
<1>6. Remembered' /\ Untorn'
  BY <1>1, <1>3 DEF Remembered, Untorn
<1>7. Ready'
  <2>1. seen' = seen /\ ready' = ready
    BY <1>1
  <2> QED  BY <1>2, <1>3, <2>1 DEF Ready, Complete, Done
<1> QED  BY <1>4, <1>5, <1>6, <1>7 DEF GInv

LEMMA HandshakeKeeps ==
    ASSUME LInv, Handshake
    PROVE  LInv'
<1>1. pc["main"] \in {"serve", "silent"} /\ Begin("phase", "ready")
  BY DEF Handshake
<1>2. pc["main"] = "silent" \/ Complete
  BY <1>1 DEF LInv, Places, Complete
<1> QED  BY <1>1, <1>2, BeginKeeps, Sizes

\* A read that fails: it begins again or gives up.
LEMMA TryAgainKeeps ==
    ASSUME LInv, rd.at \notin Done, TryAgain, UNCHANGED <<seen, geistd>>,
           rd.calm => \/ rd.lock = "phase" /\ (word["phase"][Started] = 0
                                                \/ pc["main"] \in {"set", "end"})
                      \/ rd.lock = "memory" /\ (word["memory"][1] = 0
                                                 \/ \E t \in Threads : cap[t] \in {"store", "end"})
    PROVE  LInv'
<1> USE DEF LInv
<1>1. rd \in Reads
  BY ReadType
<1>2. UNCHANGED <<seq, word, pc, cap, reached>> /\ seen' = seen
  BY DEF geistd
<1>3. Remembered' /\ Untorn'
  BY <1>2 DEF Remembered, Untorn
<1>4. CASE rd.attempt < Attempts
  <2>1. rd' = [rd EXCEPT !.at = "number", !.attempt = @ + 1] /\ ready' = ready
    BY <1>4 DEF TryAgain
  <2>2. /\ rd'.at = "number" /\ rd'.lock = rd.lock /\ rd'.calm = rd.calm
        /\ rd'.then = rd.then /\ rd' \in Reads
    <3>1. rd.attempt \in Nat /\ rd.attempt + 1 \in Nat
      BY <1>1 DEF Reads
    <3>2. rd' = [rd EXCEPT !.at = "number", !.attempt = rd.attempt + 1]
      BY <2>1
    <3> QED  BY <1>1, <3>1, <3>2 DEF Reads
  <2>3. GInv'
    BY <1>2, <2>1, <2>2, ReaderLeaves DEF GInv, Types
  <2>4. Loaded' /\ NotMissed'
    BY <2>2 DEF Loaded, Reading, NotMissed
  <2>5. Ready'
    BY <1>2, <2>1, <2>2 DEF Ready, Complete, Done
  <2> QED  BY <1>3, <2>3, <2>4, <2>5 DEF GInv
<1>5. CASE ~(rd.attempt < Attempts)
  <2>1. rd' = [rd EXCEPT !.at = "missed"] /\ Ends
    BY <1>5 DEF TryAgain
  <2>2. /\ rd'.at = "missed" /\ rd'.lock = rd.lock /\ rd'.calm = rd.calm
        /\ rd'.then = rd.then /\ rd' \in Reads
    BY <1>1, <2>1 DEF Reads
  <2>3. GInv'
    <3>1. ready' \in BOOLEAN
      BY <2>1 DEF Ends, Types
    <3> QED  BY <1>2, <2>2, <3>1, ReaderLeaves DEF GInv, Types
  <2>4. Loaded' /\ NotMissed'
    BY <1>2, <2>2 DEF Loaded, Reading, NotMissed
  <2>5. Ready'
    <3>1. rd.then = "ready" => pc["main"] = "silent"
      <4> SUFFICES ASSUME rd.then = "ready", Complete, rd.lock = "phase", rd.calm
                   PROVE  FALSE
        BY DEF Ready
      <4>1. word["phase"][Started] = 0 \/ pc["main"] \in {"set", "end"}
        OBVIOUS
      <4> QED  BY <4>1, Sizes DEF Complete, Places, Order
    <3>2. ready' => ready \/ rd.then = "ready"
      BY <2>1 DEF Ends
    <3> QED  BY <1>2, <2>2, <3>1, <3>2 DEF Ready, Complete, Done
  <2> QED  BY <1>3, <2>3, <2>4, <2>5 DEF GInv
<1> QED  BY <1>4, <1>5

LEMMA LoadNumberKeeps ==
    ASSUME LInv, LoadNumber
    PROVE  LInv'
<1> USE DEF LInv
<1> DEFINE Sound == seq[rd.lock] % 2 = 0 /\ (rd.lock = "memory" =>
                                     seq["memory"] # 0 /\ word["phase"][Process] # 0)
<1>1. rd \in Reads /\ rd.at = "number" /\ rd.lock \in Locks
  BY ReadType DEF LoadNumber, Reads
<1>2. UNCHANGED <<seen, geistd>>
  BY DEF LoadNumber
<1>3. (seq[rd.lock] % 2 = 0) <=> ~Odd(seq[rd.lock])
  BY <1>1, WordsAreNumbers, EvenIsNotOdd
<1>4. CASE Sound
  <2>1. rd' = [rd EXCEPT !.at = "words", !.seq = seq[rd.lock], !.got = <<>>] /\ ready' = ready
    BY <1>4 DEF LoadNumber
  <2>2. seq[rd.lock] \in Nat /\ <<>> \in Seq(Nat) /\ Len(<<>>) = 0
    BY <1>1, WordsAreNumbers, EmptySeq
  <2>3. /\ rd'.at = "words" /\ rd'.lock = rd.lock /\ rd'.calm = rd.calm
        /\ rd'.seq = seq[rd.lock] /\ rd'.got = <<>>
        /\ rd'.then = rd.then /\ rd' \in Reads
    BY <1>1, <2>1, <2>2 DEF Reads
  <2>4. GInv'
    BY <1>2, <2>1, <2>3, ReaderLeaves DEF GInv, Types
  <2>5. UNCHANGED <<seq, word, pc, cap, reached>> /\ seen' = seen
    BY <1>2 DEF geistd
  <2>6. Loaded'
    <3>1. Last[rd.lock] \in Nat /\ 0 < Last[rd.lock]
      BY <1>1, Sizes DEF Locks
    <3>2. ~Odd(seq[rd.lock])
      BY <1>3, <1>4
    <3>3. rd'.seq <= seq'[rd'.lock] /\ rd'.seq = seq'[rd'.lock] /\ Len(rd'.got) = 0
      BY <2>2, <2>3, <2>5
    <3> QED  BY <2>3, <2>5, <3>1, <3>2, <3>3 DEF Loaded
  <2>7. NotMissed' /\ Remembered' /\ Untorn'
    BY <2>3, <2>5 DEF NotMissed, Remembered, Untorn
  <2>8. Ready'
    BY <1>1, <2>1, <2>3, <2>5 DEF Ready, Complete, Done
  <2> QED  BY <2>4, <2>6, <2>7, <2>8 DEF GInv
<1>5. CASE ~Sound
  <2>1. TryAgain
    BY <1>5 DEF LoadNumber
  <2>2. \/ rd.lock = "phase" /\ pc["main"] \in {"set", "end"}
        \/ rd.lock = "memory" /\ (word["memory"][1] = 0
                                   \/ \E t \in Threads : cap[t] \in {"store", "end"})
    <3>1. CASE rd.lock = "phase"
      BY <1>3, <1>5, <3>1 DEF Reported
    <3>2. CASE rd.lock = "memory"
      <4>1. CASE Odd(seq["memory"])
        BY <3>2, <4>1 DEF Published
      <4>2. CASE seq["memory"] = 0
        BY <3>2, <4>2 DEF Order
      <4>3. CASE word["phase"][Process] = 0
        BY <3>2, <4>3 DEF Order
      <4> QED  BY <1>3, <1>5, <3>2, <4>1, <4>2, <4>3
    <3> QED  BY <1>1, <3>1, <3>2 DEF Locks
  <2> QED  BY <1>1, <1>2, <2>1, <2>2, TryAgainKeeps DEF Done
<1> QED  BY <1>4, <1>5

LEMMA LoadWordKeeps ==
    ASSUME LInv, LoadWord
    PROVE  LInv'
<1> USE DEF LInv
<1> DEFINE l == rd.lock
           n == Len(rd.got) + 1
           v == word[l][n]
           place == IF n = Last[l] THEN "check" ELSE "words"
<1>1. /\ rd \in Reads /\ rd.at = "words"
      /\ rd' = [rd EXCEPT !.got = Append(@, v), !.at = place]
      /\ UNCHANGED <<seen, ready, geistd>>
  BY ReadType DEF LoadWord
<1>2. UNCHANGED <<seq, word, pc, cap, reached>> /\ seen' = seen /\ ready' = ready
  BY <1>1 DEF geistd
<1>3. /\ l \in Locks /\ rd.got \in Seq(Nat) /\ Len(rd.got) \in Nat /\ Last[l] \in Nat
      /\ Len(rd.got) < Last[l]
  BY <1>1, LenProperties, Sizes DEF Reads, Loaded, Reading, Locks
<1>4. n \in 1..Last[l] /\ v \in Nat
  <2>1. n \in 1..Last[l]
    BY <1>3
  <2> QED  BY <1>3, <2>1, WordsAreNumbers
<1>5. /\ Append(rd.got, v) \in Seq(Nat) /\ Len(Append(rd.got, v)) = n
      /\ \A k \in 1..Len(rd.got) : Append(rd.got, v)[k] = rd.got[k]
      /\ Append(rd.got, v)[n] = v
  BY <1>3, <1>4, AppendProperties
<1> HIDE DEF n, v
<1>6. /\ rd'.at = place /\ rd'.got = Append(rd.got, v) /\ rd'.lock = l /\ rd'.seq = rd.seq
      /\ rd'.calm = rd.calm /\ rd'.then = rd.then /\ rd' \in Reads
  BY <1>1, <1>5 DEF Reads
<1>7. GInv'
  BY <1>1, <1>6, ReaderLeaves DEF GInv, Types
<1>8. Loaded'
  <2>1. /\ ~Odd(rd.seq) /\ rd.seq <= seq[l]
        /\ \A k \in 1..Len(rd.got) : rd.got[k] <= word[l][k]
        /\ rd.seq = seq[l] =>
             \A k \in 1..Len(rd.got) : k \in Numbered[l] => rd.got[k] = word[l][k]
        /\ rd.calm => rd.seq = seq[l] /\ \A k \in 1..Len(rd.got) : rd.got[k] = word[l][k]
    BY <1>1 DEF Loaded, Reading
  <2>2. \A k \in 1..n : k \in 1..Len(rd.got) \/ k = n
    BY <1>3 DEF n
  <2>3. v = word[l][n] /\ v <= word[l][n]
    BY <1>4 DEF v
  <2>4. IF place = "check" THEN n = Last[l] ELSE n < Last[l]
    BY <1>3, <1>4
  <2>5. \A k \in 1..n : rd'.got[k] <= word[l][k]
    <3> SUFFICES ASSUME NEW k \in 1..n PROVE rd'.got[k] <= word[l][k]
      OBVIOUS
    <3>1. CASE k = n
      BY <1>5, <1>6, <2>3, <3>1
    <3>2. CASE k \in 1..Len(rd.got)
      BY <1>5, <1>6, <2>1, <3>2
    <3> QED  BY <2>2, <3>1, <3>2
  <2>6. ASSUME rd.seq = seq[l], NEW k \in 1..n, k \in Numbered[l]
        PROVE  rd'.got[k] = word[l][k]
    <3>1. CASE k = n
      BY <1>5, <1>6, <2>3, <3>1
    <3>2. CASE k \in 1..Len(rd.got)
      BY <1>5, <1>6, <2>1, <2>6, <3>2
    <3> QED  BY <2>2, <3>1, <3>2
  <2>7. ASSUME rd.calm
        PROVE  rd.seq = seq[l] /\ \A k \in 1..n : rd'.got[k] = word[l][k]
    <3> SUFFICES ASSUME NEW k \in 1..n PROVE rd'.got[k] = word[l][k]
      BY <2>1, <2>7
    <3>1. CASE k = n
      BY <1>5, <1>6, <2>3, <3>1
    <3>2. CASE k \in 1..Len(rd.got)
      BY <1>5, <1>6, <2>1, <2>7, <3>2
    <3> QED  BY <2>2, <3>1, <3>2
  <2> HIDE DEF place, l
  <2>8. Len(rd'.got) = n
    BY <1>5, <1>6
  <2> QED  BY <1>2, <1>6, <2>1, <2>4, <2>5, <2>6, <2>7, <2>8 DEF Loaded
<1>9. NotMissed' /\ Remembered' /\ Untorn'
  BY <1>2, <1>6 DEF NotMissed, Remembered, Untorn
<1>10. Ready'
  BY <1>1, <1>2, <1>6 DEF Ready, Complete, Done
<1> QED  BY <1>7, <1>8, <1>9, <1>10 DEF GInv

\* What geist-app has when the number has not changed: the words of one moment.
LEMMA CheckedWords ==
    ASSUME LInv, rd.at = "check", seq[rd.lock] = rd.seq
    PROVE  /\ rd.lock \in Locks /\ rd.seq \in Nat
           /\ rd.got \in Seq(Nat) /\ Len(rd.got) = Last[rd.lock] /\ ~Odd(seq[rd.lock])
           /\ \A k \in 1..Last[rd.lock] : rd.got[k] \in Nat /\ rd.got[k] <= word[rd.lock][k]
           /\ \A k \in Numbered[rd.lock] : rd.got[k] = word[rd.lock][k]
<1>1. rd \in Reads
  BY ReadType DEF LInv
<1>2. rd.lock \in Locks /\ rd.seq \in Nat /\ rd.got \in Seq(Nat)
  BY <1>1 DEF Reads
<1>3. /\ ~Odd(rd.seq) /\ Len(rd.got) = Last[rd.lock]
      /\ \A k \in 1..Len(rd.got) : rd.got[k] <= word[rd.lock][k]
      /\ \A k \in 1..Len(rd.got) : k \in Numbered[rd.lock] => rd.got[k] = word[rd.lock][k]
  BY DEF LInv, Loaded, Reading
<1>4. Numbered[rd.lock] \subseteq 1..Last[rd.lock]
  BY <1>2, WordsAreNumbers DEF LInv
<1>5. \A k \in 1..Len(rd.got) : rd.got[k] \in Nat
  BY <1>2, ElementOfSeq
<1> QED  BY <1>2, <1>3, <1>4, <1>5

\* A phase is shown only after those before it.
LEMMA PhasesInOrder ==
    ASSUME Types, Reported, NEW p \in 1..NPhases - 1, word["phase"][WordOf(p)] = 0
    PROVE  word["phase"][WordOf(p + 1)] = 0
<1>0. reached \in Nat
  BY DEF Types
<1>1. p \in 1..NPhases /\ p + 1 \in 1..NPhases /\ p \in Nat /\ reached \in Nat
  BY <1>0, Sizes
<1>2. ~(p < reached)
  BY <1>1 DEF Reported
<1>3. ~(p + 1 < reached) /\ ~(p + 1 = reached)
  BY <1>1, <1>2
<1> QED  BY <1>1, <1>3 DEF Reported

LEMMA CheckKeeps ==
    ASSUME LInv, Check
    PROVE  LInv'
<1> USE DEF LInv
<1> DEFINE l == rd.lock
<1>1. /\ rd \in Reads /\ rd.at = "check" /\ l \in Locks /\ UNCHANGED geistd
  BY ReadType DEF Check, Reads
<1>2. UNCHANGED <<seq, word, pc, cap, reached>>
  BY <1>1 DEF geistd
<1>3. CASE seq[l] = rd.seq /\ Filled
  <2>1. /\ rd' = [rd EXCEPT !.at = "read"] /\ Ends
        /\ seen' = [seen EXCEPT ![l] = [seq |-> rd.seq, got |-> rd.got]]
    BY <1>3 DEF Check
  <2>2. /\ rd.seq \in Nat /\ rd.got \in Seq(Nat) /\ Len(rd.got) = Last[l] /\ ~Odd(seq[l])
        /\ \A k \in 1..Last[l] : rd.got[k] \in Nat /\ rd.got[k] <= word[l][k]
        /\ \A k \in Numbered[l] : rd.got[k] = word[l][k]
    BY <1>1, <1>3, CheckedWords
  <2>3. /\ rd'.at = "read" /\ rd'.lock = l /\ rd'.then = rd.then /\ rd' \in Reads
    BY <1>1, <2>1 DEF Reads
  <2>4. /\ seen'[l].seq = rd.seq /\ seen'[l].got = rd.got
        /\ \A m \in Locks : m # l => seen'[m] = seen[m]
        /\ seen' \in [Locks -> [seq : Nat, got : Seq(Nat)]]
    BY <1>1, <2>1, <2>2 DEF Types
  <2>5. ready' = (ready \/ rd.then = "ready") /\ ready' \in BOOLEAN
    BY <2>1 DEF Ends
  <2>6. GInv'
    BY <1>1, <2>3, <2>4, <2>5, ReaderLeaves DEF GInv
  <2>7. Loaded' /\ NotMissed'
    BY <2>3 DEF Loaded, Reading, NotMissed
  <2>8. Remembered'
    <3> SUFFICES ASSUME NEW m \in Locks
                 PROVE  /\ seen'[m].seq <= seq[m] /\ Len(seen'[m].got) = Last[m]
                        /\ \A k \in 1..Last[m] : seen'[m].got[k] <= word[m][k]
      BY <1>2 DEF Remembered
    <3>1. CASE m = l
      BY <1>3, <2>2, <2>4, <3>1
    <3>2. CASE m # l
      BY <2>4, <3>2 DEF Remembered
    <3> QED  BY <3>1, <3>2
  <2>9. Untorn'
    <3>1. CASE l = "memory"
      <4>1. \A j, k \in 1..NFields : word["memory"][j] = word["memory"][k]
        BY <2>2, <3>1 DEF Published
      <4>2. \A j, k \in 1..NFields : seen'["memory"].got[j] = seen'["memory"].got[k]
        <5>1. \A k \in 1..NFields : rd.got[k] = word["memory"][k]
          BY <2>2, <3>1, Sizes
        <5>2. seen'["memory"].got = rd.got
          BY <2>4, <3>1
        <5> QED  BY <4>1, <5>1, <5>2
      <4>3. seen'["phase"] = seen["phase"]
        BY <2>4, <3>1, Sizes
      <4> QED  BY <4>2, <4>3 DEF Untorn
    <3>2. CASE l = "phase"
      <4>1. seen'["memory"] = seen["memory"] /\ seen'["phase"].got = rd.got
        BY <2>4, <3>2, Sizes
      <4>2. \A p \in 1..NPhases - 1 :
              rd.got[WordOf(p)] = 0 => rd.got[WordOf(p + 1)] = 0
        <5> SUFFICES ASSUME NEW p \in 1..NPhases - 1, rd.got[WordOf(p)] = 0
                     PROVE  rd.got[WordOf(p + 1)] = 0
          OBVIOUS
        <5>1. WordOf(p) \in Numbered[l] /\ WordOf(p + 1) \in Numbered[l]
          BY <3>2, Sizes
        <5> QED  BY <2>2, <3>2, <5>1, PhasesInOrder
      <4>3. rd.got[Process] # 0 /\ rd.got[Started] # 0
        BY <1>3, <3>2 DEF Filled
      <4> QED  BY <4>1, <4>2, <4>3 DEF Untorn
    <3> QED  BY <1>1, <3>1, <3>2 DEF Locks
  <2>10. Ready'
    <3>1. ASSUME Complete
          PROVE  \A p \in 1..NPhases : /\ WordOf(p) \in Numbered["phase"]
                                       /\ word["phase"][WordOf(p)] # 0
      BY <3>1, Sizes DEF Complete, Reported
    <3>2. ASSUME Complete, l = "phase"
          PROVE  \A p \in 1..NPhases : seen'["phase"].got[WordOf(p)] # 0
      BY <2>2, <2>4, <3>1, <3>2
    <3>3. ASSUME ready, pc["main"] # "silent"
          PROVE  Complete /\ \A p \in 1..NPhases : seen'["phase"].got[WordOf(p)] # 0
      <4>1. Complete /\ \A p \in 1..NPhases : seen["phase"].got[WordOf(p)] # 0
        BY <3>3 DEF Ready
      <4>2. l # "phase" => seen'["phase"] = seen["phase"]
        BY <2>4, Sizes
      <4> QED  BY <3>2, <4>1, <4>2
    <3>4. ASSUME rd.then = "ready", pc["main"] # "silent"
          PROVE  Complete /\ \A p \in 1..NPhases : seen'["phase"].got[WordOf(p)] # 0
      <4>1. Complete /\ l = "phase"
        BY <1>1, <3>4 DEF Ready, Done
      <4> QED  BY <3>2, <4>1
    <3> QED  BY <1>2, <2>3, <2>5, <3>3, <3>4 DEF Ready, Complete, Done
  <2> QED  BY <2>6, <2>7, <2>8, <2>9, <2>10 DEF GInv
<1>4. CASE ~(seq[l] = rd.seq /\ Filled)
  <2>1. TryAgain /\ UNCHANGED seen
    BY <1>4 DEF Check
  <2>2. ASSUME rd.calm
        PROVE  \/ rd.lock = "phase" /\ word["phase"][Started] = 0
               \/ rd.lock = "memory" /\ word["memory"][1] = 0
    <3>1. /\ rd.seq = seq[l] /\ Len(rd.got) = Last[l]
          /\ \A k \in 1..Len(rd.got) : rd.got[k] = word[l][k]
      BY <1>1, <2>2 DEF Loaded, Reading
    <3>2. ~Filled
      BY <1>4, <3>1
    <3>3. CASE l = "phase"
      <4>1. rd.got[1] = word["phase"][1] /\ rd.got[2] = word["phase"][2]
        BY <3>1, <3>3, Sizes
      <4> QED  BY <3>2, <3>3, <4>1, Sizes DEF Filled, Order
    <3>4. CASE l = "memory"
      <4>1. rd.got[1] = word["memory"][1]
        BY <3>1, <3>4, Sizes
      <4> QED  BY <3>2, <3>4, <4>1 DEF Filled
    <3> QED  BY <1>1, <3>3, <3>4 DEF Locks
  <2> QED  BY <1>1, <2>1, <2>2, TryAgainKeeps DEF Done
<1> QED  BY <1>3, <1>4

-----------------------------------------------------------------------------
(* The theorems.                                                           *)

LEMMA NextKeeps == LInv /\ [Next]_vars => LInv'
<1> SUFFICES ASSUME LInv, [Next]_vars
             PROVE  LInv'
  OBVIOUS
<1>1. CASE (\E t \in Threads : Capturing(t)) \/ Main \/ SamplerLook \/ Die
  <2>1. GInv' /\ WriterStep
    BY <1>1, GeistdKeeps DEF LInv, GInv
  <2> QED  BY <2>1, WriterKeepsReader DEF LInv, GInv, RInv
<1>2. CASE Poll
  <2>1. PICK l \in Locks : Begin(l, "poll")
    BY <1>2 DEF Poll
  <2> QED  BY <2>1, BeginKeeps
<1>3. CASE UNCHANGED vars
  <2>1. UNCHANGED <<seq, word, alive, mapped, pc, cap, own, next, reached, writing, stopped,
                    taken, rd, seen, ready>>
    BY <1>3 DEF vars
  <2>2. Types' /\ Places' /\ OneWriter' /\ Published' /\ Order' /\ Reported'
    <3>1. Types'
      BY <2>1 DEF LInv, Types
    <3>2. Places' /\ OneWriter' /\ Published'
      BY <2>1 DEF LInv, Places, OneWriter, Published
    <3>3. Order' /\ Reported'
      BY <2>1 DEF LInv, Order, Reported
    <3> QED  BY <3>1, <3>2, <3>3
  <2>3. Loaded' /\ Remembered' /\ Untorn' /\ NotMissed' /\ Ready'
    BY <2>1 DEF LInv, Loaded, Reading, Remembered, Untorn, NotMissed, Ready, Complete
  <2> QED  BY <2>2, <2>3 DEF LInv
<1> QED
  BY <1>1, <1>2, <1>3, HandshakeKeeps, LoadNumberKeeps, LoadWordKeeps, CheckKeeps
     DEF Next, Reader

\* The memory, the threads and the reads are sound in every state.
THEOREM LifecycleSound == Spec => []LInv
BY InitLInv, NextKeeps, PTL DEF Spec

\* lifecycle_memory_read and lifecycle_read return the words of one moment.
THEOREM SnapshotsUntorn == Spec => []Untorn
<1>1. LInv => Untorn
  BY DEF LInv
<1> QED  BY <1>1, LifecycleSound, PTL

\* No read of a lock that nobody writes gives up.
THEOREM NoReadMissed == Spec => []NotMissed
<1>1. LInv => NotMissed
  BY DEF LInv
<1> QED  BY <1>1, LifecycleSound, PTL

\* poll_child publishes readiness after it has seen every phase.
THEOREM ReadyIsShown == Spec => []ReadyShowsAll
<1>1. LInv => ReadyShowsAll
  BY Sizes DEF LInv, Ready, ReadyShowsAll, Order
<1> QED  BY <1>1, LifecycleSound, PTL

\* No thread of geistd uses the memory after lifecycle_close.
THEOREM UnmappedUnused == Spec => []NoUseAfterUnmap
<1>1. LInv => NoUseAfterUnmap
  BY DEF LInv, Places, Early, NoUseAfterUnmap, Threads
<1> QED  BY <1>1, LifecycleSound, PTL

\* geist-app's snapshots never go back.
THEOREM SnapshotsForward == Spec => Forward
<1> DEFINE Onward == \A l \in Locks :
                       /\ seen'[l].seq >= seen[l].seq
                       /\ \A k \in 1..Last[l] : seen'[l].got[k] >= seen[l].got[k]
<1>1. LInv /\ [Next]_vars => [Onward]_vars
  <2> SUFFICES ASSUME LInv, Next
               PROVE  Onward
    BY DEF vars
  <2> USE DEF LInv
  <2>1. \A l \in Locks : /\ seen[l].seq \in Nat /\ seen[l].got \in Seq(Nat)
                         /\ Len(seen[l].got) = Last[l]
                         /\ \A k \in 1..Last[l] : seen[l].got[k] \in Nat
    <3>1. \A l \in Locks : seen[l].seq \in Nat /\ seen[l].got \in Seq(Nat)
      BY DEF Types
    <3> QED  BY <3>1, ElementOfSeq DEF Remembered
  <2>2. ASSUME UNCHANGED seen
        PROVE  Onward
    BY <2>1, <2>2
  <2>3. CASE (\E t \in Threads : Capturing(t)) \/ Main \/ SamplerLook \/ Die
    BY <2>2, <2>3, GeistdKeeps DEF GInv, WriterStep
  <2>4. CASE Poll \/ Handshake \/ LoadNumber \/ LoadWord
    BY <2>2, <2>4 DEF Poll, Handshake, Begin, LoadNumber, LoadWord
  <2>5. CASE Check
    <3>1. CASE ~(seq[rd.lock] = rd.seq /\ Filled)
      BY <2>2, <2>5, <3>1 DEF Check
    <3>2. CASE seq[rd.lock] = rd.seq /\ Filled
      <4>1. /\ rd.at = "check"
            /\ seen' = [seen EXCEPT ![rd.lock] = [seq |-> rd.seq, got |-> rd.got]]
        BY <2>5, <3>2 DEF Check
      <4>2. /\ rd.lock \in Locks /\ rd.seq \in Nat
            /\ \A k \in 1..Last[rd.lock] : rd.got[k] \in Nat
            /\ \A k \in Numbered[rd.lock] : rd.got[k] = word[rd.lock][k]
        BY <3>2, <4>1, CheckedWords
      <4>3. /\ seen'[rd.lock].seq = rd.seq /\ seen'[rd.lock].got = rd.got
            /\ \A m \in Locks : m # rd.lock => seen'[m] = seen[m]
        BY <4>1, <4>2 DEF Types
      <4>4. rd.seq >= seen[rd.lock].seq
        BY <2>1, <3>2, <4>2 DEF Remembered
      <4>5. \A k \in 1..Last[rd.lock] : rd.got[k] >= seen[rd.lock].got[k]
        <5> SUFFICES ASSUME NEW k \in 1..Last[rd.lock]
                     PROVE  rd.got[k] >= seen[rd.lock].got[k]
          OBVIOUS
        <5>1. /\ seen[rd.lock].got[k] \in Nat /\ rd.got[k] \in Nat
              /\ seen[rd.lock].got[k] <= word[rd.lock][k]
          BY <2>1, <4>2 DEF Remembered
        <5>2. CASE k \in Numbered[rd.lock]
          BY <4>2, <5>1, <5>2
        <5>3. CASE k \notin Numbered[rd.lock]
          <6>1. rd.lock = "phase" /\ k \in {Process, Started}
            BY <4>2, <5>3, Sizes DEF Locks
          <6>2. rd.got[k] # 0
            BY <3>2, <6>1 DEF Filled
          <6>3. word["phase"][k] \in {0, 1}
            <7>1. word["phase"] \in [1..NWords -> {0, 1}] /\ k \in 1..NWords
              BY <6>1, Sizes DEF Types
            <7> QED  BY <7>1
          <6> QED  BY <5>1, <6>1, <6>2, <6>3
        <5> QED  BY <5>2, <5>3
      <4> QED  BY <2>1, <4>3, <4>4, <4>5
    <3> QED  BY <3>1, <3>2
  <2> QED  BY <2>3, <2>4, <2>5 DEF Next, Reader
<1> QED  BY <1>1, LifecycleSound, PTL DEF Spec, Forward

-----------------------------------------------------------------------------
(* The memory implements Reports.  A number counts its reports: twice what *)
(* has been reported, and one more while a report is being made.           *)

CountedPhases ==
    seq["phase"] = 2 * (reached - 1) + (IF pc["main"] \in {"set", "end"} THEN 1 ELSE 0)

CountedSamples ==
    /\ (\A t \in Threads : cap[t] \in {"none", "clear"}) =>
         seq["memory"] = 2 * taken /\ \A k \in 1..NFields : word["memory"][k] = taken
    /\ \A t \in Threads :
         /\ cap[t] = "add" => /\ seq["memory"] = 2 * (taken - 1)
                              /\ \A k \in 1..NFields : word["memory"][k] = taken - 1
         /\ cap[t] \in {"store", "end"} => seq["memory"] = 2 * (taken - 1) + 1

Counted == CountedPhases /\ CountedSamples

LEMMA Halves ==
    ASSUME NEW n \in Nat
    PROVE  /\ n \div 2 \in Nat
           /\ n % 2 = 0 => n = 2 * (n \div 2)
           /\ \A m \in Nat : (n = 2 * m \/ n = 2 * m + 1) => n \div 2 = m
OBVIOUS

LEMMA ReachedIs ==
    ASSUME Types, Places
    PROVE  reached \in Nat /\ reached >= 1 /\ reached <= NPhases + 1
<1>1. reached \in Nat /\ pc["main"] \in Mains
  BY DEF Types
<1> QED  BY <1>1, Sizes DEF Places, Mains

LEMMA InitCounted == Init => Counted
<1> SUFFICES ASSUME Init
             PROVE  Counted
  OBVIOUS
<1>1. /\ seq["phase"] = 0 /\ seq["memory"] = 0 /\ reached = 1 /\ taken = 0
      /\ pc["main"] = "inherit" /\ \A t \in Threads : cap[t] = "none"
      /\ \A k \in 1..NFields : word["memory"][k] = 0
  BY Sizes DEF Init, Threads
<1> QED  BY <1>1 DEF Counted, CountedPhases, CountedSamples

\* A step that leaves the count of phases alone.
LEMMA SamePhases ==
    ASSUME CountedPhases, seq'["phase"] = seq["phase"], reached' = reached,
           pc'["main"] \in {"set", "end"} <=> pc["main"] \in {"set", "end"}
    PROVE  CountedPhases'
BY DEF CountedPhases

LEMMA SameSamples ==
    ASSUME CountedSamples, seq'["memory"] = seq["memory"], word'["memory"] = word["memory"],
           UNCHANGED <<cap, taken>>
    PROVE  CountedSamples'
BY DEF CountedSamples

\* Main's own steps count phases.
LEMMA MainCounts ==
    ASSUME GInv, Counted, Main
    PROVE  Counted'
<1> USE DEF GInv, Counted
<1>0. /\ reached \in Nat /\ reached >= 1 /\ seq["phase"] \in Nat
      /\ UNCHANGED <<cap, taken>>
  BY ReachedIs, WordsAreNumbers, Sizes
     DEF Main, Rest, Inherit, InheritProcess, InheritStarted, PhaseBegin, PhaseSet, PhaseEnd,
         CreateSampler, ServeEnd, StopSampler, JoinSampler, Close
<1>1. CASE Inherit \/ CreateSampler \/ ServeEnd \/ StopSampler \/ JoinSampler \/ Close
  <2>1. UNCHANGED <<seq, word, reached>>
    BY <1>1 DEF Inherit, CreateSampler, ServeEnd, StopSampler, JoinSampler, Close
  <2>2. pc["main"] \notin {"set", "end"} /\ pc'["main"] \notin {"set", "end"}
    BY <1>1, GotoIs DEF Inherit, CreateSampler, ServeEnd, StopSampler, JoinSampler, Close, At,
                        Threads, Types
  <2> QED  BY <1>0, <2>1, <2>2, SamePhases, SameSamples
<1>2. ASSUME NEW k \in {Process, Started, WordOf(reached)}, Store("phase", k, 1),
             UNCHANGED <<seq, reached>>,
             pc'["main"] \in {"set", "end"} <=> pc["main"] \in {"set", "end"}
      PROVE  Counted'
  <2>1. word'["memory"] = word["memory"]
    BY <1>2, StoreIs, Sizes
  <2> QED  BY <1>0, <1>2, <2>1, SamePhases, SameSamples
<1>3. CASE InheritProcess
  <2>1. pc["main"] = "process" /\ pc'["main"] = "started"
    BY <1>3, GotoIs DEF InheritProcess, At, Threads
  <2> QED  BY <1>2, <1>3, <2>1 DEF InheritProcess
<1>4. CASE InheritStarted
  <2>1. pc["main"] = "started" /\ pc'["main"] = "phase"
    BY <1>4, GotoIs DEF InheritStarted, At, Threads
  <2> QED  BY <1>2, <1>4, <2>1 DEF InheritStarted
<1>5. CASE PhaseSet
  <2>1. pc["main"] = "set" /\ pc'["main"] = "end"
    BY <1>5, GotoIs DEF PhaseSet, At, Threads
  <2> QED  BY <1>2, <1>5, <2>1 DEF PhaseSet
<1>6. CASE PhaseBegin
  <2>1. /\ pc["main"] = "phase" /\ pc'["main"] = "set" /\ UNCHANGED <<word, reached>>
        /\ seq'["phase"] = seq["phase"] + 1 /\ seq'["memory"] = seq["memory"]
    BY <1>6, GotoIs, AddIs, Sizes DEF PhaseBegin, At, Threads
  <2>2. CountedPhases'
    BY <1>0, <2>1 DEF CountedPhases
  <2> QED  BY <1>0, <2>1, <2>2, SameSamples
<1>7. CASE PhaseEnd
  <2>1. /\ pc["main"] = "end" /\ pc'["main"] \notin {"set", "end"} /\ UNCHANGED word
        /\ seq'["phase"] = seq["phase"] + 1 /\ seq'["memory"] = seq["memory"]
        /\ reached' = reached + 1
    BY <1>7, GotoIs, AddIs, Sizes DEF PhaseEnd, At, Threads
  <2>2. CountedPhases'
    BY <1>0, <2>1 DEF CountedPhases
  <2> QED  BY <1>0, <2>1, <2>2, SameSamples
<1> QED  BY <1>1, <1>3, <1>4, <1>5, <1>6, <1>7 DEF Main

\* A thread that captures is where its capture is, and the other is not.
LEMMA OneCapture ==
    ASSUME GInv, NEW t \in Threads, cap[t] # "none", NEW place,
           cap' = [cap EXCEPT ![t] = place]
    PROVE  /\ cap'[t] = place
           /\ \A u \in Threads : u # t => cap[u] = "none" /\ cap'[u] = "none"
BY DEF GInv, OneWriter, Types

\* The captures count samples.
LEMMA CaptureCounts ==
    ASSUME GInv, Counted, NEW t \in Threads, Capturing(t)
    PROVE  Counted'
<1> USE DEF GInv, Counted
<1>0. taken \in Nat /\ seq["memory"] \in Nat
  BY WordsAreNumbers, Sizes DEF Types
<1>1. CASE Capture(t)
  <2>1. UNCHANGED <<seq, word, reached>>
    BY <1>1 DEF Capture
  <2>2. CountedPhases'
    <3>1. Goto(t, After(pc[t])) /\ pc[t] \in Captures[t]
      BY <1>1 DEF Capture
    <3>2. pc'[t] = After(pc[t]) /\ \A u \in Threads : u # t => pc'[u] = pc[u]
      BY <3>1, GotoIs
    <3>3. pc'["main"] \in {"set", "end"} <=> pc["main"] \in {"set", "end"}
      BY <3>1, <3>2 DEF Captures, After, Threads
    <3> QED  BY <2>1, <3>3, SamePhases
  <2>3. CASE UNCHANGED <<taken, cap>>
    BY <2>1, <2>2, <2>3, SameSamples
  <2>4. CASE ~writing /\ taken' = taken + 1 /\ cap' = [cap EXCEPT ![t] = "add"]
    <3>1. \A u \in Threads : cap[u] = "none"
      BY <2>4 DEF OneWriter
    <3>2. seq["memory"] = 2 * taken /\ \A k \in 1..NFields : word["memory"][k] = taken
      BY <3>1 DEF CountedSamples
    <3>3. cap'[t] = "add" /\ \A u \in Threads : u # t => cap'[u] = "none"
      BY <2>4, <3>1 DEF Types
    <3>4. taken' - 1 = taken
      BY <1>0, <2>4
    <3> QED  BY <2>1, <2>2, <3>2, <3>3, <3>4 DEF CountedSamples
  <2> QED  BY <1>1, <2>3, <2>4 DEF Capture
<1>2. ASSUME NEW place, cap[t] # "none", cap' = [cap EXCEPT ![t] = place],
             UNCHANGED <<pc, reached, taken>>, seq'["phase"] = seq["phase"],
             place = "store" => seq'["memory"] = 2 * (taken - 1) + 1,
             place = "end" => seq'["memory"] = 2 * (taken - 1) + 1,
             place \in {"none", "clear"} =>
               seq'["memory"] = 2 * taken /\ \A k \in 1..NFields : word'["memory"][k] = taken,
             place # "add"
      PROVE  Counted'
  <2>1. cap'[t] = place /\ \A u \in Threads : u # t => cap'[u] = "none"
    BY <1>2, OneCapture
  <2>2. CountedSamples'
    BY <1>2, <2>1 DEF CountedSamples
  <2> QED  BY <1>2, <2>2, SamePhases
<1>3. CASE WriteBegin(t)
  <2>1. /\ cap[t] = "add" /\ cap' = [cap EXCEPT ![t] = "store"] /\ UNCHANGED <<pc, reached, taken>>
        /\ seq'["memory"] = seq["memory"] + 1 /\ seq'["phase"] = seq["phase"]
    BY <1>3, AddIs, Sizes DEF WriteBegin
  <2>2. seq["memory"] = 2 * (taken - 1)
    BY <2>1 DEF CountedSamples
  <2> QED  BY <1>2, <2>1, <2>2
<1>4. CASE WriteWord(t)
  <2>1. /\ cap[t] = "store" /\ UNCHANGED <<seq, pc, reached, taken>>
        /\ cap' = cap \/ cap' = [cap EXCEPT ![t] = "end"]
    BY <1>4 DEF WriteWord
  <2>2. seq["memory"] = 2 * (taken - 1) + 1
    BY <2>1 DEF CountedSamples
  <2>3. cap = [cap EXCEPT ![t] = "store"]
    BY <2>1 DEF Types
  <2> QED  BY <1>2, <2>1, <2>2, <2>3
<1>5. CASE WriteEnd(t)
  <2>1. /\ cap[t] = "end" /\ cap' = [cap EXCEPT ![t] = "clear"]
        /\ UNCHANGED <<word, pc, reached, taken>>
        /\ seq'["memory"] = seq["memory"] + 1 /\ seq'["phase"] = seq["phase"]
    BY <1>5, AddIs, Sizes DEF WriteEnd
  <2>2. seq["memory"] = 2 * (taken - 1) + 1
    BY <2>1 DEF CountedSamples
  <2>3. seq'["memory"] = 2 * taken
    BY <1>0, <2>1, <2>2
  <2>4. \A k \in 1..NFields : word'["memory"][k] = taken
    BY <2>1 DEF Published, OneWriter
  <2> QED  BY <1>2, <2>1, <2>3, <2>4
<1>6. CASE Captured(t)
  <2>1. /\ cap[t] = "clear" /\ cap' = [cap EXCEPT ![t] = "none"]
        /\ UNCHANGED <<seq, word, pc, reached, taken>>
    BY <1>6 DEF Captured
  <2>2. \A u \in Threads : cap[u] \in {"none", "clear"}
    BY <2>1, OneCapture
  <2>3. seq["memory"] = 2 * taken /\ \A k \in 1..NFields : word["memory"][k] = taken
    BY <2>2 DEF CountedSamples
  <2> QED  BY <1>2, <2>1, <2>3
<1> QED  BY <1>1, <1>3, <1>4, <1>5, <1>6 DEF Capturing

LEMMA StepCounts == LInv /\ Counted /\ [Next]_vars => Counted'
<1> SUFFICES ASSUME LInv, Counted, [Next]_vars
             PROVE  Counted'
  OBVIOUS
<1> USE DEF LInv, GInv
<1>1. ASSUME UNCHANGED <<seq, word, cap, taken, reached>>,
             pc'["main"] \in {"set", "end"} <=> pc["main"] \in {"set", "end"}
      PROVE  Counted'
  BY <1>1, SamePhases, SameSamples DEF Counted
<1>2. CASE SamplerLook
  <2>1. pc'["main"] = pc["main"]
    BY <1>2, GotoIs DEF SamplerLook, Threads
  <2> QED  BY <1>1, <1>2, <2>1 DEF SamplerLook, Rest
<1>3. CASE Die \/ Reader \/ UNCHANGED vars
  BY <1>1, <1>3 DEF Die, Reader, Poll, Handshake, Begin, LoadNumber, LoadWord, Check, geistd, vars
<1> QED  BY <1>2, <1>3, MainCounts, CaptureCounts DEF Next

\* What has been reported.
Made == [l \in Locks |-> seq[l] \div 2]

MadeCounts ==
    /\ DOMAIN Made = Locks /\ Made["phase"] = reached - 1 /\ Made["memory"] \in Nat
    /\ (\A t \in Threads : cap[t] \in {"none", "clear"}) => Made["memory"] = taken
    /\ \A t \in Threads : cap[t] \in {"add", "store", "end"} => Made["memory"] = taken - 1

LEMMA MadeIs == GInv /\ Counted => MadeCounts
<1> SUFFICES ASSUME GInv, Counted
             PROVE  MadeCounts
  OBVIOUS
<1> USE DEF GInv, Counted
<1>1. /\ reached \in Nat /\ reached >= 1 /\ seq["phase"] \in Nat /\ seq["memory"] \in Nat
      /\ taken \in Nat
  BY ReachedIs, WordsAreNumbers, Sizes DEF Types
<1>2. DOMAIN Made = Locks /\ \A l \in Locks : Made[l] = seq[l] \div 2
  BY DEF Made
<1>3. Made["phase"] = reached - 1
  <2>1. \/ seq["phase"] = 2 * (reached - 1)
        \/ seq["phase"] = 2 * (reached - 1) + 1
    BY <1>1 DEF CountedPhases
  <2>2. reached - 1 \in Nat
    BY <1>1
  <2> QED  BY <1>1, <1>2, <2>1, <2>2, Halves, Sizes
<1>4. Made["memory"] \in Nat
  <2>1. seq["memory"] \div 2 \in Nat
    BY <1>1
  <2> QED  BY <1>2, <2>1, Sizes
<1>5. ASSUME \A t \in Threads : cap[t] \in {"none", "clear"}
      PROVE  Made["memory"] = taken
  BY <1>1, <1>2, <1>5, Halves, Sizes DEF CountedSamples
<1>6. ASSUME NEW t \in Threads, cap[t] \in {"add", "store", "end"}
      PROVE  Made["memory"] = taken - 1
  <2>1. seq["memory"] = 2 * (taken - 1) \/ seq["memory"] = 2 * (taken - 1) + 1
    BY <1>6 DEF CountedSamples
  <2>2. taken - 1 \in Nat
    BY <1>1, <2>1
  <2> QED  BY <1>1, <1>2, <2>1, <2>2, Halves, Sizes
<1> QED  BY <1>2, <1>3, <1>4, <1>5, <1>6 DEF MadeCounts

\* What a snapshot shows is what has been reported: the words under an even
\* number are those of whole reports.
LEMMA WholeReports ==
    ASSUME GInv, Counted, NEW l \in Locks, ~Odd(seq[l])
    PROVE  /\ Made[l] \in Nat /\ seq[l] = 2 * Made[l]
           /\ l = "memory" => \A k \in 1..NFields : word["memory"][k] = Made["memory"]
           /\ l = "phase" => \A k \in Numbered["phase"] :
                               word["phase"][k] = (IF k <= Made["phase"] + 2 THEN 1 ELSE 0)
<1> USE DEF GInv, Counted
<1>1. seq[l] \in Nat /\ Made[l] = seq[l] \div 2 /\ reached \in Nat /\ reached >= 1
  BY ReachedIs, WordsAreNumbers DEF Made
<1>2. Made[l] \in Nat /\ seq[l] = 2 * Made[l]
  BY <1>1, EvenIsNotOdd, Halves
<1>3. ASSUME l = "memory"
      PROVE  \A k \in 1..NFields : word["memory"][k] = Made["memory"]
  <2>1. \A t \in Threads : cap[t] \in {"none", "add", "clear"}
    <3>1. \A t \in Threads : cap[t] \notin {"store", "end"}
      BY <1>3 DEF Published
    <3> QED  BY <3>1 DEF Types
  <2>2. CASE \E t \in Threads : cap[t] = "add"
    BY <2>2, MadeIs DEF MadeCounts, CountedSamples
  <2>3. CASE \A t \in Threads : cap[t] # "add"
    <3>1. \A t \in Threads : cap[t] \in {"none", "clear"}
      BY <2>1, <2>3
    <3> QED  BY <3>1, MadeIs DEF MadeCounts, CountedSamples
  <2> QED  BY <2>2, <2>3
<1>4. ASSUME l = "phase", NEW k \in Numbered["phase"]
      PROVE  word["phase"][k] = (IF k <= Made["phase"] + 2 THEN 1 ELSE 0)
  <2>1. pc["main"] \notin {"set", "end"}
    BY <1>4 DEF Reported
  <2>2. /\ k \in Nat /\ k - 2 \in 1..NPhases /\ WordOf(k - 2) = k /\ k \in 1..NWords
    BY <1>4, Sizes
  <2>3. word["phase"][k] # 0 <=> k - 2 < reached
    BY <2>1, <2>2 DEF Reported
  <2>4. word["phase"][k] \in {0, 1}
    <3>1. word["phase"] \in [1..NWords -> {0, 1}]
      BY DEF Types
    <3> QED  BY <2>2, <3>1
  <2>5. Made["phase"] = reached - 1
    BY MadeIs DEF MadeCounts
  <2>6. k - 2 < reached <=> k <= Made["phase"] + 2
    BY <1>1, <2>2, <2>5
  <2> QED  BY <2>3, <2>4, <2>6
<1> QED  BY <1>2, <1>3, <1>4

Shown == [l \in Locks |-> seen[l].got]

\* A step of geistd makes one report or none.
LEMMA GeistdReports ==
    ASSUME LInv, Counted, MadeCounts, LInv', MadeCounts', UNCHANGED <<seen, ready>>,
           (\E t \in Threads : Capturing(t)) \/ Main \/ SamplerLook \/ Die
    PROVE  [Board!Next]_<<Made, Shown, ready>>
<1> USE DEF LInv, GInv
<1>1. /\ DOMAIN Made = Locks /\ Made["phase"] = reached - 1 /\ Made["memory"] \in Nat
      /\ DOMAIN Made' = Locks /\ Made'["phase"] = reached' - 1 /\ Made'["memory"] \in Nat
  BY DEF MadeCounts
<1>2. /\ reached \in Nat /\ reached >= 1 /\ reached <= NPhases + 1 /\ taken \in Nat
      /\ Shown' = Shown /\ ready' = ready
  BY ReachedIs DEF Types, Shown
<1>3. ASSUME seq' = seq
      PROVE  [Board!Next]_<<Made, Shown, ready>>
  BY <1>2, <1>3 DEF Made
<1>4. ASSUME reached' = reached, Made'["memory"] = Made["memory"]
      PROVE  [Board!Next]_<<Made, Shown, ready>>
  <2>1. \A l \in Locks : Made'[l] = Made[l]
    BY <1>1, <1>4, Sizes DEF Locks
  <2>2. Made' = Made
    BY <2>1 DEF Made
  <2> QED  BY <1>2, <2>2
<1>5. ASSUME NEW l \in Locks, Board!Report(l)
      PROVE  [Board!Next]_<<Made, Shown, ready>>
  BY <1>5 DEF Board!Next, Board!Kinds, Locks
<1>6. ASSUME NEW l \in Locks, Made'[l] = Made[l] + 1,
             \A m \in Locks : m # l => Made'[m] = Made[m]
      PROVE  Made' = [Made EXCEPT ![l] = @ + 1]
  BY <1>1, <1>6 DEF Made
<1>7. CASE PhaseEnd
  <2>1. /\ pc["main"] = "end" /\ reached' = reached + 1
        /\ seq'["memory"] = seq["memory"]
    BY <1>7, AddIs, Sizes DEF PhaseEnd, At
  <2>2. Made'["phase"] = Made["phase"] + 1 /\ Made'["memory"] = Made["memory"]
    BY <1>1, <1>2, <2>1, Sizes DEF Made
  <2>3. Made["phase"] < NPhases /\ ~ready
    <3>1. reached \in 1..NPhases
      BY <2>1 DEF Places
    <3> QED  BY <1>1, <2>1, <3>1, Sizes DEF Ready, Complete
  <2>4. Made' = [Made EXCEPT !["phase"] = @ + 1]
    BY <1>6, <2>2, Sizes DEF Locks
  <2> QED  BY <1>2, <1>5, <2>3, <2>4, Sizes DEF Board!Report, Made, Shown
<1>8. ASSUME NEW t \in Threads, WriteEnd(t)
      PROVE  [Board!Next]_<<Made, Shown, ready>>
  <2>1. /\ cap[t] = "end" /\ cap' = [cap EXCEPT ![t] = "clear"] /\ UNCHANGED <<reached, taken>>
    BY <1>8 DEF WriteEnd
  <2>2. \A u \in Threads : cap'[u] \in {"none", "clear"}
    BY <2>1, OneCapture
  <2>3. Made'["memory"] = taken /\ Made["memory"] = taken - 1
    BY <2>1, <2>2 DEF MadeCounts
  <2>4. Made' = [Made EXCEPT !["memory"] = @ + 1]
    BY <1>1, <1>2, <1>6, <2>1, <2>3, Sizes DEF Locks
  <2>5. Made["phase"] > 0
    <3>1. pc["main"] \notin {"phase", "set", "end"} \/ reached # 1
      BY <2>1 DEF Places, Threads
    <3>2. pc["main"] \in Mains /\ pc["main"] \notin Early \ {"start"}
      BY <2>1, HolderPlace DEF Types, Early
    <3> QED  BY <1>1, <1>2, <3>1, <3>2, Sizes DEF Places, Mains, Early
  <2> QED  BY <1>2, <1>5, <2>4, <2>5, Sizes DEF Board!Report, Made, Shown
<1>9. ASSUME NEW t \in Threads, WriteBegin(t)
      PROVE  [Board!Next]_<<Made, Shown, ready>>
  <2>1. /\ cap[t] = "add" /\ cap'[t] = "store" /\ UNCHANGED <<reached, taken>>
    BY <1>9 DEF WriteBegin, Types
  <2>2. Made'["memory"] = taken - 1 /\ Made["memory"] = taken - 1
    BY <2>1 DEF MadeCounts
  <2> QED  BY <1>4, <2>1, <2>2
<1>10. CASE PhaseBegin
  <2>1. reached' = reached /\ seq'["memory"] = seq["memory"]
    BY <1>10, AddIs, Sizes DEF PhaseBegin
  <2>2. Made'["memory"] = Made["memory"]
    BY <2>1, Sizes DEF Made
  <2> QED  BY <1>4, <2>1, <2>2
<1> QED
  BY <1>3, <1>7, <1>8, <1>9, <1>10
     DEF Capturing, Capture, WriteWord, Captured, Main, Inherit, InheritProcess, InheritStarted,
         PhaseSet, CreateSampler, ServeEnd, StopSampler, JoinSampler, Close, SamplerLook, Die

\* A read that gives up makes the model ready only if nothing is reported.
LEMMA ReadGivesUp ==
    ASSUME LInv, LInv', MadeCounts, UNCHANGED <<seen, geistd>>, rd.at \notin Done,
           TryAgain \/ UNCHANGED ready
    PROVE  [Board!Next]_<<Made, Shown, ready>>
<1> USE DEF LInv
<1>1. UNCHANGED <<seq, word, pc, cap, reached>> /\ Made' = Made /\ Shown' = Shown
  BY DEF geistd, Made, Shown
<1>2. CASE ready' = ready
  BY <1>1, <1>2
<1>3. CASE ready' # ready
  <2>1. /\ rd' = [rd EXCEPT !.at = "missed"] /\ ready' = (ready \/ rd.then = "ready")
        /\ rd \in Reads
    BY <1>3, ReadType DEF TryAgain, Ends
  <2>2. /\ rd'.at = "missed" /\ rd'.lock = rd.lock /\ rd'.calm = rd.calm
        /\ rd.then = "ready" /\ ready' = TRUE
    BY <1>3, <2>1 DEF Reads, Types
  <2>3. pc["main"] = "silent"
    <3> SUFFICES ASSUME Complete, rd.lock = "phase", rd.calm
                 PROVE  FALSE
      BY <2>2 DEF Ready
    <3>1. word["phase"][Started] = 0 \/ pc["main"] \in {"set", "end"}
      BY <1>1, <2>2 DEF NotMissed
    <3> QED  BY <3>1, Sizes DEF Complete, Places, Order
  <2>4. Made["phase"] = 0
    BY <2>3, Sizes DEF Places, MadeCounts
  <2>5. Board!Silent
    BY <1>1, <2>2, <2>4 DEF Board!Silent, Made, Shown
  <2> QED  BY <2>5 DEF Board!Next
<1> QED  BY <1>2, <1>3

\* A snapshot is taken in the moment of the second look at the number.
LEMMA CheckShows ==
    ASSUME LInv, LInv', Counted, MadeCounts, Check, seq[rd.lock] = rd.seq, Filled
    PROVE  [Board!Next]_<<Made, Shown, ready>>
<1> USE DEF LInv, GInv
<1> DEFINE l == rd.lock
<1>1. /\ rd.at = "check" /\ UNCHANGED geistd /\ ready' = (ready \/ rd.then = "ready")
      /\ seen' = [seen EXCEPT ![l] = [seq |-> rd.seq, got |-> rd.got]]
  BY DEF Check, Ends
<1>2. /\ l \in Locks /\ rd.got \in Seq(Nat) /\ Len(rd.got) = Last[l] /\ ~Odd(seq[l])
      /\ \A k \in 1..Last[l] : rd.got[k] \in Nat /\ rd.got[k] <= word[l][k]
      /\ \A k \in Numbered[l] : rd.got[k] = word[l][k]
  BY <1>1, CheckedWords
<1>3. /\ Made[l] \in Nat /\ DOMAIN rd.got = 1..Last[l]
      /\ l = "memory" => \A k \in 1..NFields : word["memory"][k] = Made["memory"]
      /\ l = "phase" => \A k \in Numbered["phase"] :
                          word["phase"][k] = (IF k <= Made["phase"] + 2 THEN 1 ELSE 0)
  BY <1>2, WholeReports
<1>4. Made' = Made /\ DOMAIN Shown = Locks /\ Shown' = [Shown EXCEPT ![l] = rd.got]
  <2>1. Made' = Made
    BY <1>1 DEF geistd, Made
  <2>2. /\ seen'[l].got = rd.got /\ \A m \in Locks : m # l => seen'[m] = seen[m]
    BY <1>1, <1>2 DEF Types
  <2> QED  BY <1>2, <2>1, <2>2 DEF Shown
<1>5. CASE l = "memory"
  <2>1. \A k \in 1..NFields : rd.got[k] = Made["memory"]
    BY <1>2, <1>3, <1>5, Sizes
  <2>2. rd.got = [k \in 1..NFields |-> Made["memory"]]
    BY <1>2, <1>3, <1>5, <2>1, Sizes
  <2>3. Made["memory"] > 0
    BY <1>3, <1>5, <2>1, Sizes DEF Filled
  <2>4. ready' = ready
    BY <1>1, <1>5 DEF Ready, Done, Types
  <2>5. Board!Snapshot("memory")
    BY <1>4, <1>5, <2>2, <2>3, <2>4 DEF Board!Snapshot, Board!Words, Made, Shown
  <2> QED  BY <2>5 DEF Board!Next, Board!Kinds
<1>6. CASE l = "phase"
  <2>1. \A k \in 1..NWords : rd.got[k] = (IF k <= Made["phase"] + 2 THEN 1 ELSE 0)
    <3> SUFFICES ASSUME NEW k \in 1..NWords
                 PROVE  rd.got[k] = (IF k <= Made["phase"] + 2 THEN 1 ELSE 0)
      OBVIOUS
    <3>1. CASE k \in Numbered["phase"]
      BY <1>2, <1>3, <1>6, <3>1
    <3>2. CASE k \notin Numbered["phase"]
      <4>1. k \in {1, 2} /\ rd.got[k] # 0
        BY <1>6, <3>2, Sizes DEF Filled
      <4>2. word["phase"][k] \in {0, 1}
        <5>1. word["phase"] \in [1..NWords -> {0, 1}]
          BY DEF Types
        <5> QED  BY <5>1
      <4>3. rd.got[k] \in Nat /\ rd.got[k] <= word["phase"][k]
        BY <1>2, <1>6, Sizes
      <4> QED  BY <1>3, <1>6, <4>1, <4>2, <4>3
    <3> QED  BY <3>1, <3>2
  <2>2. rd.got = [k \in 1..NPhases + 2 |-> IF k <= Made["phase"] + 2 THEN 1 ELSE 0]
    <3> DEFINE Given(k) == IF k <= Made["phase"] + 2 THEN 1 ELSE 0
    <3> HIDE DEF LInv, GInv
    <3>1. rd.got = [k \in DOMAIN rd.got |-> rd.got[k]]
      BY <1>2
    <3>2. DOMAIN rd.got = 1..NWords /\ NWords = NPhases + 2
      BY <1>3, <1>6, Sizes
    <3>3. \A k \in 1..NWords : rd.got[k] = Given(k)
      BY <2>1
    <3> HIDE DEF Given
    <3>4. rd.got = [k \in 1..NPhases + 2 |-> Given(k)]
      BY <3>1, <3>2, <3>3
    <3> QED  BY <3>4 DEF Given
  <2>3. UNCHANGED ready \/ (Made["phase"] = NPhases /\ ready' = TRUE)
    <3>1. CASE rd.then # "ready"
      BY <1>1, <3>1 DEF Types
    <3>2. CASE rd.then = "ready"
      <4>1. pc["main"] # "silent"
        <5>1. rd.got[1] # 0 /\ 1 \in 1..Last["phase"]
          BY <1>6, Sizes DEF Filled
        <5>2. rd.got[1] \in Nat /\ rd.got[1] <= word["phase"][1] /\ word["phase"][1] \in Nat
          BY <1>2, <1>6, <5>1, WordsAreNumbers
        <5>3. word["phase"][Process] # 0
          BY <5>1, <5>2, Sizes
        <5> QED  BY <5>3 DEF Order
      <4>2. Complete
        BY <1>1, <3>2, <4>1 DEF Ready, Done
      <4>3. Made["phase"] = NPhases
        BY <4>2, Sizes DEF Complete, MadeCounts
      <4>4. ready' = TRUE
        BY <1>1, <3>2 DEF Types
      <4> QED  BY <4>3, <4>4
    <3> QED  BY <3>1, <3>2
  <2>4. Board!Snapshot("phase")
    BY <1>4, <1>6, <2>2, <2>3 DEF Board!Snapshot, Board!Words, Made, Shown
  <2> QED  BY <2>4 DEF Board!Next, Board!Kinds
<1> QED  BY <1>2, <1>5, <1>6 DEF Locks

\* Every step is a step of the promise, or none.
LEMMA StepShows ==
    LInv /\ LInv' /\ Counted /\ MadeCounts /\ MadeCounts' /\ [Next]_vars
      => [Board!Next]_<<Made, Shown, ready>>
<1> SUFFICES ASSUME LInv, LInv', Counted, MadeCounts, MadeCounts', [Next]_vars
             PROVE  [Board!Next]_<<Made, Shown, ready>>
  OBVIOUS
<1>1. CASE (\E t \in Threads : Capturing(t)) \/ Main \/ SamplerLook \/ Die
  <2>1. UNCHANGED <<seen, ready>>
    BY <1>1, GeistdKeeps DEF LInv, GInv, WriterStep
  <2> QED  BY <1>1, <2>1, GeistdReports
<1>2. CASE Poll \/ Handshake \/ LoadWord \/ UNCHANGED vars
  <2>1. UNCHANGED <<seq, seen, ready>>
    BY <1>2 DEF Poll, Handshake, Begin, LoadWord, geistd, vars
  <2> QED  BY <2>1 DEF Made, Shown
<1>3. CASE LoadNumber
  BY <1>3, ReadGivesUp DEF LoadNumber, Done
<1>4. CASE Check
  <2>1. CASE seq[rd.lock] = rd.seq /\ Filled
    BY <1>4, <2>1, CheckShows
  <2>2. CASE ~(seq[rd.lock] = rd.seq /\ Filled)
    BY <1>4, <2>2, ReadGivesUp DEF Check, Done
  <2> QED  BY <2>1, <2>2
<1> QED  BY <1>1, <1>2, <1>3, <1>4 DEF Next, Reader

LEMMA InitShows == Init => Board!Init
<1> SUFFICES ASSUME Init
             PROVE  Board!Init
  OBVIOUS
<1>1. \A l \in Locks : seq[l] \div 2 = 0
  <2>1. \A l \in Locks : seq[l] = 0
    BY DEF Init
  <2> QED  BY <2>1, Halves
<1>2. \A l \in Locks : seen[l].got = [k \in 1..Board!Width(l) |-> 0]
  BY Sizes DEF Init, NoSnapshot, Board!Width, Locks
<1> QED  BY <1>1, <1>2 DEF Init, Board!Init, Board!Kinds, Locks

\* lifecycle_phase, lifecycle_memory_write and the two reads implement reports
\* and snapshots that are atomic, whatever the interleaving of their loads and
\* stores and wherever geistd dies.
THEOREM ReportsAreShown == Spec => ShowsReports
<1>1. Init => LInv /\ Counted
  BY InitLInv, InitCounted
<1>2. LInv /\ Counted /\ [Next]_vars => LInv' /\ Counted'
  BY NextKeeps, StepCounts
<1>3. LInv /\ Counted => MadeCounts
  BY MadeIs DEF LInv, GInv
<1>4. LInv /\ LInv' /\ Counted /\ MadeCounts /\ MadeCounts' /\ [Next]_vars
        => [Board!Next]_<<[l \in Locks |-> seq[l] \div 2], [l \in Locks |-> seen[l].got], ready>>
  BY StepShows DEF Made, Shown
<1> QED  BY <1>1, <1>2, <1>3, <1>4, InitShows, PTL DEF Spec, ShowsReports, Board!Spec
=============================================================================
