----------------------------- MODULE Lifecycle -----------------------------
(***************************************************************************)
(* The memory that geistd shares with geist-app (src/lifecycle.c,          *)
(* src/resource_sampler.c, the lifecycle calls of geistd's main and of     *)
(* geist-app's poll_child).                                                *)
(*                                                                         *)
(* geistd reports the phases of its start and samples of the backend's     *)
(* memory, each under a sequence number of its own that is odd while its   *)
(* words change.  geist-app reads the words without waiting: it takes a    *)
(* snapshot only if the number was even and has not changed, and gives up  *)
(* after three attempts.  The words are atomic and sequentially            *)
(* consistent; each load and each store is a step.  geistd may die before  *)
(* any of its steps.                                                       *)
(***************************************************************************)
EXTENDS Naturals, Sequences

CONSTANTS
    NPhases,    \* LC_PHASES - 1; 1 is LC_BACKEND, NPhases is LC_READY
    NFields,    \* the words of a memory sample; the first is its time
    MaxSamples  \* bound: later captures publish nothing

ASSUME LifecycleAssumption ==
    /\ NPhases \in Nat /\ NPhases >= 2
    /\ NFields \in Nat \ {0}
    /\ MaxSamples \in Nat

Locks   == {"phase", "memory"}
Threads == {"main", "sampler"}

\* Under "phase": process, started_ns, phase_ns[1], phase_ns[2]...
Process == 1
Started == 2
WordOf(p) == p + 2
Last == [l \in Locks |-> IF l = "phase" THEN WordOf(NPhases) ELSE NFields]

VARIABLES
    seq,        \* the sequence numbers
    word,       \* the words: 0 or 1 under "phase", the sample's number under "memory"
    alive,      \* geistd has not died
    mapped,     \* geistd has the memory mapped
    pc,         \* where main and the sampler's thread are
    cap,        \* where they are in resource_sampler_capture
    own,        \* the sample that each publishes
    next,       \* the word that each stores next
    reached,    \* the phase that main reports next
    writing,    \* resource_sampler.writing, the try-lock
    stopped,    \* resource_sampler.stopped
    taken,      \* how many samples have been taken
    rd,         \* geist-app's read
    seen,       \* its last snapshots
    ready       \* app.child.ready

geistd == <<seq, word, alive, mapped, pc, cap, own, next, reached, writing, stopped, taken>>
app    == <<rd, seen, ready>>
vars   == <<seq, word, alive, mapped, pc, cap, own, next, reached, writing, stopped, taken,
            rd, seen, ready>>

\* Each step of geistd disturbs the read that is under way, if it writes.
Disturb(l) == rd' = [rd EXCEPT !.calm = @ /\ l # rd.lock]
Quietly    == UNCHANGED rd

Add(l) == seq' = [seq EXCEPT ![l] = @ + 1] /\ Disturb(l)
Store(l, k, v) == word' = [word EXCEPT ![l][k] = v] /\ Disturb(l)
Goto(t, place) == pc' = [pc EXCEPT ![t] = place]

-----------------------------------------------------------------------------
(* resource_sampler_capture.                                               *)

\* Where each thread captures, and where it goes on.
Captures == [t \in Threads |-> IF t = "main" THEN {"start", "serve"} ELSE {"due"}]
After(place) == IF place = "start" THEN "create" ELSE IF place = "due" THEN "loop" ELSE place

\* Mutant: the sample is taken whoever holds the try-lock.
CaptureAlways(t) ==
    /\ alive /\ cap[t] = "none" /\ pc[t] \in Captures[t]
    /\ Goto(t, After(pc[t]))
    /\ taken < MaxSamples
    /\ writing' = TRUE /\ taken' = taken + 1
    /\ own' = [own EXCEPT ![t] = taken + 1] /\ cap' = [cap EXCEPT ![t] = "add"]
    /\ Quietly
    /\ UNCHANGED <<seq, word, alive, mapped, next, reached, stopped, seen, ready>>

\* The capture returns at once if another is under way.
Capture(t) ==
    /\ alive /\ cap[t] = "none" /\ pc[t] \in Captures[t]
    /\ Goto(t, After(pc[t]))
    /\ \/ /\ ~writing /\ taken < MaxSamples
          /\ writing' = TRUE /\ taken' = taken + 1
          /\ own' = [own EXCEPT ![t] = taken + 1] /\ cap' = [cap EXCEPT ![t] = "add"]
       \/ /\ writing \/ taken = MaxSamples
          /\ UNCHANGED <<writing, taken, own, cap>>
    /\ Quietly
    /\ UNCHANGED <<seq, word, alive, mapped, next, reached, stopped, seen, ready>>

\* lifecycle_memory_write, word by word.
WriteBegin(t) ==
    /\ alive /\ cap[t] = "add"
    /\ Add("memory")
    /\ cap' = [cap EXCEPT ![t] = "store"] /\ next' = [next EXCEPT ![t] = 1]
    /\ UNCHANGED <<word, alive, mapped, pc, own, reached, writing, stopped, taken, seen, ready>>

WriteWord(t) ==
    /\ alive /\ cap[t] = "store"
    /\ Store("memory", next[t], own[t])
    /\ \/ next[t] < NFields /\ next' = [next EXCEPT ![t] = @ + 1] /\ UNCHANGED cap
       \/ next[t] = NFields /\ cap' = [cap EXCEPT ![t] = "end"] /\ UNCHANGED next
    /\ UNCHANGED <<seq, alive, mapped, pc, own, reached, writing, stopped, taken, seen, ready>>

\* Mutant: the number stays odd.
WriteEndOdd(t) ==
    /\ alive /\ cap[t] = "end"
    /\ UNCHANGED seq /\ Disturb("memory")
    /\ cap' = [cap EXCEPT ![t] = "clear"]
    /\ UNCHANGED <<word, alive, mapped, pc, own, next, reached, writing, stopped, taken,
                   seen, ready>>

WriteEnd(t) ==
    /\ alive /\ cap[t] = "end"
    /\ Add("memory")
    /\ cap' = [cap EXCEPT ![t] = "clear"]
    /\ UNCHANGED <<word, alive, mapped, pc, own, next, reached, writing, stopped, taken,
                   seen, ready>>

Captured(t) ==
    /\ alive /\ cap[t] = "clear"
    /\ writing' = FALSE /\ cap' = [cap EXCEPT ![t] = "none"]
    /\ Quietly
    /\ UNCHANGED <<seq, word, alive, mapped, pc, own, next, reached, stopped, taken, seen, ready>>

-----------------------------------------------------------------------------
(* geistd's main thread.                                                   *)

\* Main is at a place, and not inside a capture.
At(place) == alive /\ pc["main"] = place /\ cap["main"] = "none"
Rest == <<alive, cap, own, next, writing, taken, seen, ready>>

\* lifecycle_inherit, which may find no memory to share.
Inherit ==
    /\ At("inherit")
    /\ \/ /\ mapped' = TRUE /\ Goto("main", "process")
       \/ Goto("main", "silent") /\ UNCHANGED mapped
    /\ Quietly
    /\ UNCHANGED <<seq, word, reached, stopped, Rest>>

InheritProcess ==
    /\ At("process")
    /\ Store("phase", Process, 1) /\ Goto("main", "started")
    /\ UNCHANGED <<seq, mapped, reached, stopped, Rest>>

InheritStarted ==
    /\ At("started")
    /\ Store("phase", Started, 1) /\ Goto("main", "phase")
    /\ UNCHANGED <<seq, mapped, reached, stopped, Rest>>

\* lifecycle_phase.
PhaseBegin ==
    /\ At("phase")
    /\ Add("phase") /\ Goto("main", "set")
    /\ UNCHANGED <<word, mapped, reached, stopped, Rest>>

PhaseSet ==
    /\ At("set")
    /\ Store("phase", WordOf(reached), 1) /\ Goto("main", "end")
    /\ UNCHANGED <<seq, mapped, reached, stopped, Rest>>

\* After LC_BACKEND main starts the sampler, after LC_READY it serves; a model
\* that does not load makes it stop.
PhaseEnd ==
    /\ At("end")
    /\ Add("phase")
    /\ reached' = reached + 1
    /\ \/ reached = 1 /\ Goto("main", "start")
       \/ reached \in 2..NPhases - 1 /\ Goto("main", "phase")
       \/ reached = NPhases /\ Goto("main", "serve")
       \/ reached = 2 /\ Goto("main", "stop")
    /\ UNCHANGED <<word, mapped, stopped, Rest>>

\* resource_sampler_start, after its capture: the thread may not be created.
CreateSampler ==
    /\ At("create")
    /\ pc' \in {[pc EXCEPT !["main"] = "phase", !["sampler"] = s] : s \in {"loop", "off"}}
    /\ Quietly
    /\ UNCHANGED <<seq, word, mapped, reached, stopped, Rest>>

\* The accept loop ends.
ServeEnd ==
    /\ At("serve")
    /\ Goto("main", "stop")
    /\ Quietly
    /\ UNCHANGED <<seq, word, mapped, reached, stopped, Rest>>

\* resource_sampler_stop.
StopSampler ==
    /\ At("stop")
    /\ stopped' = TRUE /\ Goto("main", "join")
    /\ Quietly
    /\ UNCHANGED <<seq, word, mapped, reached, Rest>>

\* Mutant: the thread is not joined.
JoinNobody ==
    /\ At("join")
    /\ Goto("main", "close")
    /\ Quietly
    /\ UNCHANGED <<seq, word, mapped, reached, stopped, Rest>>

JoinSampler ==
    /\ At("join") /\ pc["sampler"] = "off"
    /\ Goto("main", "close")
    /\ Quietly
    /\ UNCHANGED <<seq, word, mapped, reached, stopped, Rest>>

\* lifecycle_close.
Close ==
    /\ At("close")
    /\ mapped' = FALSE /\ Goto("main", "gone")
    /\ Quietly
    /\ UNCHANGED <<seq, word, reached, stopped, Rest>>

\* Mutant: `stopped' is not looked at again.
SamplerForever ==
    /\ alive /\ pc["sampler"] = "loop" /\ cap["sampler"] = "none"
    /\ Goto("sampler", "due")
    /\ Quietly
    /\ UNCHANGED <<seq, word, mapped, reached, stopped, Rest>>

\* run looks at `stopped', and captures if it is time.
SamplerLook ==
    /\ alive /\ pc["sampler"] = "loop" /\ cap["sampler"] = "none"
    /\ Goto("sampler", IF stopped THEN "off" ELSE "due")
    /\ Quietly
    /\ UNCHANGED <<seq, word, mapped, reached, stopped, Rest>>

\* A return from main, a crash, or geist-app's SIGKILL.
Die ==
    /\ alive
    /\ alive' = FALSE
    /\ Quietly
    /\ UNCHANGED <<seq, word, mapped, pc, cap, own, next, reached, writing, stopped, taken,
                   seen, ready>>

-----------------------------------------------------------------------------
(* geist-app, which reads under app.mutex: one read at a time.  Whether    *)
(* generation and process agree is not modelled: each child has memory of  *)
(* its own.                                                                *)

Attempts == 3
Done == {"read", "missed"}

\* A read of l; `then' is what follows it.
Begin(l, then) ==
    /\ rd.at \in Done
    /\ rd' = [at |-> "number", lock |-> l, attempt |-> 1, seq |-> 0, got |-> <<>>,
              calm |-> TRUE, then |-> then]
    /\ UNCHANGED <<seen, ready, geistd>>

\* poll_child and memory_sample.
Poll == \E l \in Locks : Begin(l, "poll")

\* Mutant: the handshake is not followed by a sample.
HandshakeOnly ==
    /\ alive /\ pc["main"] \in {"serve", "silent"} /\ ~ready /\ rd.at \in Done
    /\ ready' = TRUE
    /\ UNCHANGED <<rd, seen, geistd>>

\* poll_child, when app_daemon_identity is answered: geistd serves.
Handshake ==
    /\ alive /\ pc["main"] \in {"serve", "silent"} /\ ~ready
    /\ Begin("phase", "ready")

Ends == ready' = (ready \/ rd.then = "ready")

TryAgain ==
    IF rd.attempt < Attempts
    THEN rd' = [rd EXCEPT !.at = "number", !.attempt = @ + 1] /\ UNCHANGED ready
    ELSE rd' = [rd EXCEPT !.at = "missed"] /\ Ends

\* The sequence number, and what is tested with it.
LoadNumber ==
    /\ rd.at = "number"
    /\ IF seq[rd.lock] % 2 = 0 /\ (rd.lock = "memory" =>
                                     seq["memory"] # 0 /\ word["phase"][Process] # 0)
       THEN /\ rd' = [rd EXCEPT !.at = "words", !.seq = seq[rd.lock], !.got = <<>>]
            /\ UNCHANGED ready
       ELSE TryAgain
    /\ UNCHANGED <<seen, geistd>>

LoadWord ==
    /\ rd.at = "words"
    /\ rd' = [rd EXCEPT !.got = Append(@, word[rd.lock][Len(@) + 1]),
                        !.at = IF Len(rd.got) + 1 = Last[rd.lock] THEN "check" ELSE "words"]
    /\ UNCHANGED <<seen, ready, geistd>>

\* Without process and start, or the time of a sample, there is no snapshot.
Filled == IF rd.lock = "phase" THEN rd.got[Process] # 0 /\ rd.got[Started] # 0
                               ELSE rd.got[1] # 0

NoSnapshot(l) == [seq |-> 0, got |-> [k \in 1..Last[l] |-> 0]]

\* Mutant: the number is loaded again, but any even one will do.
CheckEven ==
    /\ rd.at = "check"
    /\ IF seq[rd.lock] % 2 = 0 /\ Filled
       THEN /\ rd' = [rd EXCEPT !.at = "read"]
            /\ seen' = [seen EXCEPT ![rd.lock] = [seq |-> rd.seq, got |-> rd.got]]
            /\ Ends
       ELSE TryAgain /\ UNCHANGED seen
    /\ UNCHANGED geistd

\* The number again.
Check ==
    /\ rd.at = "check"
    /\ IF seq[rd.lock] = rd.seq /\ Filled
       THEN /\ rd' = [rd EXCEPT !.at = "read"]
            /\ seen' = [seen EXCEPT ![rd.lock] = [seq |-> rd.seq, got |-> rd.got]]
            /\ Ends
       ELSE TryAgain /\ UNCHANGED seen
    /\ UNCHANGED geistd

-----------------------------------------------------------------------------
\* lifecycle_create.
Init ==
    /\ seq = [l \in Locks |-> 0]
    /\ word = [l \in Locks |-> [k \in 1..Last[l] |-> 0]]
    /\ alive = TRUE /\ mapped = FALSE
    /\ pc = [t \in Threads |-> IF t = "main" THEN "inherit" ELSE "off"]
    /\ cap = [t \in Threads |-> "none"]
    /\ own = [t \in Threads |-> 0] /\ next = [t \in Threads |-> 1]
    /\ reached = 1 /\ writing = FALSE /\ stopped = FALSE /\ taken = 0
    /\ rd = [at |-> "missed", lock |-> "phase", attempt |-> 1, seq |-> 0, got |-> <<>>,
             calm |-> FALSE, then |-> "poll"]
    /\ seen = [l \in Locks |-> NoSnapshot(l)]
    /\ ready = FALSE

Capturing(t) == Capture(t) \/ WriteBegin(t) \/ WriteWord(t) \/ WriteEnd(t) \/ Captured(t)
Main ==
    \/ Inherit \/ InheritProcess \/ InheritStarted
    \/ PhaseBegin \/ PhaseSet \/ PhaseEnd
    \/ CreateSampler \/ ServeEnd \/ StopSampler \/ JoinSampler \/ Close
Reader == Poll \/ Handshake \/ LoadNumber \/ LoadWord \/ Check

Next ==
    \/ \E t \in Threads : Capturing(t)
    \/ Main \/ SamplerLook \/ Die \/ Reader

Spec == Init /\ [][Next]_vars

\* geistd's threads are scheduled.  Nothing makes the accept loop end.
Fairness ==
    /\ \A t \in Threads : WF_vars(WriteBegin(t) \/ WriteWord(t) \/ WriteEnd(t) \/ Captured(t))
    /\ WF_vars(StopSampler \/ JoinSampler \/ Close)
    /\ WF_vars(SamplerLook \/ Capture("sampler"))

FairSpec == Spec /\ Fairness

-----------------------------------------------------------------------------
(* Properties.                                                             *)

\* lifecycle_memory_read returns the words of one sample, lifecycle_read a
\* process and the phases up to one: no snapshot mixes two moments.
Untorn ==
    /\ \A j, k \in 1..NFields : seen["memory"].got[j] = seen["memory"].got[k]
    /\ \A p \in 1..NPhases - 1 :
         seen["phase"].got[WordOf(p)] = 0 => seen["phase"].got[WordOf(p + 1)] = 0
    /\ \A k \in 1..Last["phase"] : seen["phase"].got[k] # 0 =>
         seen["phase"].got[Process] # 0 /\ seen["phase"].got[Started] # 0

\* geist-app never goes back to an older sample or unlearns a phase, although
\* main and the sampler's thread publish in turn.
Forward ==
    [][\A l \in Locks : /\ seen'[l].seq >= seen[l].seq
                        /\ \A k \in 1..Last[l] : seen'[l].got[k] >= seen[l].got[k]]_vars

\* A read gives up only because geistd was writing, or died while it was, or
\* has nothing to show: no write leaves its number odd.
NotMissed ==
    rd.at = "missed" /\ rd.calm =>
      \/ rd.lock = "phase" /\ (word["phase"][Started] = 0 \/ pc["main"] \in {"set", "end"})
      \/ rd.lock = "memory" /\ (word["memory"][1] = 0 \/ \E t \in Threads : cap[t] \in {"store", "end"})

\* poll_child: "Capture them before publishing readiness": a model that is ready
\* shows every phase, if geistd reports any.
ReadyShowsAll ==
    ready /\ word["phase"][Process] # 0 =>
      \A p \in 1..NPhases : seen["phase"].got[WordOf(p)] # 0

\* lifecycle_close unmaps the memory after resource_sampler_stop has joined the
\* only other thread that writes to it.
NoUseAfterUnmap ==
    ~mapped /\ alive => pc["sampler"] = "off" /\ \A t \in Threads : cap[t] = "none"

\* The reads and the writes are as good as atomic: a snapshot shows all that
\* was reported at the moment its number was checked, and nothing else.  A
\* report is made when its number becomes even again.
Board == INSTANCE Reports WITH made  <- [l \in Locks |-> seq[l] \div 2],
                               shown <- [l \in Locks |-> seen[l].got],
                               ready <- ready
ShowsReports == Board!Spec

\* Once geistd stops, the join ends: run's loop looks at `stopped' whatever
\* capture it comes from.
Unmaps == pc["main"] = "stop" ~> (~mapped \/ ~alive)
=============================================================================
