---------------------- MODULE SupervisorRequests_proofs ----------------------
(***************************************************************************)
(* The request properties of Supervisor: one request at a time, exclusive  *)
(* operations, a fresh child after an abandoned request, and a shutdown    *)
(* that leaves nothing behind.                                             *)
(*                                                                         *)
(* None of them is inductive.  RInv ties `served' to the places a request  *)
(* passes through (Marked), says that a child on which a request was       *)
(* abandoned is current only while that request is restarting it, or the   *)
(* app closes and the comparison has no request due (Fresh), and follows   *)
(* main's joins (Joined).  It is inductive given IInv of                   *)
(* Supervisor_proofs.                                                      *)
(***************************************************************************)
EXTENDS Supervisor_proofs

InRequest == {"admitted", "talk", "answered", "abandoned", "req_stopped",
              "req_restarted"}

\* Thread t is between observation_begin and the end of observation_end.
Serving(t) ==
    \/ pc[t] \in InRequest
    \/ frame[t].back = "req_stopped"
    \/ (pc[t] = "spawn" \/ frame[t].back = "spawn") /\ call[t].back = "req_restarted"

\* Thread t's request was abandoned and the child is still to be stopped.
Restarting(t) == pc[t] = "abandoned" \/ frame[t].back = "req_stopped"

\* Generations are counted up, and a child that is ready is one.
Counted ==
    /\ pid <= generation
    /\ \A g \in procs \union tainted : 1 <= g /\ g <= generation
    /\ \A t \in Requesters : served[t] <= generation
    /\ ready \/ cmp.running => generation # 0
    /\ ready => pid # 0

Marked == \A t \in Requesters : served[t] # 0 <=> Serving(t)

Fresh ==
    /\ FreshAfterAbandon
    /\ pid \in tainted =>
         \/ closing /\ pc["compare"] # "due" /\ \A t \in Requesters : served[t] = 0
         \/ \E t \in Requesters : Restarting(t)

\* main has come as far as one of `labels', or is in its last stop_child.
Last == {"final", "done"}
MainAt(labels) == pc["main"] \in labels \/ frame["main"].back = "final"

Joined ==
    /\ MainAt({"drain", "join_compare", "join_job"} \union Last) => pc["monitor"] = "exit"
    /\ MainAt({"join_compare", "join_job"} \union Last) => \A w \in Workers : pc[w] = "idle"
    /\ MainAt({"join_job"} \union Last) => pc["compare"] = "off"
    /\ MainAt(Last) => pc["job"] = "off"
    /\ pc["main"] \in Last => pid = 0 /\ procs = {}

\* The inductive invariant.
RInv == Counted /\ Marked /\ RequestExclusive /\ ExclusiveUse /\ Fresh /\ Joined

-----------------------------------------------------------------------------
(* stop_child and start_child_mode.                                        *)

\* stop_child up to its first nap: RInv is kept.
LEMMA StopBeginServes ==
  ASSUME IInv, RInv, NEW t \in Threads, StopBegin(t)
  PROVE  RInv'
<1> USE ConstantsAssumption, ThreadsAssumption DEF IInv, TypeOK, RInv,
     StopBegin, Holds, StopReturns, Release, Goto, child, backend, prefs,
     request, flags, NoFrame
<1>1. Counted'
  BY DEF Counted, ChildOK, RequestOK
<1>2. Marked'
  BY DEF Marked, Serving, InRequest, Requesters, Threads, RequestOK, Counted,
     ChildOK, SchedOK, Framed, Backs
<1>3. RequestExclusive'
  BY DEF RequestExclusive, RequestOK, Requesters, Counted, ChildOK
<1>4. ExclusiveUse'
  BY DEF ExclusiveUse, RequestOK, Requesters, Started
<1>5. Fresh'
  BY DEF Fresh, FreshAfterAbandon, Restarting, RequestExclusive, Marked,
     Serving, InRequest, Counted, ChildOK, RequestOK, Requesters, Threads,
     SchedOK, Framed, Backs
<1>6. Joined'
  BY DEF Joined, MainAt, Last, Threads, Requesters, Started, Booting,
     OneResident, SchedOK, Framed, Backs
<1> QED
  BY <1>1, <1>2, <1>3, <1>4, <1>5, <1>6

\* stop_child after its last nap: RInv is kept.
LEMMA StopEndServes ==
  ASSUME IInv, RInv, NEW t \in Threads, StopEnd(t)
  PROVE  RInv'
<1> USE ConstantsAssumption, ThreadsAssumption DEF IInv, TypeOK, RInv, StopEnd,
     Free, StopReturns, Goto, child, backend, prefs, request, flags, NoFrame
<1>1. Counted'
  BY DEF Counted, ChildOK, RequestOK
<1>2. Marked'
  BY DEF Marked, Serving, InRequest, Requesters, Threads, RequestOK, Counted,
     ChildOK, SchedOK, Framed, Backs
<1>3. RequestExclusive'
  BY DEF RequestExclusive, RequestOK, Requesters, Counted, ChildOK
<1>4. ExclusiveUse'
  BY DEF ExclusiveUse, RequestOK, Requesters, Started
<1>5. Fresh'
  BY DEF Fresh, FreshAfterAbandon, Restarting, RequestExclusive, Marked,
     Serving, InRequest, Counted, ChildOK, RequestOK, Requesters, Threads,
     SchedOK, Framed, Backs
<1>6. Joined'
  BY DEF Joined, MainAt, Last, Threads, Requesters, Started, Booting,
     OneResident, SchedOK, Framed, Backs
<1> QED
  BY <1>1, <1>2, <1>3, <1>4, <1>5, <1>6

\* A child is spawned: nothing else is resident: RInv is kept.
LEMMA SpawnOkServes ==
  ASSUME IInv, RInv, NEW t \in Threads, SpawnOk(t)
  PROVE  RInv'
<1> USE ConstantsAssumption, ThreadsAssumption DEF IInv, TypeOK, RInv, SpawnOk,
     Holds, Backend, Goto, child, backend, prefs, request, flags
<1>1. Counted'
  BY DEF Counted, ChildOK, RequestOK
<1>2. Marked'
  BY DEF Marked, Serving, InRequest, Requesters, Threads, RequestOK, Counted,
     ChildOK, SchedOK, Framed, CallBacks
<1>3. RequestExclusive'
  BY DEF RequestExclusive, RequestOK, Requesters, Counted, ChildOK
<1>4. ExclusiveUse'
  BY DEF ExclusiveUse, RequestOK, Requesters, Started
<1>5. Fresh'
  BY DEF Fresh, FreshAfterAbandon, Restarting, RequestExclusive, Marked,
     Serving, InRequest, Counted, ChildOK, RequestOK, Requesters, Threads,
     SchedOK, Framed, CallBacks
<1>6. Joined'
  BY DEF Joined, MainAt, Last, Threads, Requesters, Started, Booting,
     OneResident, SchedOK, Framed, CallBacks
<1> QED
  BY <1>1, <1>2, <1>3, <1>4, <1>5, <1>6

\* A failed spawn: RInv is kept.
LEMMA SpawnFailServes ==
  ASSUME IInv, RInv, NEW t \in Threads, SpawnFail(t)
  PROVE  RInv'
<1> USE ConstantsAssumption, ThreadsAssumption DEF IInv, TypeOK, RInv,
     SpawnFail, Holds, Goto, child, backend, prefs, request, flags
<1>1. Counted'
  BY DEF Counted, ChildOK, RequestOK
<1>2. Marked'
  BY DEF Marked, Serving, InRequest, Requesters, Threads, RequestOK, Counted,
     ChildOK, SchedOK, Framed, CallBacks
<1>3. RequestExclusive'
  BY DEF RequestExclusive, RequestOK, Requesters, Counted, ChildOK
<1>4. ExclusiveUse'
  BY DEF ExclusiveUse, RequestOK, Requesters, Started
<1>5. Fresh'
  BY DEF Fresh, FreshAfterAbandon, Restarting, RequestExclusive, Marked,
     Serving, InRequest, Counted, ChildOK, RequestOK, Requesters, Threads,
     SchedOK, Framed, CallBacks
<1>6. Joined'
  BY DEF Joined, MainAt, Last, Threads, Requesters, Started, Booting,
     OneResident, SchedOK, Framed, CallBacks
<1> QED
  BY <1>1, <1>2, <1>3, <1>4, <1>5, <1>6

\* A child exits by itself: RInv is kept.
LEMMA ChildExitServes ==
  ASSUME IInv, RInv, NEW g \in 1..MaxGen, ChildExit(g)
  PROVE  RInv'
<1> USE ConstantsAssumption, ThreadsAssumption DEF IInv, TypeOK, RInv,
     ChildExit, sched, Goto, child, backend, prefs, request, flags
<1>1. Counted'
  BY DEF Counted, ChildOK, RequestOK
<1>2. Marked'
  BY DEF Marked, Serving, InRequest, Requesters, Threads, RequestOK, Counted,
     ChildOK, SchedOK, Framed
<1>3. RequestExclusive'
  BY DEF RequestExclusive, RequestOK, Requesters, Counted, ChildOK
<1>4. ExclusiveUse'
  BY DEF ExclusiveUse, RequestOK, Requesters, Started
<1>5. Fresh'
  BY DEF Fresh, FreshAfterAbandon, Restarting, RequestExclusive, Marked,
     Serving, InRequest, Counted, ChildOK, RequestOK, Requesters, Threads,
     SchedOK, Framed
<1>6. Joined'
  BY DEF Joined, MainAt, Last, Threads, Requesters, Started, Booting,
     OneResident, SchedOK, Framed
<1> QED
  BY <1>1, <1>2, <1>3, <1>4, <1>5, <1>6

-----------------------------------------------------------------------------
(* The monitor thread.                                                     *)

\* poll_child, a cancelled load: RInv is kept.
LEMMA PollCancelledServes ==
  ASSUME IInv, RInv, PollCancelled
  PROVE  RInv'
<1> USE ConstantsAssumption, ThreadsAssumption DEF IInv, TypeOK, RInv,
     PollCancelled, Polls, CallStop, Free, Goto, child, backend, prefs, request,
     flags
<1>1. Counted'
  BY DEF Counted, ChildOK, RequestOK
<1>2. Marked'
  BY DEF Marked, Serving, InRequest, Requesters, Threads, RequestOK, Counted,
     ChildOK, SchedOK, Framed
<1>3. RequestExclusive'
  BY DEF RequestExclusive, RequestOK, Requesters, Counted, ChildOK
<1>4. ExclusiveUse'
  BY DEF ExclusiveUse, RequestOK, Requesters, Started
<1>5. Fresh'
  BY DEF Fresh, FreshAfterAbandon, Restarting, RequestExclusive, Marked,
     Serving, InRequest, Counted, ChildOK, RequestOK, Requesters, Threads,
     SchedOK, Framed
<1>6. Joined'
  BY DEF Joined, MainAt, Last, Threads, Requesters, Started, Booting,
     OneResident, SchedOK, Framed
<1> QED
  BY <1>1, <1>2, <1>3, <1>4, <1>5, <1>6

\* poll_child, the child has exited: RInv is kept.
LEMMA PollReapedServes ==
  ASSUME IInv, RInv, PollReaped
  PROVE  RInv'
<1> USE ConstantsAssumption, ThreadsAssumption DEF IInv, TypeOK, RInv,
     PollReaped, Polls, Free, Goto, child, backend, prefs, request, flags
<1>1. Counted'
  BY DEF Counted, ChildOK, RequestOK
<1>2. Marked'
  BY DEF Marked, Serving, InRequest, Requesters, Threads, RequestOK, Counted,
     ChildOK, SchedOK, Framed
<1>3. RequestExclusive'
  BY DEF RequestExclusive, RequestOK, Requesters, Counted, ChildOK
<1>4. ExclusiveUse'
  BY DEF ExclusiveUse, RequestOK, Requesters, Started
<1>5. Fresh'
  BY DEF Fresh, FreshAfterAbandon, Restarting, RequestExclusive, Marked,
     Serving, InRequest, Counted, ChildOK, RequestOK, Requesters, Threads,
     SchedOK, Framed
<1>6. Joined'
  BY DEF Joined, MainAt, Last, Threads, Requesters, Started, Booting,
     OneResident, SchedOK, Framed
<1> QED
  BY <1>1, <1>2, <1>3, <1>4, <1>5, <1>6

\* poll_child, 120 seconds without readiness: RInv is kept.
LEMMA PollTimeoutServes ==
  ASSUME IInv, RInv, PollTimeout
  PROVE  RInv'
<1> USE ConstantsAssumption, ThreadsAssumption DEF IInv, TypeOK, RInv,
     PollTimeout, Polls, CallStop, Free, Goto, child, backend, prefs, request,
     flags
<1>1. Counted'
  BY DEF Counted, ChildOK, RequestOK
<1>2. Marked'
  BY DEF Marked, Serving, InRequest, Requesters, Threads, RequestOK, Counted,
     ChildOK, SchedOK, Framed
<1>3. RequestExclusive'
  BY DEF RequestExclusive, RequestOK, Requesters, Counted, ChildOK
<1>4. ExclusiveUse'
  BY DEF ExclusiveUse, RequestOK, Requesters, Started
<1>5. Fresh'
  BY DEF Fresh, FreshAfterAbandon, Restarting, RequestExclusive, Marked,
     Serving, InRequest, Counted, ChildOK, RequestOK, Requesters, Threads,
     SchedOK, Framed
<1>6. Joined'
  BY DEF Joined, MainAt, Last, Threads, Requesters, Started, Booting,
     OneResident, SchedOK, Framed
<1> QED
  BY <1>1, <1>2, <1>3, <1>4, <1>5, <1>6

\* poll_child, the handshake: RInv is kept.
LEMMA PollReadyServes ==
  ASSUME IInv, RInv, PollReady
  PROVE  RInv'
<1> USE ConstantsAssumption, ThreadsAssumption DEF IInv, TypeOK, RInv,
     PollReady, Polls, Free, Goto, child, backend, prefs, request, flags
<1>1. Counted'
  BY DEF Counted, ChildOK, RequestOK
<1>2. Marked'
  BY DEF Marked, Serving, InRequest, Requesters, Threads, RequestOK, Counted,
     ChildOK, SchedOK, Framed
<1>3. RequestExclusive'
  BY DEF RequestExclusive, RequestOK, Requesters, Counted, ChildOK
<1>4. ExclusiveUse'
  BY DEF ExclusiveUse, RequestOK, Requesters, Started
<1>5. Fresh'
  BY DEF Fresh, FreshAfterAbandon, Restarting, RequestExclusive, Marked,
     Serving, InRequest, Counted, ChildOK, RequestOK, Requesters, Threads,
     SchedOK, Framed
<1>6. Joined'
  BY DEF Joined, MainAt, Last, Threads, Requesters, Started, Booting,
     OneResident, SchedOK, Framed
<1> QED
  BY <1>1, <1>2, <1>3, <1>4, <1>5, <1>6

\* poll_child, another processor than expected: RInv is kept.
LEMMA PollMismatchServes ==
  ASSUME IInv, RInv, PollMismatch
  PROVE  RInv'
<1> USE ConstantsAssumption, ThreadsAssumption DEF IInv, TypeOK, RInv,
     PollMismatch, Polls, CallStop, Free, Goto, child, backend, prefs, request,
     flags
<1>1. Counted'
  BY DEF Counted, ChildOK, RequestOK
<1>2. Marked'
  BY DEF Marked, Serving, InRequest, Requesters, Threads, RequestOK, Counted,
     ChildOK, SchedOK, Framed
<1>3. RequestExclusive'
  BY DEF RequestExclusive, RequestOK, Requesters, Counted, ChildOK
<1>4. ExclusiveUse'
  BY DEF ExclusiveUse, RequestOK, Requesters, Started
<1>5. Fresh'
  BY DEF Fresh, FreshAfterAbandon, Restarting, RequestExclusive, Marked,
     Serving, InRequest, Counted, ChildOK, RequestOK, Requesters, Threads,
     SchedOK, Framed
<1>6. Joined'
  BY DEF Joined, MainAt, Last, Threads, Requesters, Started, Booting,
     OneResident, SchedOK, Framed
<1> QED
  BY <1>1, <1>2, <1>3, <1>4, <1>5, <1>6

\* poll_child with nothing to do: RInv is kept.
LEMMA PollNothingServes ==
  ASSUME IInv, RInv, PollNothing
  PROVE  RInv'
<1> USE ConstantsAssumption, ThreadsAssumption DEF IInv, TypeOK, RInv,
     PollNothing, Goto, child, backend, prefs, request, flags
<1>1. Counted'
  BY DEF Counted, ChildOK, RequestOK
<1>2. Marked'
  BY DEF Marked, Serving, InRequest, Requesters, Threads, RequestOK, Counted,
     ChildOK, SchedOK, Framed
<1>3. RequestExclusive'
  BY DEF RequestExclusive, RequestOK, Requesters, Counted, ChildOK
<1>4. ExclusiveUse'
  BY DEF ExclusiveUse, RequestOK, Requesters, Started
<1>5. Fresh'
  BY DEF Fresh, FreshAfterAbandon, Restarting, RequestExclusive, Marked,
     Serving, InRequest, Counted, ChildOK, RequestOK, Requesters, Threads,
     SchedOK, Framed
<1>6. Joined'
  BY DEF Joined, MainAt, Last, Threads, Requesters, Started, Booting,
     OneResident, SchedOK, Framed
<1> QED
  BY <1>1, <1>2, <1>3, <1>4, <1>5, <1>6

\* poll_child after stop_child: RInv is kept.
LEMMA PollStoppedServes ==
  ASSUME IInv, RInv, NEW label \in {"poll_cancelled", "poll_mismatch"}, NEW
         outcome \in {"cancelled", "failed"}, PollStopped(label, outcome)
  PROVE  RInv'
<1> USE ConstantsAssumption, ThreadsAssumption DEF IInv, TypeOK, RInv,
     PollStopped, Holds, Leave, Release, Goto, child, backend, prefs, request,
     flags, NoCall
<1>1. Counted'
  BY DEF Counted, ChildOK, RequestOK
<1>2. Marked'
  BY DEF Marked, Serving, InRequest, Requesters, Threads, RequestOK, Counted,
     ChildOK, SchedOK, Framed
<1>3. RequestExclusive'
  BY DEF RequestExclusive, RequestOK, Requesters, Counted, ChildOK
<1>4. ExclusiveUse'
  BY DEF ExclusiveUse, RequestOK, Requesters, Started
<1>5. Fresh'
  BY DEF Fresh, FreshAfterAbandon, Restarting, RequestExclusive, Marked,
     Serving, InRequest, Counted, ChildOK, RequestOK, Requesters, Threads,
     SchedOK, Framed
<1>6. Joined'
  BY DEF Joined, MainAt, Last, Threads, Requesters, Started, Booting,
     OneResident, SchedOK, Framed
<1> QED
  BY <1>1, <1>2, <1>3, <1>4, <1>5, <1>6

\* poll_child once the child is gone: RInv is kept.
LEMMA PollAfterReapServes ==
  ASSUME IInv, RInv, PollAfterReap
  PROVE  RInv'
<1> USE ConstantsAssumption, ThreadsAssumption DEF IInv, TypeOK, RInv,
     PollAfterReap, Holds, Leave, Release, CallStart, CallStop, Goto, child,
     backend, prefs, request, flags, NoCall
<1>1. Counted'
  BY DEF Counted, ChildOK, RequestOK
<1>2. Marked'
  BY DEF Marked, Serving, InRequest, Requesters, Threads, RequestOK, Counted,
     ChildOK, SchedOK, Framed
<1>3. RequestExclusive'
  BY DEF RequestExclusive, RequestOK, Requesters, Counted, ChildOK
<1>4. ExclusiveUse'
  BY DEF ExclusiveUse, RequestOK, Requesters, Started
<1>5. Fresh'
  BY DEF Fresh, FreshAfterAbandon, Restarting, RequestExclusive, Marked,
     Serving, InRequest, Counted, ChildOK, RequestOK, Requesters, Threads,
     SchedOK, Framed
<1>6. Joined'
  BY DEF Joined, MainAt, Last, Threads, Requesters, Started, Booting,
     OneResident, SchedOK, Framed
<1> QED
  BY <1>1, <1>2, <1>3, <1>4, <1>5, <1>6

\* poll_child after the CPU restart: RInv is kept.
LEMMA PollRestartedServes ==
  ASSUME IInv, RInv, PollRestarted
  PROVE  RInv'
<1> USE ConstantsAssumption, ThreadsAssumption DEF IInv, TypeOK, RInv,
     PollRestarted, Holds, Leave, Release, Goto, child, backend, prefs, request,
     flags, NoCall
<1>1. Counted'
  BY DEF Counted, ChildOK, RequestOK
<1>2. Marked'
  BY DEF Marked, Serving, InRequest, Requesters, Threads, RequestOK, Counted,
     ChildOK, SchedOK, Framed
<1>3. RequestExclusive'
  BY DEF RequestExclusive, RequestOK, Requesters, Counted, ChildOK
<1>4. ExclusiveUse'
  BY DEF ExclusiveUse, RequestOK, Requesters, Started
<1>5. Fresh'
  BY DEF Fresh, FreshAfterAbandon, Restarting, RequestExclusive, Marked,
     Serving, InRequest, Counted, ChildOK, RequestOK, Requesters, Threads,
     SchedOK, Framed
<1>6. Joined'
  BY DEF Joined, MainAt, Last, Threads, Requesters, Started, Booting,
     OneResident, SchedOK, Framed
<1> QED
  BY <1>1, <1>2, <1>3, <1>4, <1>5, <1>6

\* monitor_main's loop: RInv is kept.
LEMMA MonitorLoopServes ==
  ASSUME IInv, RInv, MonitorLoop
  PROVE  RInv'
<1> USE ConstantsAssumption, ThreadsAssumption DEF IInv, TypeOK, RInv,
     MonitorLoop, Goto, child, backend, prefs, request, flags
<1>1. Counted'
  BY DEF Counted, ChildOK, RequestOK
<1>2. Marked'
  BY DEF Marked, Serving, InRequest, Requesters, Threads, RequestOK, Counted,
     ChildOK, SchedOK, Framed
<1>3. RequestExclusive'
  BY DEF RequestExclusive, RequestOK, Requesters, Counted, ChildOK
<1>4. ExclusiveUse'
  BY DEF ExclusiveUse, RequestOK, Requesters, Started
<1>5. Fresh'
  BY DEF Fresh, FreshAfterAbandon, Restarting, RequestExclusive, Marked,
     Serving, InRequest, Counted, ChildOK, RequestOK, Requesters, Threads,
     SchedOK, Framed
<1>6. Joined'
  BY DEF Joined, MainAt, Last, Threads, Requesters, Started, Booting,
     OneResident, SchedOK, Framed
<1> QED
  BY <1>1, <1>2, <1>3, <1>4, <1>5, <1>6

-----------------------------------------------------------------------------
(* The model job.                                                          *)

\* model_job's last critical section begins: RInv is kept.
LEMMA JobDecideServes ==
  ASSUME IInv, RInv, JobDecide
  PROVE  RInv'
<1> USE ConstantsAssumption, ThreadsAssumption DEF IInv, TypeOK, RInv,
     JobDecide, Free, SavedMode, CallStart, CallStop, Goto, child, backend,
     prefs, request, flags
<1>1. Counted'
  BY DEF Counted, ChildOK, RequestOK
<1>2. Marked'
  BY DEF Marked, Serving, InRequest, Requesters, Threads, RequestOK, Counted,
     ChildOK, SchedOK, Framed
<1>3. RequestExclusive'
  BY DEF RequestExclusive, RequestOK, Requesters, Counted, ChildOK
<1>4. ExclusiveUse'
  BY DEF ExclusiveUse, RequestOK, Requesters, Started, Jobs
<1>5. Fresh'
  BY DEF Fresh, FreshAfterAbandon, Restarting, RequestExclusive, Marked,
     Serving, InRequest, Counted, ChildOK, RequestOK, Requesters, Threads,
     SchedOK, Framed
<1>6. Joined'
  BY DEF Joined, MainAt, Last, Threads, Requesters, Started, Booting,
     OneResident, SchedOK, Framed
<1> QED
  BY <1>1, <1>2, <1>3, <1>4, <1>5, <1>6

\* model_job saves the selection: RInv is kept.
LEMMA JobStartedServes ==
  ASSUME IInv, RInv, JobStarted
  PROVE  RInv'
<1> USE ConstantsAssumption, ThreadsAssumption DEF IInv, TypeOK, RInv,
     JobStarted, Holds, Goto, child, backend, prefs, request, flags
<1>1. Counted'
  BY DEF Counted, ChildOK, RequestOK
<1>2. Marked'
  BY DEF Marked, Serving, InRequest, Requesters, Threads, RequestOK, Counted,
     ChildOK, SchedOK, Framed
<1>3. RequestExclusive'
  BY DEF RequestExclusive, RequestOK, Requesters, Counted, ChildOK
<1>4. ExclusiveUse'
  BY DEF ExclusiveUse, RequestOK, Requesters, Started
<1>5. Fresh'
  BY DEF Fresh, FreshAfterAbandon, Restarting, RequestExclusive, Marked,
     Serving, InRequest, Counted, ChildOK, RequestOK, Requesters, Threads,
     SchedOK, Framed
<1>6. Joined'
  BY DEF Joined, MainAt, Last, Threads, Requesters, Started, Booting,
     OneResident, SchedOK, Framed
<1> QED
  BY <1>1, <1>2, <1>3, <1>4, <1>5, <1>6

\* model_job ends: RInv is kept.
LEMMA JobTailServes ==
  ASSUME IInv, RInv, JobTail
  PROVE  RInv'
<1> USE ConstantsAssumption, ThreadsAssumption DEF IInv, TypeOK, RInv, JobTail,
     Holds, Leave, Release, Goto, child, backend, prefs, request, flags, NoCall
<1>1. Counted'
  BY DEF Counted, ChildOK, RequestOK
<1>2. Marked'
  BY DEF Marked, Serving, InRequest, Requesters, Threads, RequestOK, Counted,
     ChildOK, SchedOK, Framed
<1>3. RequestExclusive'
  BY DEF RequestExclusive, RequestOK, Requesters, Counted, ChildOK
<1>4. ExclusiveUse'
  BY DEF ExclusiveUse, RequestOK, Requesters, Started, Jobs
<1>5. Fresh'
  BY DEF Fresh, FreshAfterAbandon, Restarting, RequestExclusive, Marked,
     Serving, InRequest, Counted, ChildOK, RequestOK, Requesters, Threads,
     SchedOK, Framed
<1>6. Joined'
  BY DEF Joined, MainAt, Last, Threads, Requesters, Started, Booting,
     OneResident, SchedOK, Framed
<1> QED
  BY <1>1, <1>2, <1>3, <1>4, <1>5, <1>6

-----------------------------------------------------------------------------
(* Requests.                                                               *)

\* A worker's request is admitted: RInv is kept.
LEMMA GenerateServes ==
  ASSUME IInv, RInv, NEW w \in Workers, Generate(w)
  PROVE  RInv'
<1> USE ConstantsAssumption, ThreadsAssumption DEF IInv, TypeOK, RInv, Generate,
     Free, Admit, Goto, child, backend, prefs, request, flags
<1>1. Counted'
  BY DEF Counted, ChildOK, RequestOK
<1>2. Marked'
  BY DEF Marked, Serving, InRequest, Requesters, Threads, RequestOK, Counted,
     ChildOK, SchedOK, Framed
<1>3. RequestExclusive'
  BY DEF RequestExclusive, RequestOK, Requesters, Counted, ChildOK,
     ExclusiveUse, Marked, Serving, InRequest, Started, SchedOK, Framed
<1>4. ExclusiveUse'
  BY DEF ExclusiveUse, RequestOK, Requesters, Started
<1>5. Fresh'
  BY DEF Fresh, FreshAfterAbandon, Restarting, RequestExclusive, Marked,
     Serving, InRequest, Counted, ChildOK, RequestOK, Requesters, Threads,
     SchedOK, Framed
<1>6. Joined'
  BY DEF Joined, MainAt, Last, Threads, Requesters, Started, Booting,
     OneResident, SchedOK, Framed
<1> QED
  BY <1>1, <1>2, <1>3, <1>4, <1>5, <1>6

\* The request reaches the child: RInv is kept.
LEMMA ConnectServes ==
  ASSUME IInv, RInv, NEW t \in Requesters, Connect(t)
  PROVE  RInv'
<1> USE ConstantsAssumption, ThreadsAssumption DEF IInv, TypeOK, RInv, Connect,
     Goto, child, backend, prefs, request, flags
<1>1. Counted'
  BY DEF Counted, ChildOK, RequestOK
<1>2. Marked'
  BY DEF Marked, Serving, InRequest, Requesters, Threads, RequestOK, Counted,
     ChildOK, SchedOK, Framed
<1>3. RequestExclusive'
  BY DEF RequestExclusive, RequestOK, Requesters, Counted, ChildOK,
     ExclusiveUse, Marked, Serving, InRequest, Started, SchedOK, Framed
<1>4. ExclusiveUse'
  BY DEF ExclusiveUse, RequestOK, Requesters, Started, Marked, Serving,
     InRequest, SchedOK, Booting, Threads, Framed
<1>5. Fresh'
  BY DEF Fresh, FreshAfterAbandon, Restarting, RequestExclusive, Marked,
     Serving, InRequest, Counted, ChildOK, RequestOK, Requesters, Threads,
     SchedOK, Framed
<1>6. Joined'
  BY DEF Joined, MainAt, Last, Threads, Requesters, Started, Booting,
     OneResident, SchedOK, Framed
<1> QED
  BY <1>1, <1>2, <1>3, <1>4, <1>5, <1>6

\* The child answers: RInv is kept.
LEMMA AnswerServes ==
  ASSUME IInv, RInv, NEW t \in Requesters, Answer(t)
  PROVE  RInv'
<1> USE ConstantsAssumption, ThreadsAssumption DEF IInv, TypeOK, RInv, Answer,
     Goto, child, backend, prefs, request, flags
<1>1. Counted'
  BY DEF Counted, ChildOK, RequestOK
<1>2. Marked'
  BY DEF Marked, Serving, InRequest, Requesters, Threads, RequestOK, Counted,
     ChildOK, SchedOK, Framed
<1>3. RequestExclusive'
  BY DEF RequestExclusive, RequestOK, Requesters, Counted, ChildOK
<1>4. ExclusiveUse'
  BY DEF ExclusiveUse, RequestOK, Requesters, Started
<1>5. Fresh'
  BY DEF Fresh, FreshAfterAbandon, Restarting, RequestExclusive, Marked,
     Serving, InRequest, Counted, ChildOK, RequestOK, Requesters, Threads,
     SchedOK, Framed
<1>6. Joined'
  BY DEF Joined, MainAt, Last, Threads, Requesters, Started, Booting,
     OneResident, SchedOK, Framed
<1> QED
  BY <1>1, <1>2, <1>3, <1>4, <1>5, <1>6

\* The request is abandoned: RInv is kept.
LEMMA AbandonServes ==
  ASSUME IInv, RInv, NEW t \in Requesters, Abandon(t)
  PROVE  RInv'
<1> USE ConstantsAssumption, ThreadsAssumption DEF IInv, TypeOK, RInv, Abandon,
     Goto, child, backend, prefs, request, flags
<1>1. Counted'
  BY DEF Counted, ChildOK, RequestOK, Marked, Serving, InRequest
<1>2. Marked'
  BY DEF Marked, Serving, InRequest, Requesters, Threads, RequestOK, Counted,
     ChildOK, SchedOK, Framed
<1>3. RequestExclusive'
  BY DEF RequestExclusive, RequestOK, Requesters, Counted, ChildOK
<1>4. ExclusiveUse'
  BY DEF ExclusiveUse, RequestOK, Requesters, Started
<1>5. Fresh'
  BY DEF Fresh, FreshAfterAbandon, Restarting, RequestExclusive, Marked,
     Serving, InRequest, Counted, ChildOK, RequestOK, Requesters, Threads,
     SchedOK, Framed
<1>6. Joined'
  BY DEF Joined, MainAt, Last, Threads, Requesters, Started, Booting,
     OneResident, SchedOK, Framed
<1> QED
  BY <1>1, <1>2, <1>3, <1>4, <1>5, <1>6

\* observation_end of a completed request: RInv is kept.
LEMMA EndCompletedServes ==
  ASSUME IInv, RInv, NEW t \in Requesters, EndCompleted(t)
  PROVE  RInv'
<1> USE ConstantsAssumption, ThreadsAssumption DEF IInv, TypeOK, RInv,
     EndCompleted, Free, Finish, Leave, Release, Goto, child, backend, prefs,
     request, flags, NoCall
<1>1. Counted'
  BY DEF Counted, ChildOK, RequestOK, Comparisons
<1>2. Marked'
  BY DEF Marked, Serving, InRequest, Requesters, Threads, RequestOK, Counted,
     ChildOK, SchedOK, Framed
<1>3. RequestExclusive'
  BY DEF RequestExclusive, RequestOK, Requesters, Counted, ChildOK,
     ExclusiveUse, Marked, Serving, InRequest, Started, SchedOK, Framed
<1>4. ExclusiveUse'
  BY DEF ExclusiveUse, RequestOK, Requesters, Started, Comparisons,
     RequestExclusive
<1>5. Fresh'
  BY DEF Fresh, FreshAfterAbandon, Restarting, RequestExclusive, Marked,
     Serving, InRequest, Counted, ChildOK, RequestOK, Requesters, Threads,
     SchedOK, Framed, Started, ExclusiveUse
<1>6. Joined'
  BY DEF Joined, MainAt, Last, Threads, Requesters, Started, Booting,
     OneResident, SchedOK, Framed
<1> QED
  BY <1>1, <1>2, <1>3, <1>4, <1>5, <1>6

\* observation_end of an abandoned request: RInv is kept.
LEMMA EndAbandonedServes ==
  ASSUME IInv, RInv, NEW t \in Requesters, EndAbandoned(t)
  PROVE  RInv'
<1> USE ConstantsAssumption, ThreadsAssumption DEF IInv, TypeOK, RInv,
     EndAbandoned, Free, CallStop, Goto, child, backend, prefs, request, flags
<1>1. Counted'
  BY DEF Counted, ChildOK, RequestOK, Comparisons
<1>2. Marked'
  BY DEF Marked, Serving, InRequest, Requesters, Threads, RequestOK, Counted,
     ChildOK, SchedOK, Framed
<1>3. RequestExclusive'
  BY DEF RequestExclusive, RequestOK, Requesters, Counted, ChildOK
<1>4. ExclusiveUse'
  BY DEF ExclusiveUse, RequestOK, Requesters, Started, Comparisons
<1>5. Fresh'
  BY DEF Fresh, FreshAfterAbandon, Restarting, RequestExclusive, Marked,
     Serving, InRequest, Counted, ChildOK, RequestOK, Requesters, Threads,
     SchedOK, Framed
<1>6. Joined'
  BY DEF Joined, MainAt, Last, Threads, Requesters, Started, Booting,
     OneResident, SchedOK, Framed
<1> QED
  BY <1>1, <1>2, <1>3, <1>4, <1>5, <1>6

\* observation_end restarts the child: RInv is kept.
LEMMA RequestRestartServes ==
  ASSUME IInv, RInv, NEW t \in Requesters, RequestRestart(t)
  PROVE  RInv'
<1> USE ConstantsAssumption, ThreadsAssumption DEF IInv, TypeOK, RInv,
     RequestRestart, Holds, Finish, Leave, Release, CallStart, CallStop, Goto,
     child, backend, prefs, request, flags, NoCall
<1>1. Counted'
  BY DEF Counted, ChildOK, RequestOK
<1>2. Marked'
  BY DEF Marked, Serving, InRequest, Requesters, Threads, RequestOK, Counted,
     ChildOK, SchedOK, Framed
<1>3. RequestExclusive'
  <2>1. CASE UNCHANGED request
    BY <2>1 DEF RequestExclusive
  <2>2. CASE Finish(t)
    <3>1. served[t] # 0
      BY DEF Marked, Serving, InRequest
    <3>2. \A s \in Requesters \ {t} : served[s] = 0
      BY <3>1 DEF RequestExclusive
    <3>3. served \in [Requesters -> Nat]
      BY DEF RequestOK
    <3>4. \A s \in Requesters : served'[s] = 0
      BY <2>2, <3>2, <3>3
    <3>5. ~generating'
      BY <2>2
    <3> QED  BY <3>4, <3>5 DEF RequestExclusive
  <2> QED  BY <2>1, <2>2
<1>4. ExclusiveUse'
  BY DEF ExclusiveUse, RequestOK, Requesters, Started, RequestExclusive
<1>5. Fresh'
  BY DEF Fresh, FreshAfterAbandon, Restarting, RequestExclusive, Marked,
     Serving, InRequest, Counted, ChildOK, RequestOK, Requesters, Threads,
     SchedOK, Framed
<1>6. Joined'
  BY DEF Joined, MainAt, Last, Threads, Requesters, Started, Booting,
     OneResident, SchedOK, Framed
<1> QED
  BY <1>1, <1>2, <1>3, <1>4, <1>5, <1>6

\* observation_end after the restart: RInv is kept.
LEMMA RequestRestartedServes ==
  ASSUME IInv, RInv, NEW t \in Requesters, RequestRestarted(t)
  PROVE  RInv'
<1> USE ConstantsAssumption, ThreadsAssumption DEF IInv, TypeOK, RInv,
     RequestRestarted, Holds, Finish, Leave, Release, Goto, child, backend,
     prefs, request, flags, NoCall
<1>1. Counted'
  BY DEF Counted, ChildOK, RequestOK
<1>2. Marked'
  BY DEF Marked, Serving, InRequest, Requesters, Threads, RequestOK, Counted,
     ChildOK, SchedOK, Framed
<1>3. RequestExclusive'
  BY DEF RequestExclusive, RequestOK, Requesters, Counted, ChildOK,
     ExclusiveUse, Marked, Serving, InRequest, Started, SchedOK, Framed
<1>4. ExclusiveUse'
  BY DEF ExclusiveUse, RequestOK, Requesters, Started, RequestExclusive
<1>5. Fresh'
  BY DEF Fresh, FreshAfterAbandon, Restarting, RequestExclusive, Marked,
     Serving, InRequest, Counted, ChildOK, RequestOK, Requesters, Threads,
     SchedOK, Framed
<1>6. Joined'
  BY DEF Joined, MainAt, Last, Threads, Requesters, Started, Booting,
     OneResident, SchedOK, Framed
<1> QED
  BY <1>1, <1>2, <1>3, <1>4, <1>5, <1>6

-----------------------------------------------------------------------------
(* The comparison.                                                         *)

\* The comparison reads model and policy: RInv is kept.
LEMMA CompareBeginServes ==
  ASSUME IInv, RInv, CompareBegin
  PROVE  RInv'
<1> USE ConstantsAssumption, ThreadsAssumption DEF IInv, TypeOK, RInv,
     CompareBegin, Free, Goto, child, backend, prefs, request, flags
<1>1. Counted'
  BY DEF Counted, ChildOK, RequestOK, Comparisons
<1>2. Marked'
  BY DEF Marked, Serving, InRequest, Requesters, Threads, RequestOK, Counted,
     ChildOK, SchedOK, Framed
<1>3. RequestExclusive'
  BY DEF RequestExclusive, RequestOK, Requesters, Counted, ChildOK
<1>4. ExclusiveUse'
  BY DEF ExclusiveUse, RequestOK, Requesters, Started, Comparisons
<1>5. Fresh'
  BY DEF Fresh, FreshAfterAbandon, Restarting, RequestExclusive, Marked,
     Serving, InRequest, Counted, ChildOK, RequestOK, Requesters, Threads,
     SchedOK, Framed
<1>6. Joined'
  BY DEF Joined, MainAt, Last, Threads, Requesters, Started, Booting,
     OneResident, SchedOK, Framed
<1> QED
  BY <1>1, <1>2, <1>3, <1>4, <1>5, <1>6

\* The comparison starts a processor: RInv is kept.
LEMMA CompareSlotServes ==
  ASSUME IInv, RInv, CompareSlot
  PROVE  RInv'
<1> USE ConstantsAssumption, ThreadsAssumption DEF IInv, TypeOK, RInv,
     CompareSlot, Free, SlotBackend, CallStart, CallStop, CompareFails, Goto,
     child, backend, prefs, request, flags
<1>1. Counted'
  BY DEF Counted, ChildOK, RequestOK, Comparisons
<1>2. Marked'
  BY DEF Marked, Serving, InRequest, Requesters, Threads, RequestOK, Counted,
     ChildOK, SchedOK, Framed
<1>3. RequestExclusive'
  BY DEF RequestExclusive, RequestOK, Requesters, Counted, ChildOK
<1>4. ExclusiveUse'
  BY DEF ExclusiveUse, RequestOK, Requesters, Started, Comparisons
<1>5. Fresh'
  BY DEF Fresh, FreshAfterAbandon, Restarting, RequestExclusive, Marked,
     Serving, InRequest, Counted, ChildOK, RequestOK, Requesters, Threads,
     SchedOK, Framed
<1>6. Joined'
  BY DEF Joined, MainAt, Last, Threads, Requesters, Started, Booting,
     OneResident, SchedOK, Framed
<1> QED
  BY <1>1, <1>2, <1>3, <1>4, <1>5, <1>6

\* The comparison after its start: RInv is kept.
LEMMA CompareStartedServes ==
  ASSUME IInv, RInv, CompareStarted
  PROVE  RInv'
<1> USE ConstantsAssumption, ThreadsAssumption DEF IInv, TypeOK, RInv,
     CompareStarted, Holds, CompareFails, Goto, child, backend, prefs, request,
     flags
<1>1. Counted'
  BY DEF Counted, ChildOK, RequestOK, Comparisons
<1>2. Marked'
  BY DEF Marked, Serving, InRequest, Requesters, Threads, RequestOK, Counted,
     ChildOK, SchedOK, Framed
<1>3. RequestExclusive'
  BY DEF RequestExclusive, RequestOK, Requesters, Counted, ChildOK
<1>4. ExclusiveUse'
  BY DEF ExclusiveUse, RequestOK, Requesters, Started, Comparisons
<1>5. Fresh'
  BY DEF Fresh, FreshAfterAbandon, Restarting, RequestExclusive, Marked,
     Serving, InRequest, Counted, ChildOK, RequestOK, Requesters, Threads,
     SchedOK, Framed
<1>6. Joined'
  BY DEF Joined, MainAt, Last, Threads, Requesters, Started, Booting,
     OneResident, SchedOK, Framed
<1> QED
  BY <1>1, <1>2, <1>3, <1>4, <1>5, <1>6

\* comparison_ready: RInv is kept.
LEMMA CompareWaitServes ==
  ASSUME IInv, RInv, CompareWait
  PROVE  RInv'
<1> USE ConstantsAssumption, ThreadsAssumption DEF IInv, TypeOK, RInv,
     CompareWait, Free, CompareFails, Goto, child, backend, prefs, request,
     flags
<1>1. Counted'
  BY DEF Counted, ChildOK, RequestOK, Comparisons
<1>2. Marked'
  BY DEF Marked, Serving, InRequest, Requesters, Threads, RequestOK, Counted,
     ChildOK, SchedOK, Framed
<1>3. RequestExclusive'
  BY DEF RequestExclusive, RequestOK, Requesters, Counted, ChildOK
<1>4. ExclusiveUse'
  BY DEF ExclusiveUse, RequestOK, Requesters, Started, Comparisons
<1>5. Fresh'
  BY DEF Fresh, FreshAfterAbandon, Restarting, RequestExclusive, Marked,
     Serving, InRequest, Counted, ChildOK, RequestOK, Requesters, Threads,
     SchedOK, Framed
<1>6. Joined'
  BY DEF Joined, MainAt, Last, Threads, Requesters, Started, Booting,
     OneResident, SchedOK, Framed
<1> QED
  BY <1>1, <1>2, <1>3, <1>4, <1>5, <1>6

\* The comparison checks the processor: RInv is kept.
LEMMA CompareCheckServes ==
  ASSUME IInv, RInv, CompareCheck
  PROVE  RInv'
<1> USE ConstantsAssumption, ThreadsAssumption DEF IInv, TypeOK, RInv,
     CompareCheck, Free, CompareFails, Goto, child, backend, prefs, request,
     flags
<1>1. Counted'
  BY DEF Counted, ChildOK, RequestOK, Comparisons
<1>2. Marked'
  BY DEF Marked, Serving, InRequest, Requesters, Threads, RequestOK, Counted,
     ChildOK, SchedOK, Framed
<1>3. RequestExclusive'
  BY DEF RequestExclusive, RequestOK, Requesters, Counted, ChildOK
<1>4. ExclusiveUse'
  BY DEF ExclusiveUse, RequestOK, Requesters, Started, Comparisons
<1>5. Fresh'
  BY DEF Fresh, FreshAfterAbandon, Restarting, RequestExclusive, Marked,
     Serving, InRequest, Counted, ChildOK, RequestOK, Requesters, Threads,
     SchedOK, Framed
<1>6. Joined'
  BY DEF Joined, MainAt, Last, Threads, Requesters, Started, Booting,
     OneResident, SchedOK, Framed
<1> QED
  BY <1>1, <1>2, <1>3, <1>4, <1>5, <1>6

\* The comparison's next request is due: RInv is kept.
LEMMA CompareRepeatServes ==
  ASSUME IInv, RInv, CompareRepeat
  PROVE  RInv'
<1> USE ConstantsAssumption, ThreadsAssumption DEF IInv, TypeOK, RInv,
     CompareRepeat, Goto, child, backend, prefs, request, flags
<1>1. Counted'
  BY DEF Counted, ChildOK, RequestOK, Comparisons
<1>2. Marked'
  BY DEF Marked, Serving, InRequest, Requesters, Threads, RequestOK, Counted,
     ChildOK, SchedOK, Framed
<1>3. RequestExclusive'
  BY DEF RequestExclusive, RequestOK, Requesters, Counted, ChildOK
<1>4. ExclusiveUse'
  BY DEF ExclusiveUse, RequestOK, Requesters, Started, Comparisons
<1>5. Fresh'
  BY DEF Fresh, FreshAfterAbandon, Restarting, RequestExclusive, Marked,
     Serving, InRequest, Counted, ChildOK, RequestOK, Requesters, Threads,
     SchedOK, Framed, Started, ExclusiveUse,
     CompareCancelled
<1>6. Joined'
  BY DEF Joined, MainAt, Last, Threads, Requesters, Started, Booting,
     OneResident, SchedOK, Framed
<1> QED
  BY <1>1, <1>2, <1>3, <1>4, <1>5, <1>6

\* The comparison's request is admitted: RInv is kept.
LEMMA CompareRequestServes ==
  ASSUME IInv, RInv, CompareRequest
  PROVE  RInv'
<1> USE ConstantsAssumption, ThreadsAssumption DEF IInv, TypeOK, RInv,
     CompareRequest, Free, Admit, Goto, child, backend, prefs, request, flags
<1>1. Counted'
  BY DEF Counted, ChildOK, RequestOK, Comparisons
<1>2. Marked'
  BY DEF Marked, Serving, InRequest, Requesters, Threads, RequestOK, Counted,
     ChildOK, SchedOK, Framed, Started
<1>3. RequestExclusive'
  BY DEF RequestExclusive, RequestOK, Requesters, Counted, ChildOK,
     ExclusiveUse, Marked, Serving, InRequest, Started, SchedOK, Framed
<1>4. ExclusiveUse'
  BY DEF ExclusiveUse, RequestOK, Requesters, Started, Comparisons,
     RequestExclusive
<1>5. Fresh'
  BY DEF Fresh, FreshAfterAbandon, Restarting, RequestExclusive, Marked,
     Serving, InRequest, Counted, ChildOK, RequestOK, Requesters, Threads,
     SchedOK, Framed, Started, CompareCancelled, ExclusiveUse
<1>6. Joined'
  BY DEF Joined, MainAt, Last, Threads, Requesters, Started, Booting,
     OneResident, SchedOK, Framed
<1> QED
  BY <1>1, <1>2, <1>3, <1>4, <1>5, <1>6

\* The comparison is cancelled: RInv is kept.
LEMMA CompareStopsServes ==
  ASSUME IInv, RInv, CompareStops
  PROVE  RInv'
<1> USE ConstantsAssumption, ThreadsAssumption DEF IInv, TypeOK, RInv,
     CompareStops, Free, CompareFails, Goto, child, backend, prefs, request,
     flags
<1>1. Counted'
  BY DEF Counted, ChildOK, RequestOK, Comparisons
<1>2. Marked'
  BY DEF Marked, Serving, InRequest, Requesters, Threads, RequestOK, Counted,
     ChildOK, SchedOK, Framed
<1>3. RequestExclusive'
  BY DEF RequestExclusive, RequestOK, Requesters, Counted, ChildOK
<1>4. ExclusiveUse'
  BY DEF ExclusiveUse, RequestOK, Requesters, Started, Comparisons
<1>5. Fresh'
  BY DEF Fresh, FreshAfterAbandon, Restarting, RequestExclusive, Marked,
     Serving, InRequest, Counted, ChildOK, RequestOK, Requesters, Threads,
     SchedOK, Framed
<1>6. Joined'
  BY DEF Joined, MainAt, Last, Threads, Requesters, Started, Booting,
     OneResident, SchedOK, Framed
<1> QED
  BY <1>1, <1>2, <1>3, <1>4, <1>5, <1>6

\* The comparison after a request: RInv is kept.
LEMMA CompareMeasuredServes ==
  ASSUME IInv, RInv, CompareMeasured
  PROVE  RInv'
<1> USE ConstantsAssumption, ThreadsAssumption DEF IInv, TypeOK, RInv,
     CompareMeasured, Free, CompareFails, Goto, child, backend, prefs, request,
     flags
<1>1. Counted'
  BY DEF Counted, ChildOK, RequestOK, Comparisons
<1>2. Marked'
  BY DEF Marked, Serving, InRequest, Requesters, Threads, RequestOK, Counted,
     ChildOK, SchedOK, Framed
<1>3. RequestExclusive'
  BY DEF RequestExclusive, RequestOK, Requesters, Counted, ChildOK
<1>4. ExclusiveUse'
  BY DEF ExclusiveUse, RequestOK, Requesters, Started, Comparisons
<1>5. Fresh'
  BY DEF Fresh, FreshAfterAbandon, Restarting, RequestExclusive, Marked,
     Serving, InRequest, Counted, ChildOK, RequestOK, Requesters, Threads,
     SchedOK, Framed
<1>6. Joined'
  BY DEF Joined, MainAt, Last, Threads, Requesters, Started, Booting,
     OneResident, SchedOK, Framed
<1> QED
  BY <1>1, <1>2, <1>3, <1>4, <1>5, <1>6

\* The comparison restores the user's policy: RInv is kept.
LEMMA CompareRestoreServes ==
  ASSUME IInv, RInv, CompareRestore
  PROVE  RInv'
<1> USE ConstantsAssumption, ThreadsAssumption DEF IInv, TypeOK, RInv,
     CompareRestore, Free, CallStart, CallStop, Goto, child, backend, prefs,
     request, flags
<1>1. Counted'
  BY DEF Counted, ChildOK, RequestOK
<1>2. Marked'
  BY DEF Marked, Serving, InRequest, Requesters, Threads, RequestOK, Counted,
     ChildOK, SchedOK, Framed
<1>3. RequestExclusive'
  BY DEF RequestExclusive, RequestOK, Requesters, Counted, ChildOK
<1>4. ExclusiveUse'
  BY DEF ExclusiveUse, RequestOK, Requesters, Started
<1>5. Fresh'
  BY DEF Fresh, FreshAfterAbandon, Restarting, RequestExclusive, Marked,
     Serving, InRequest, Counted, ChildOK, RequestOK, Requesters, Threads,
     SchedOK, Framed
<1>6. Joined'
  BY DEF Joined, MainAt, Last, Threads, Requesters, Started, Booting,
     OneResident, SchedOK, Framed
<1> QED
  BY <1>1, <1>2, <1>3, <1>4, <1>5, <1>6

\* The comparison after that restart: RInv is kept.
LEMMA CompareRestoredServes ==
  ASSUME IInv, RInv, CompareRestored
  PROVE  RInv'
<1> USE ConstantsAssumption, ThreadsAssumption DEF IInv, TypeOK, RInv,
     CompareRestored, Holds, Leave, Release, Goto, child, backend, prefs,
     request, flags, NoCall
<1>1. Counted'
  BY DEF Counted, ChildOK, RequestOK
<1>2. Marked'
  BY DEF Marked, Serving, InRequest, Requesters, Threads, RequestOK, Counted,
     ChildOK, SchedOK, Framed
<1>3. RequestExclusive'
  BY DEF RequestExclusive, RequestOK, Requesters, Counted, ChildOK
<1>4. ExclusiveUse'
  BY DEF ExclusiveUse, RequestOK, Requesters, Started
<1>5. Fresh'
  BY DEF Fresh, FreshAfterAbandon, Restarting, RequestExclusive, Marked,
     Serving, InRequest, Counted, ChildOK, RequestOK, Requesters, Threads,
     SchedOK, Framed
<1>6. Joined'
  BY DEF Joined, MainAt, Last, Threads, Requesters, Started, Booting,
     OneResident, SchedOK, Framed
<1> QED
  BY <1>1, <1>2, <1>3, <1>4, <1>5, <1>6

\* The comparison waits once more: RInv is kept.
LEMMA CompareRewaitServes ==
  ASSUME IInv, RInv, CompareRewait
  PROVE  RInv'
<1> USE ConstantsAssumption, ThreadsAssumption DEF IInv, TypeOK, RInv,
     CompareRewait, Free, Goto, child, backend, prefs, request, flags
<1>1. Counted'
  BY DEF Counted, ChildOK, RequestOK
<1>2. Marked'
  BY DEF Marked, Serving, InRequest, Requesters, Threads, RequestOK, Counted,
     ChildOK, SchedOK, Framed
<1>3. RequestExclusive'
  BY DEF RequestExclusive, RequestOK, Requesters, Counted, ChildOK
<1>4. ExclusiveUse'
  BY DEF ExclusiveUse, RequestOK, Requesters, Started
<1>5. Fresh'
  BY DEF Fresh, FreshAfterAbandon, Restarting, RequestExclusive, Marked,
     Serving, InRequest, Counted, ChildOK, RequestOK, Requesters, Threads,
     SchedOK, Framed
<1>6. Joined'
  BY DEF Joined, MainAt, Last, Threads, Requesters, Started, Booting,
     OneResident, SchedOK, Framed
<1> QED
  BY <1>1, <1>2, <1>3, <1>4, <1>5, <1>6

\* The comparison ends: RInv is kept.
LEMMA CompareFinishServes ==
  ASSUME IInv, RInv, CompareFinish
  PROVE  RInv'
<1> USE ConstantsAssumption, ThreadsAssumption DEF IInv, TypeOK, RInv,
     CompareFinish, NoComparison, Goto, child, backend, prefs, request, flags
<1>1. Counted'
  BY DEF Counted, ChildOK, RequestOK, Comparisons
<1>2. Marked'
  BY DEF Marked, Serving, InRequest, Requesters, Threads, RequestOK, Counted,
     ChildOK, SchedOK, Framed
<1>3. RequestExclusive'
  BY DEF RequestExclusive, RequestOK, Requesters, Counted, ChildOK
<1>4. ExclusiveUse'
  BY DEF ExclusiveUse, RequestOK, Requesters, Started, Comparisons
<1>5. Fresh'
  BY DEF Fresh, FreshAfterAbandon, Restarting, RequestExclusive, Marked,
     Serving, InRequest, Counted, ChildOK, RequestOK, Requesters, Threads,
     SchedOK, Framed
<1>6. Joined'
  BY DEF Joined, MainAt, Last, Threads, Requesters, Started, Booting,
     OneResident, SchedOK, Framed
<1> QED
  BY <1>1, <1>2, <1>3, <1>4, <1>5, <1>6

-----------------------------------------------------------------------------
(* HTTP workers.                                                           *)

\* Main hands a connection over: RInv is kept.
LEMMA AcceptServes ==
  ASSUME IInv, RInv, NEW w \in Workers, Accept(w)
  PROVE  RInv'
<1> USE ConstantsAssumption, ThreadsAssumption DEF IInv, TypeOK, RInv, Accept,
     Goto, child, backend, prefs, request, flags
<1>1. Counted'
  BY DEF Counted, ChildOK, RequestOK
<1>2. Marked'
  BY DEF Marked, Serving, InRequest, Requesters, Threads, RequestOK, Counted,
     ChildOK, SchedOK, Framed
<1>3. RequestExclusive'
  BY DEF RequestExclusive, RequestOK, Requesters, Counted, ChildOK
<1>4. ExclusiveUse'
  BY DEF ExclusiveUse, RequestOK, Requesters, Started
<1>5. Fresh'
  BY DEF Fresh, FreshAfterAbandon, Restarting, RequestExclusive, Marked,
     Serving, InRequest, Counted, ChildOK, RequestOK, Requesters, Threads,
     SchedOK, Framed
<1>6. Joined'
  BY DEF Joined, MainAt, Last, Threads, Requesters, Started, Booting,
     OneResident, SchedOK, Framed
<1> QED
  BY <1>1, <1>2, <1>3, <1>4, <1>5, <1>6

\* A refused operation: RInv is kept.
LEMMA RefuseServes ==
  ASSUME IInv, RInv, NEW w \in Workers, Refuse(w)
  PROVE  RInv'
<1> USE ConstantsAssumption, ThreadsAssumption DEF IInv, TypeOK, RInv, Refuse,
     Goto, child, backend, prefs, request, flags
<1>1. Counted'
  BY DEF Counted, ChildOK, RequestOK
<1>2. Marked'
  BY DEF Marked, Serving, InRequest, Requesters, Threads, RequestOK, Counted,
     ChildOK, SchedOK, Framed
<1>3. RequestExclusive'
  BY DEF RequestExclusive, RequestOK, Requesters, Counted, ChildOK
<1>4. ExclusiveUse'
  BY DEF ExclusiveUse, RequestOK, Requesters, Started
<1>5. Fresh'
  BY DEF Fresh, FreshAfterAbandon, Restarting, RequestExclusive, Marked,
     Serving, InRequest, Counted, ChildOK, RequestOK, Requesters, Threads,
     SchedOK, Framed
<1>6. Joined'
  BY DEF Joined, MainAt, Last, Threads, Requesters, Started, Booting,
     OneResident, SchedOK, Framed
<1> QED
  BY <1>1, <1>2, <1>3, <1>4, <1>5, <1>6

\* /app/select, /app/setup and /app/download: RInv is kept.
LEMMA PrepareServes ==
  ASSUME IInv, RInv, NEW w \in Workers, NEW op, NEW m \in Catalog, NEW installed
         \in BOOLEAN, Prepare(w, op, m, installed)
  PROVE  RInv'
<1> USE ConstantsAssumption, ThreadsAssumption DEF IInv, TypeOK, RInv, Prepare,
     Serves, BeginJob, JobLabel, Goto, child, backend, prefs, request, flags
<1>1. Counted'
  BY DEF Counted, ChildOK, RequestOK
<1>2. Marked'
  BY DEF Marked, Serving, InRequest, Requesters, Threads, RequestOK, Counted,
     ChildOK, SchedOK, Framed
<1>3. RequestExclusive'
  BY DEF RequestExclusive, RequestOK, Requesters, Counted, ChildOK
<1>4. ExclusiveUse'
  BY DEF ExclusiveUse, RequestOK, Requesters, Started, Jobs, RequestExclusive
<1>5. Fresh'
  BY DEF Fresh, FreshAfterAbandon, Restarting, RequestExclusive, Marked,
     Serving, InRequest, Counted, ChildOK, RequestOK, Requesters, Threads,
     SchedOK, Framed
<1>6. Joined'
  BY DEF Joined, MainAt, Last, Threads, Requesters, Started, Booting,
     OneResident, SchedOK, Framed
<1> QED
  BY <1>1, <1>2, <1>3, <1>4, <1>5, <1>6

\* /app/remove begins: RInv is kept.
LEMMA RemoveServes ==
  ASSUME IInv, RInv, NEW w \in Workers, NEW m \in Catalog, Remove(w, m)
  PROVE  RInv'
<1> USE ConstantsAssumption, ThreadsAssumption DEF IInv, TypeOK, RInv, Remove,
     Serves, CallStop, Free, Goto, child, backend, prefs, request, flags
<1>1. Counted'
  BY DEF Counted, ChildOK, RequestOK
<1>2. Marked'
  BY DEF Marked, Serving, InRequest, Requesters, Threads, RequestOK, Counted,
     ChildOK, SchedOK, Framed
<1>3. RequestExclusive'
  BY DEF RequestExclusive, RequestOK, Requesters, Counted, ChildOK
<1>4. ExclusiveUse'
  BY DEF ExclusiveUse, RequestOK, Requesters, Started
<1>5. Fresh'
  BY DEF Fresh, FreshAfterAbandon, Restarting, RequestExclusive, Marked,
     Serving, InRequest, Counted, ChildOK, RequestOK, Requesters, Threads,
     SchedOK, Framed
<1>6. Joined'
  BY DEF Joined, MainAt, Last, Threads, Requesters, Started, Booting,
     OneResident, SchedOK, Framed
<1> QED
  BY <1>1, <1>2, <1>3, <1>4, <1>5, <1>6

\* /app/remove after stop_child: RInv is kept.
LEMMA RemovedServes ==
  ASSUME IInv, RInv, NEW w \in Workers, Removed(w)
  PROVE  RInv'
<1> USE ConstantsAssumption, ThreadsAssumption DEF IInv, TypeOK, RInv, Removed,
     Holds, Leave, Release, Goto, child, backend, prefs, request, flags, NoCall
<1>1. Counted'
  BY DEF Counted, ChildOK, RequestOK
<1>2. Marked'
  BY DEF Marked, Serving, InRequest, Requesters, Threads, RequestOK, Counted,
     ChildOK, SchedOK, Framed
<1>3. RequestExclusive'
  BY DEF RequestExclusive, RequestOK, Requesters, Counted, ChildOK
<1>4. ExclusiveUse'
  BY DEF ExclusiveUse, RequestOK, Requesters, Started
<1>5. Fresh'
  BY DEF Fresh, FreshAfterAbandon, Restarting, RequestExclusive, Marked,
     Serving, InRequest, Counted, ChildOK, RequestOK, Requesters, Threads,
     SchedOK, Framed
<1>6. Joined'
  BY DEF Joined, MainAt, Last, Threads, Requesters, Started, Booting,
     OneResident, SchedOK, Framed
<1> QED
  BY <1>1, <1>2, <1>3, <1>4, <1>5, <1>6

\* /app/stop begins: RInv is kept.
LEMMA AppStopServes ==
  ASSUME IInv, RInv, NEW w \in Workers, Stop(w)
  PROVE  RInv'
<1> USE ConstantsAssumption, ThreadsAssumption DEF IInv, TypeOK, RInv, Stop,
     Serves, Free, CallStop, Goto, child, backend, prefs, request, flags
<1>1. Counted'
  BY DEF Counted, ChildOK, RequestOK
<1>2. Marked'
  BY DEF Marked, Serving, InRequest, Requesters, Threads, RequestOK, Counted,
     ChildOK, SchedOK, Framed
<1>3. RequestExclusive'
  BY DEF RequestExclusive, RequestOK, Requesters, Counted, ChildOK
<1>4. ExclusiveUse'
  BY DEF ExclusiveUse, RequestOK, Requesters, Started
<1>5. Fresh'
  BY DEF Fresh, FreshAfterAbandon, Restarting, RequestExclusive, Marked,
     Serving, InRequest, Counted, ChildOK, RequestOK, Requesters, Threads,
     SchedOK, Framed
<1>6. Joined'
  BY DEF Joined, MainAt, Last, Threads, Requesters, Started, Booting,
     OneResident, SchedOK, Framed
<1> QED
  BY <1>1, <1>2, <1>3, <1>4, <1>5, <1>6

\* /app/stop after stop_child: RInv is kept.
LEMMA StoppedServes ==
  ASSUME IInv, RInv, NEW w \in Workers, Stopped(w)
  PROVE  RInv'
<1> USE ConstantsAssumption, ThreadsAssumption DEF IInv, TypeOK, RInv, Stopped,
     Holds, Leave, Release, Goto, child, backend, prefs, request, flags, NoCall
<1>1. Counted'
  BY DEF Counted, ChildOK, RequestOK
<1>2. Marked'
  BY DEF Marked, Serving, InRequest, Requesters, Threads, RequestOK, Counted,
     ChildOK, SchedOK, Framed
<1>3. RequestExclusive'
  BY DEF RequestExclusive, RequestOK, Requesters, Counted, ChildOK
<1>4. ExclusiveUse'
  BY DEF ExclusiveUse, RequestOK, Requesters, Started
<1>5. Fresh'
  BY DEF Fresh, FreshAfterAbandon, Restarting, RequestExclusive, Marked,
     Serving, InRequest, Counted, ChildOK, RequestOK, Requesters, Threads,
     SchedOK, Framed
<1>6. Joined'
  BY DEF Joined, MainAt, Last, Threads, Requesters, Started, Booting,
     OneResident, SchedOK, Framed
<1> QED
  BY <1>1, <1>2, <1>3, <1>4, <1>5, <1>6

\* /app/execution: RInv is kept.
LEMMA ExecutionServes ==
  ASSUME IInv, RInv, NEW w \in Workers, NEW md \in Modes, Execution(w, md)
  PROVE  RInv'
<1> USE ConstantsAssumption, ThreadsAssumption DEF IInv, TypeOK, RInv,
     Execution, Serves, Free, CallStart, CallStop, Goto, child, backend, prefs,
     request, flags
<1>1. Counted'
  BY DEF Counted, ChildOK, RequestOK
<1>2. Marked'
  BY DEF Marked, Serving, InRequest, Requesters, Threads, RequestOK, Counted,
     ChildOK, SchedOK, Framed
<1>3. RequestExclusive'
  BY DEF RequestExclusive, RequestOK, Requesters, Counted, ChildOK
<1>4. ExclusiveUse'
  BY DEF ExclusiveUse, RequestOK, Requesters, Started
<1>5. Fresh'
  BY DEF Fresh, FreshAfterAbandon, Restarting, RequestExclusive, Marked,
     Serving, InRequest, Counted, ChildOK, RequestOK, Requesters, Threads,
     SchedOK, Framed
<1>6. Joined'
  BY DEF Joined, MainAt, Last, Threads, Requesters, Started, Booting,
     OneResident, SchedOK, Framed
<1> QED
  BY <1>1, <1>2, <1>3, <1>4, <1>5, <1>6

\* /app/execution after its start: RInv is kept.
LEMMA ExecutionStartedServes ==
  ASSUME IInv, RInv, NEW w \in Workers, ExecutionStarted(w)
  PROVE  RInv'
<1> USE ConstantsAssumption, ThreadsAssumption DEF IInv, TypeOK, RInv,
     ExecutionStarted, Holds, Leave, Release, CallStart, CallStop, Goto, child,
     backend, prefs, request, flags, NoCall
<1>1. Counted'
  BY DEF Counted, ChildOK, RequestOK
<1>2. Marked'
  BY DEF Marked, Serving, InRequest, Requesters, Threads, RequestOK, Counted,
     ChildOK, SchedOK, Framed
<1>3. RequestExclusive'
  BY DEF RequestExclusive, RequestOK, Requesters, Counted, ChildOK
<1>4. ExclusiveUse'
  BY DEF ExclusiveUse, RequestOK, Requesters, Started
<1>5. Fresh'
  BY DEF Fresh, FreshAfterAbandon, Restarting, RequestExclusive, Marked,
     Serving, InRequest, Counted, ChildOK, RequestOK, Requesters, Threads,
     SchedOK, Framed
<1>6. Joined'
  BY DEF Joined, MainAt, Last, Threads, Requesters, Started, Booting,
     OneResident, SchedOK, Framed
<1> QED
  BY <1>1, <1>2, <1>3, <1>4, <1>5, <1>6

\* /app/execution after the CPU fallback: RInv is kept.
LEMMA ExecutionRestoredServes ==
  ASSUME IInv, RInv, NEW w \in Workers, ExecutionRestored(w)
  PROVE  RInv'
<1> USE ConstantsAssumption, ThreadsAssumption DEF IInv, TypeOK, RInv,
     ExecutionRestored, Holds, Leave, Release, Goto, child, backend, prefs,
     request, flags, NoCall
<1>1. Counted'
  BY DEF Counted, ChildOK, RequestOK
<1>2. Marked'
  BY DEF Marked, Serving, InRequest, Requesters, Threads, RequestOK, Counted,
     ChildOK, SchedOK, Framed
<1>3. RequestExclusive'
  BY DEF RequestExclusive, RequestOK, Requesters, Counted, ChildOK
<1>4. ExclusiveUse'
  BY DEF ExclusiveUse, RequestOK, Requesters, Started
<1>5. Fresh'
  BY DEF Fresh, FreshAfterAbandon, Restarting, RequestExclusive, Marked,
     Serving, InRequest, Counted, ChildOK, RequestOK, Requesters, Threads,
     SchedOK, Framed
<1>6. Joined'
  BY DEF Joined, MainAt, Last, Threads, Requesters, Started, Booting,
     OneResident, SchedOK, Framed
<1> QED
  BY <1>1, <1>2, <1>3, <1>4, <1>5, <1>6

\* /app/performance/compare: RInv is kept.
LEMMA CompareStartServes ==
  ASSUME IInv, RInv, NEW w \in Workers, CompareStart(w)
  PROVE  RInv'
<1> USE ConstantsAssumption, ThreadsAssumption DEF IInv, TypeOK, RInv,
     CompareStart, Serves, Goto, child, backend, prefs, request, flags
<1>1. Counted'
  BY DEF Counted, ChildOK, RequestOK, Comparisons
<1>2. Marked'
  BY DEF Marked, Serving, InRequest, Requesters, Threads, RequestOK, Counted,
     ChildOK, SchedOK, Framed, Started
<1>3. RequestExclusive'
  BY DEF RequestExclusive, RequestOK, Requesters, Counted, ChildOK
<1>4. ExclusiveUse'
  BY DEF ExclusiveUse, RequestOK, Requesters, Started, Comparisons,
     RequestExclusive
<1>5. Fresh'
  BY DEF Fresh, FreshAfterAbandon, Restarting, RequestExclusive, Marked,
     Serving, InRequest, Counted, ChildOK, RequestOK, Requesters, Threads,
     SchedOK, Framed, Started
<1>6. Joined'
  BY DEF Joined, MainAt, Last, Threads, Requesters, Started, Booting,
     OneResident, SchedOK, Framed
<1> QED
  BY <1>1, <1>2, <1>3, <1>4, <1>5, <1>6

\* /app/activity/cancel: RInv is kept.
LEMMA ActivityCancelServes ==
  ASSUME IInv, RInv, NEW w \in Workers, ActivityCancel(w)
  PROVE  RInv'
<1> USE ConstantsAssumption, ThreadsAssumption DEF IInv, TypeOK, RInv,
     ActivityCancel, Serves, Goto, child, backend, prefs, request, flags
<1>1. Counted'
  BY DEF Counted, ChildOK, RequestOK
<1>2. Marked'
  BY DEF Marked, Serving, InRequest, Requesters, Threads, RequestOK, Counted,
     ChildOK, SchedOK, Framed
<1>3. RequestExclusive'
  BY DEF RequestExclusive, RequestOK, Requesters, Counted, ChildOK
<1>4. ExclusiveUse'
  BY DEF ExclusiveUse, RequestOK, Requesters, Started
<1>5. Fresh'
  BY DEF Fresh, FreshAfterAbandon, Restarting, RequestExclusive, Marked,
     Serving, InRequest, Counted, ChildOK, RequestOK, Requesters, Threads,
     SchedOK, Framed
<1>6. Joined'
  BY DEF Joined, MainAt, Last, Threads, Requesters, Started, Booting,
     OneResident, SchedOK, Framed
<1> QED
  BY <1>1, <1>2, <1>3, <1>4, <1>5, <1>6

\* The operations that only set a flag: RInv is kept.
LEMMA SetFlagServes ==
  ASSUME IInv, RInv, NEW w \in Workers, NEW op, SetFlag(w, op)
  PROVE  RInv'
<1> USE ConstantsAssumption, ThreadsAssumption DEF IInv, TypeOK, RInv, SetFlag,
     Goto, child, backend, prefs, request, flags
<1>1. Counted'
  BY DEF Counted, ChildOK, RequestOK
<1>2. Marked'
  BY DEF Marked, Serving, InRequest, Requesters, Threads, RequestOK, Counted,
     ChildOK, SchedOK, Framed
<1>3. RequestExclusive'
  BY DEF RequestExclusive, RequestOK, Requesters, Counted, ChildOK
<1>4. ExclusiveUse'
  BY DEF ExclusiveUse, RequestOK, Requesters, Started
<1>5. Fresh'
  BY DEF Fresh, FreshAfterAbandon, Restarting, RequestExclusive, Marked,
     Serving, InRequest, Counted, ChildOK, RequestOK, Requesters, Threads,
     SchedOK, Framed
<1>6. Joined'
  BY DEF Joined, MainAt, Last, Threads, Requesters, Started, Booting,
     OneResident, SchedOK, Framed
<1> QED
  BY <1>1, <1>2, <1>3, <1>4, <1>5, <1>6

\* /app/quit-if-idle: RInv is kept.
LEMMA QuitIfIdleServes ==
  ASSUME IInv, RInv, NEW w \in Workers, QuitIfIdle(w)
  PROVE  RInv'
<1> USE ConstantsAssumption, ThreadsAssumption DEF IInv, TypeOK, RInv,
     QuitIfIdle, Serves, Goto, child, backend, prefs, request, flags
<1>1. Counted'
  BY DEF Counted, ChildOK, RequestOK
<1>2. Marked'
  BY DEF Marked, Serving, InRequest, Requesters, Threads, RequestOK, Counted,
     ChildOK, SchedOK, Framed
<1>3. RequestExclusive'
  BY DEF RequestExclusive, RequestOK, Requesters, Counted, ChildOK
<1>4. ExclusiveUse'
  BY DEF ExclusiveUse, RequestOK, Requesters, Started
<1>5. Fresh'
  BY DEF Fresh, FreshAfterAbandon, Restarting, RequestExclusive, Marked,
     Serving, InRequest, Counted, ChildOK, RequestOK, Requesters, Threads,
     SchedOK, Framed
<1>6. Joined'
  BY DEF Joined, MainAt, Last, Threads, Requesters, Started, Booting,
     OneResident, SchedOK, Framed
<1> QED
  BY <1>1, <1>2, <1>3, <1>4, <1>5, <1>6

-----------------------------------------------------------------------------
(* The main thread.                                                        *)

\* Main starts without a model: RInv is kept.
LEMMA BootIdleServes ==
  ASSUME IInv, RInv, BootIdle
  PROVE  RInv'
<1> USE ConstantsAssumption, ThreadsAssumption DEF IInv, TypeOK, RInv, BootIdle,
     Goto, child, backend, prefs, request, flags
<1>1. Counted'
  BY DEF Counted, ChildOK, RequestOK
<1>2. Marked'
  BY DEF Marked, Serving, InRequest, Requesters, Threads, RequestOK, Counted,
     ChildOK, SchedOK, Framed
<1>3. RequestExclusive'
  BY DEF RequestExclusive, RequestOK, Requesters, Counted, ChildOK
<1>4. ExclusiveUse'
  BY DEF ExclusiveUse, RequestOK, Requesters, Started
<1>5. Fresh'
  BY DEF Fresh, FreshAfterAbandon, Restarting, RequestExclusive, Marked,
     Serving, InRequest, Counted, ChildOK, RequestOK, Requesters, Threads,
     SchedOK, Framed
<1>6. Joined'
  BY DEF Joined, MainAt, Last, Threads, Requesters, Started, Booting,
     OneResident, SchedOK, Framed
<1> QED
  BY <1>1, <1>2, <1>3, <1>4, <1>5, <1>6

\* Main starts the saved selection: RInv is kept.
LEMMA BootSelectedServes ==
  ASSUME IInv, RInv, BootSelected
  PROVE  RInv'
<1> USE ConstantsAssumption, ThreadsAssumption DEF IInv, TypeOK, RInv,
     BootSelected, BeginJob, JobLabel, Goto, child, backend, prefs, request,
     flags
<1>1. Counted'
  BY DEF Counted, ChildOK, RequestOK
<1>2. Marked'
  BY DEF Marked, Serving, InRequest, Requesters, Threads, RequestOK, Counted,
     ChildOK, SchedOK, Framed
<1>3. RequestExclusive'
  BY DEF RequestExclusive, RequestOK, Requesters, Counted, ChildOK
<1>4. \A t \in Requesters : pc[t] \in {"idle", "off"}
  BY DEF Started, Booting, Requesters, Threads
<1>5. ~generating
  BY <1>4 DEF Marked, Serving, InRequest, RequestExclusive, Framed, Requesters,
     Threads
<1>6. ~cmp.running
  BY DEF Started, Booting, Threads
<1>7. ExclusiveUse'
  BY <1>5, <1>6 DEF ExclusiveUse
<1>8. Fresh'
  BY DEF Fresh, FreshAfterAbandon, Restarting, RequestExclusive, Marked,
     Serving, InRequest, Counted, ChildOK, RequestOK, Requesters, Threads,
     SchedOK, Framed
<1>9. Joined'
  BY DEF Joined, MainAt, Last, Threads, Requesters, Started, Booting,
     OneResident, SchedOK, Framed
<1> QED
  BY <1>1, <1>2, <1>3, <1>4, <1>5, <1>6, <1>7, <1>8, <1>9

\* Main starts the --model file: RInv is kept.
LEMMA BootCustomServes ==
  ASSUME IInv, RInv, BootCustom
  PROVE  RInv'
<1> USE ConstantsAssumption, ThreadsAssumption DEF IInv, TypeOK, RInv,
     BootCustom, SavedMode, Free, CallStart, CallStop, Goto, child, backend,
     prefs, request, flags
<1>1. Counted'
  BY DEF Counted, ChildOK, RequestOK
<1>2. Marked'
  BY DEF Marked, Serving, InRequest, Requesters, Threads, RequestOK, Counted,
     ChildOK, SchedOK, Framed
<1>3. RequestExclusive'
  BY DEF RequestExclusive, RequestOK, Requesters, Counted, ChildOK
<1>4. ExclusiveUse'
  BY DEF ExclusiveUse, RequestOK, Requesters, Started
<1>5. Fresh'
  BY DEF Fresh, FreshAfterAbandon, Restarting, RequestExclusive, Marked,
     Serving, InRequest, Counted, ChildOK, RequestOK, Requesters, Threads,
     SchedOK, Framed
<1>6. Joined'
  BY DEF Joined, MainAt, Last, Threads, Requesters, Started, Booting,
     OneResident, SchedOK, Framed
<1> QED
  BY <1>1, <1>2, <1>3, <1>4, <1>5, <1>6

\* Main after that start: RInv is kept.
LEMMA BootedServes ==
  ASSUME IInv, RInv, Booted
  PROVE  RInv'
<1> USE ConstantsAssumption, ThreadsAssumption DEF IInv, TypeOK, RInv, Booted,
     Holds, Goto, child, backend, prefs, request, flags
<1>1. Counted'
  BY DEF Counted, ChildOK, RequestOK
<1>2. Marked'
  BY DEF Marked, Serving, InRequest, Requesters, Threads, RequestOK, Counted,
     ChildOK, SchedOK, Framed
<1>3. RequestExclusive'
  BY DEF RequestExclusive, RequestOK, Requesters, Counted, ChildOK
<1>4. ExclusiveUse'
  BY DEF ExclusiveUse, RequestOK, Requesters, Started
<1>5. Fresh'
  BY DEF Fresh, FreshAfterAbandon, Restarting, RequestExclusive, Marked,
     Serving, InRequest, Counted, ChildOK, RequestOK, Requesters, Threads,
     SchedOK, Framed
<1>6. Joined'
  BY DEF Joined, MainAt, Last, Threads, Requesters, Started, Booting,
     OneResident, SchedOK, Framed
<1> QED
  BY <1>1, <1>2, <1>3, <1>4, <1>5, <1>6

\* Main leaves its accept loop: RInv is kept.
LEMMA MainCloseServes ==
  ASSUME IInv, RInv, MainClose
  PROVE  RInv'
<1> USE ConstantsAssumption, ThreadsAssumption DEF IInv, TypeOK, RInv,
     MainClose, Goto, child, backend, prefs, request, flags
<1>1. Counted'
  BY DEF Counted, ChildOK, RequestOK
<1>2. Marked'
  BY DEF Marked, Serving, InRequest, Requesters, Threads, RequestOK, Counted,
     ChildOK, SchedOK, Framed
<1>3. RequestExclusive'
  BY DEF RequestExclusive, RequestOK, Requesters, Counted, ChildOK
<1>4. ExclusiveUse'
  BY DEF ExclusiveUse, RequestOK, Requesters, Started
<1>5. Fresh'
  BY DEF Fresh, FreshAfterAbandon, Restarting, RequestExclusive, Marked,
     Serving, InRequest, Counted, ChildOK, RequestOK, Requesters, Threads,
     SchedOK, Framed
<1>6. Joined'
  BY DEF Joined, MainAt, Last, Threads, Requesters, Started, Booting,
     OneResident, SchedOK, Framed
<1> QED
  BY <1>1, <1>2, <1>3, <1>4, <1>5, <1>6

\* Main joins the monitor: RInv is kept.
LEMMA JoinMonitorServes ==
  ASSUME IInv, RInv, JoinMonitor
  PROVE  RInv'
<1> USE ConstantsAssumption, ThreadsAssumption DEF IInv, TypeOK, RInv,
     JoinMonitor, MainStep, Goto, child, backend, prefs, request, flags
<1>1. Counted'
  BY DEF Counted, ChildOK, RequestOK
<1>2. Marked'
  BY DEF Marked, Serving, InRequest, Requesters, Threads, RequestOK, Counted,
     ChildOK, SchedOK, Framed
<1>3. RequestExclusive'
  BY DEF RequestExclusive, RequestOK, Requesters, Counted, ChildOK
<1>4. ExclusiveUse'
  BY DEF ExclusiveUse, RequestOK, Requesters, Started
<1>5. Fresh'
  BY DEF Fresh, FreshAfterAbandon, Restarting, RequestExclusive, Marked,
     Serving, InRequest, Counted, ChildOK, RequestOK, Requesters, Threads,
     SchedOK, Framed
<1>6. Joined'
  BY DEF Joined, MainAt, Last, Threads, Requesters, Started, Booting,
     OneResident, SchedOK, Framed
<1> QED
  BY <1>1, <1>2, <1>3, <1>4, <1>5, <1>6

\* Main waits for the workers: RInv is kept.
LEMMA DrainWorkersServes ==
  ASSUME IInv, RInv, DrainWorkers
  PROVE  RInv'
<1> USE ConstantsAssumption, ThreadsAssumption DEF IInv, TypeOK, RInv,
     DrainWorkers, MainStep, Goto, child, backend, prefs, request, flags
<1>1. Counted'
  BY DEF Counted, ChildOK, RequestOK
<1>2. Marked'
  BY DEF Marked, Serving, InRequest, Requesters, Threads, RequestOK, Counted,
     ChildOK, SchedOK, Framed
<1>3. RequestExclusive'
  BY DEF RequestExclusive, RequestOK, Requesters, Counted, ChildOK
<1>4. ExclusiveUse'
  BY DEF ExclusiveUse, RequestOK, Requesters, Started
<1>5. Fresh'
  BY DEF Fresh, FreshAfterAbandon, Restarting, RequestExclusive, Marked,
     Serving, InRequest, Counted, ChildOK, RequestOK, Requesters, Threads,
     SchedOK, Framed
<1>6. Joined'
  BY DEF Joined, MainAt, Last, Threads, Requesters, Started, Booting,
     OneResident, SchedOK, Framed
<1> QED
  BY <1>1, <1>2, <1>3, <1>4, <1>5, <1>6

\* Main joins the comparison: RInv is kept.
LEMMA JoinCompareServes ==
  ASSUME IInv, RInv, JoinCompare
  PROVE  RInv'
<1> USE ConstantsAssumption, ThreadsAssumption DEF IInv, TypeOK, RInv,
     JoinCompare, MainStep, Goto, child, backend, prefs, request, flags
<1>1. Counted'
  BY DEF Counted, ChildOK, RequestOK
<1>2. Marked'
  BY DEF Marked, Serving, InRequest, Requesters, Threads, RequestOK, Counted,
     ChildOK, SchedOK, Framed
<1>3. RequestExclusive'
  BY DEF RequestExclusive, RequestOK, Requesters, Counted, ChildOK
<1>4. ExclusiveUse'
  BY DEF ExclusiveUse, RequestOK, Requesters, Started
<1>5. Fresh'
  BY DEF Fresh, FreshAfterAbandon, Restarting, RequestExclusive, Marked,
     Serving, InRequest, Counted, ChildOK, RequestOK, Requesters, Threads,
     SchedOK, Framed
<1>6. Joined'
  BY DEF Joined, MainAt, Last, Threads, Requesters, Started, Booting,
     OneResident, SchedOK, Framed
<1> QED
  BY <1>1, <1>2, <1>3, <1>4, <1>5, <1>6

\* Main joins the job and stops the child: RInv is kept.
LEMMA JoinJobServes ==
  ASSUME IInv, RInv, JoinJob
  PROVE  RInv'
<1> USE ConstantsAssumption, ThreadsAssumption DEF IInv, TypeOK, RInv, JoinJob,
     Free, CallStop, Goto, child, backend, prefs, request, flags
<1>1. Counted'
  BY DEF Counted, ChildOK, RequestOK
<1>2. Marked'
  BY DEF Marked, Serving, InRequest, Requesters, Threads, RequestOK, Counted,
     ChildOK, SchedOK, Framed
<1>3. RequestExclusive'
  BY DEF RequestExclusive, RequestOK, Requesters, Counted, ChildOK
<1>4. ExclusiveUse'
  BY DEF ExclusiveUse, RequestOK, Requesters, Started
<1>5. Fresh'
  BY DEF Fresh, FreshAfterAbandon, Restarting, RequestExclusive, Marked,
     Serving, InRequest, Counted, ChildOK, RequestOK, Requesters, Threads,
     SchedOK, Framed
<1>6. Joined'
  BY DEF Joined, MainAt, Last, Threads, Requesters, Started, Booting,
     OneResident, SchedOK, Framed
<1> QED
  BY <1>1, <1>2, <1>3, <1>4, <1>5, <1>6

\* Main is done: RInv is kept.
LEMMA MainDoneServes ==
  ASSUME IInv, RInv, MainDone
  PROVE  RInv'
<1> USE ConstantsAssumption, ThreadsAssumption DEF IInv, TypeOK, RInv, MainDone,
     Holds, Leave, Release, Goto, child, backend, prefs, request, flags, NoCall
<1>1. Counted'
  BY DEF Counted, ChildOK, RequestOK
<1>2. Marked'
  BY DEF Marked, Serving, InRequest, Requesters, Threads, RequestOK, Counted,
     ChildOK, SchedOK, Framed
<1>3. RequestExclusive'
  BY DEF RequestExclusive, RequestOK, Requesters, Counted, ChildOK
<1>4. ExclusiveUse'
  BY DEF ExclusiveUse, RequestOK, Requesters, Started
<1>5. Fresh'
  BY DEF Fresh, FreshAfterAbandon, Restarting, RequestExclusive, Marked,
     Serving, InRequest, Counted, ChildOK, RequestOK, Requesters, Threads,
     SchedOK, Framed
<1>6. Joined'
  BY DEF Joined, MainAt, Last, Threads, Requesters, Started, Booting,
     OneResident, SchedOK, Framed
<1> QED
  BY <1>1, <1>2, <1>3, <1>4, <1>5, <1>6

-----------------------------------------------------------------------------
(* The invariant of the specification.                                     *)

\* The program starts in RInv.
LEMMA InitRInv == Init => RInv
<1> SUFFICES ASSUME Init PROVE RInv
  OBVIOUS
<1> USE ConstantsAssumption, ThreadsAssumption
    DEF Init, NoFrame, NoComparison, Threads, Requesters
<1>1. Counted
  BY DEF Counted
<1>2. Marked
  BY DEF Marked, Serving, InRequest
<1>3. RequestExclusive /\ ExclusiveUse /\ Fresh
  BY DEF RequestExclusive, ExclusiveUse, Fresh, FreshAfterAbandon
<1>4. Joined
  BY DEF Joined, MainAt, Last
<1> QED
  BY <1>1, <1>2, <1>3, <1>4 DEF RInv

\* A stuttering step keeps RInv.
LEMMA StutterServes ==
  ASSUME RInv, UNCHANGED vars
  PROVE  RInv'
<1> USE DEF RInv, vars, sched, child, backend, prefs, request, flags
<1>1. Counted' /\ Marked' /\ Joined'
  BY DEF Counted, Marked, Serving, Joined, MainAt
<1>2. RequestExclusive' /\ ExclusiveUse'
  BY DEF RequestExclusive, ExclusiveUse
<1>3. Fresh'
  BY DEF Fresh, FreshAfterAbandon, Restarting
<1> QED
  BY <1>1, <1>2, <1>3

\* Every step keeps RInv.
LEMMA NextRInv == IInv /\ RInv /\ [Next]_vars => RInv'
<1> SUFFICES ASSUME IInv, RInv, [Next]_vars PROVE RInv'
  OBVIOUS
<1>1. CASE Monitor
  BY <1>1, PollCancelledServes, PollReapedServes, PollTimeoutServes, PollReadyServes,
     PollMismatchServes, PollNothingServes, PollStoppedServes, PollAfterReapServes,
     PollRestartedServes, MonitorLoopServes DEF Monitor
<1>2. CASE Job
  BY <1>2, JobDecideServes, JobStartedServes, JobTailServes DEF Job
<1>3. CASE Compare
  BY <1>3, CompareBeginServes, CompareSlotServes, CompareStartedServes,
     CompareWaitServes, CompareCheckServes, CompareRepeatServes,
     CompareRequestServes, CompareStopsServes, CompareMeasuredServes,
     CompareRestoreServes, CompareRestoredServes, CompareRewaitServes, CompareFinishServes DEF Compare
<1>4. CASE Main
  BY <1>4, BootIdleServes, BootSelectedServes, BootCustomServes, BootedServes,
     MainCloseServes, JoinMonitorServes, DrainWorkersServes, JoinCompareServes,
     JoinJobServes, MainDoneServes DEF Main
<1>5. ASSUME NEW w \in Workers, Accept(w) \/ Worker(w) PROVE RInv'
  BY <1>5, AcceptServes, RefuseServes, GenerateServes, PrepareServes, RemoveServes,
     RemovedServes, AppStopServes, StoppedServes, ExecutionServes,
     ExecutionStartedServes, ExecutionRestoredServes, CompareStartServes,
     ActivityCancelServes, SetFlagServes, QuitIfIdleServes DEF Worker
<1>6. ASSUME NEW t \in Requesters, Request(t) PROVE RInv'
  BY <1>6, ConnectServes, AnswerServes, AbandonServes, EndCompletedServes,
     EndAbandonedServes, RequestRestartServes, RequestRestartedServes DEF Request
<1>7. ASSUME NEW t \in Threads, StopBegin(t) \/ StopEnd(t) \/ SpawnOk(t) \/ SpawnFail(t)
      PROVE  RInv'
  BY <1>7, StopBeginServes, StopEndServes, SpawnOkServes, SpawnFailServes
<1>8. ASSUME NEW g \in 1..MaxGen, ChildExit(g) PROVE RInv'
  BY <1>8, ChildExitServes
<1>9. CASE Terminated \/ UNCHANGED vars
  BY <1>9, StutterServes DEF Terminated
<1> QED
  BY <1>1, <1>2, <1>3, <1>4, <1>5, <1>6, <1>7, <1>8, <1>9 DEF Next

\* RInv is an invariant of the specification.
THEOREM RequestInductive == Spec => []RInv
  BY InitRInv, NextRInv, Inductive, PTL DEF Spec

\* `generating' admits one request at a time to the child: observation_begin and
\* observation_end pair up in every interleaving.
THEOREM OneRequestAtATime == Spec => []RequestExclusive
<1>1. RInv => RequestExclusive
  BY DEF RInv
<1> QED
  BY <1>1, RequestInductive, PTL

\* No comparison runs beside a job, no request beside a job that will replace
\* the child, and no worker's request beside a comparison.
THEOREM OperationsExclude == Spec => []ExclusiveUse
<1>1. RInv => ExclusiveUse
  BY DEF RInv
<1> QED
  BY <1>1, RequestInductive, PTL

\* No request talks to a child on which an earlier request was abandoned.
THEOREM FreshChild == Spec => []FreshAfterAbandon
<1>1. RInv => FreshAfterAbandon
  BY DEF RInv, Fresh
<1> QED
  BY <1>1, RequestInductive, PTL

\* When main is done no child is left and no thread can start one.
THEOREM NothingLeftBehind == Spec => []NoOrphan
<1>1. IInv /\ RInv => NoOrphan
  <2> SUFFICES ASSUME IInv, RInv, pc["main"] = "done"
               PROVE  /\ procs = {} /\ pid = 0
                      /\ \A t \in Threads \ {"main"} : pc[t] \in {"idle", "off", "exit"}
    BY DEF NoOrphan
  <2> QED
    BY DEF RInv, Joined, MainAt, Last, Threads
<1> QED
  BY <1>1, Inductive, RequestInductive, PTL
=============================================================================
