-------------------------- MODULE Supervisor_proofs --------------------------
(***************************************************************************)
(* Type correctness of Supervisor, and that no two children are resident,  *)
(* for every set of workers and models and every number of spawns.         *)
(*                                                                         *)
(* OneResident is not inductive: a spawn adds a child, and only the fact   *)
(* that the spawning thread has held the mutex since its stop_child        *)
(* returned says that no other is left.  Framed is that fact, with what    *)
(* makes it inductive in turn: stop_child returns to a place of its own,   *)
(* and only to one.  Started says which threads exist: a thread that is    *)
(* started anew is not in the middle of stop_child.                        *)
(***************************************************************************)
EXTENDS Supervisor, TLAPS

\* A thread is in stop_child exactly when it has somewhere to return to; one
\* that is about to spawn holds the mutex and finds no child.
Framed ==
    \A t \in Threads :
        /\ pc[t] \in {"stop", "nap"} <=> frame[t].back # "none"
        /\ pc[t] = "spawn" \/ frame[t].back = "spawn" => call[t].back # "none"
        /\ pc[t] = "spawn" => mutex = t /\ pid = 0

\* main before its accept loop.
Booting ==
    pc["main"] \in {"boot", "spawn", "booted"} \/ frame["main"].back = "spawn"

\* The threads that main and the workers create, and when.
Started ==
    /\ pc["job"] # "off" => job.running
    /\ cmp.running <=> pc["compare"] # "off"
    /\ frame["main"].back \in {"none", "spawn", "final"}
    /\ Booting => \A t \in Threads \ {"main"} :
                     pc[t] = IF t \in Workers THEN "idle" ELSE "off"

\* The inductive invariant.
IInv == TypeOK /\ Framed /\ Started /\ OneResident

-----------------------------------------------------------------------------
\* begin_activity and activity_end give a load operation.
LEMMA LoadTypes ==
  /\ \A l \in LoadOperations : /\ EndLoad(l, "completed") \in LoadOperations
                               /\ EndLoad(l, "failed") \in LoadOperations
                               /\ EndLoad(l, "cancelled") \in LoadOperations
  /\ \A g \in 0..MaxGen : BeginLoad(g + 1) \in LoadOperations
  BY ConstantsAssumption DEF LoadOperations, EndLoad, BeginLoad, Outcomes

\* Every assignment to app.compare gives a comparison.
LEMMA ComparisonTypes ==
  /\ \A c \in Comparisons, b \in BOOLEAN : [c EXCEPT !.ok = b] \in Comparisons
  /\ \A c \in Comparisons : [c EXCEPT !.running = TRUE] \in Comparisons
  /\ \A c \in Comparisons : [c EXCEPT !.rep = @ + 1] \in Comparisons
  /\ \A c \in Comparisons : [c EXCEPT !.slot = 2, !.rep = 0] \in Comparisons
  /\ \A c \in Comparisons, m \in Models \union {NoModel}, md \in Modes :
       [c EXCEPT !.model = m, !.prev = md, !.slot = 1, !.rep = 0, !.ok = TRUE]
         \in Comparisons
  /\ NoComparison \in Comparisons
<1>1. /\ \A c \in Comparisons, b \in BOOLEAN : [c EXCEPT !.ok = b] \in Comparisons
      /\ \A c \in Comparisons : [c EXCEPT !.running = TRUE] \in Comparisons
  BY DEF Comparisons
<1>2. /\ \A c \in Comparisons : [c EXCEPT !.rep = @ + 1] \in Comparisons
      /\ \A c \in Comparisons : [c EXCEPT !.rep = 0] \in Comparisons
  BY DEF Comparisons
<1>3. /\ \A c \in Comparisons : [c EXCEPT !.slot = 1] \in Comparisons
      /\ \A c \in Comparisons : [c EXCEPT !.slot = 2] \in Comparisons
  BY DEF Comparisons
<1>4. \A c \in Comparisons, m \in Models \union {NoModel} :
        [c EXCEPT !.model = m] \in Comparisons
  BY DEF Comparisons
<1>5. \A c \in Comparisons, md \in Modes : [c EXCEPT !.prev = md] \in Comparisons
  BY DEF Comparisons
<1>6. ASSUME NEW c \in Comparisons
      PROVE  [c EXCEPT !.slot = 2, !.rep = 0] \in Comparisons
  <2>1. [c EXCEPT !.slot = 2] \in Comparisons
    BY <1>3
  <2> QED
    BY <2>1, <1>2
<1>7. ASSUME NEW c \in Comparisons, NEW m \in Models \union {NoModel},
             NEW md \in Modes
      PROVE  [c EXCEPT !.model = m, !.prev = md, !.slot = 1, !.rep = 0, !.ok = TRUE]
               \in Comparisons
  <2>1. [c EXCEPT !.model = m] \in Comparisons
    BY <1>4
  <2>2. [c EXCEPT !.model = m, !.prev = md] \in Comparisons
    BY <2>1, <1>5
  <2>3. [c EXCEPT !.model = m, !.prev = md, !.slot = 1] \in Comparisons
    BY <2>2, <1>3
  <2>4. [c EXCEPT !.model = m, !.prev = md, !.slot = 1, !.rep = 0] \in Comparisons
    BY <2>3, <1>2
  <2> QED
    BY <2>4, <1>1
<1>8. NoComparison \in Comparisons
  BY DEF Comparisons, NoComparison, Modes
<1> QED
  BY <1>1, <1>2, <1>6, <1>7, <1>8

\* begin_job gives a job and a load operation, with a thread or without.
LEMMA BeginJobTypes ==
  ASSUME TypeOK, NEW m \in Catalog, NEW a \in BOOLEAN, BeginJob(m, a)
  PROVE  load' \in LoadOperations /\ job' \in Jobs
<1>1. \A r \in BOOLEAN :
        /\ [running |-> r, activate |-> a, model |-> m, ok |-> FALSE] \in Jobs
        /\ [running |-> r, activate |-> a, model |-> NoModel, ok |-> FALSE] \in Jobs
  BY DEF Jobs
<1>2. job' \in Jobs
  BY <1>1 DEF BeginJob
<1>3. /\ BeginLoad(generation + 1) \in LoadOperations
      /\ [gen |-> generation + 1, out |-> "failed"] \in LoadOperations
  BY ConstantsAssumption DEF TypeOK, ChildOK, LoadOperations, Outcomes, BeginLoad
<1>4. load' \in LoadOperations
  BY <1>3 DEF BeginJob, TypeOK
<1> QED
  BY <1>2, <1>4

\* Reaping the child keeps the types of its variables.
LEMMA ReapTypes ==
  ASSUME ChildOK, pid' \in {pid, 0}, UNCHANGED generation,
         procs' \in {procs, procs \ {pid}}, dead' \in {dead, dead \ {pid}},
         ready' \in BOOLEAN, stopping' \in BOOLEAN
  PROVE  ChildOK'
<1>1. pid' \in 0..MaxGen /\ generation' \in 0..MaxGen
  BY ConstantsAssumption DEF ChildOK
<1>2. procs' \in SUBSET (1..MaxGen) /\ dead' \in SUBSET (1..MaxGen)
  BY DEF ChildOK
<1> QED
  BY <1>1, <1>2 DEF ChildOK

\* The end of observation_end keeps the types of the request variables.
LEMMA FinishTypes ==
  ASSUME RequestOK, NEW t \in Requesters, Finish(t)
  PROVE  RequestOK'
<1>1. served' \in [Requesters -> 0..MaxGen]
  BY ConstantsAssumption DEF Finish, RequestOK
<1> QED
  BY <1>1 DEF Finish, RequestOK

-----------------------------------------------------------------------------
(* stop_child and start_child_mode.                                        *)

\* stop_child up to its first nap: IInv is kept.
LEMMA StopBeginKeeps ==
  ASSUME IInv, NEW t \in Threads, StopBegin(t)
  PROVE  IInv'
<1> USE DEF IInv, TypeOK, StopBegin, child, backend, prefs, request, flags
<1>1. SchedOK'
  BY ConstantsAssumption, ThreadsAssumption DEF Holds, StopReturns, Release,
     Goto, SchedOK, ChildOK, Framed, Threads, Labels, Backs, NoFrame
<1>2. /\ BackendOK' /\ RequestOK' /\ FlagsOK' /\ load' \in LoadOperations
      /\ job' \in Jobs /\ cmp' \in Comparisons
  BY DEF BackendOK, RequestOK, FlagsOK
<1>3. ChildOK'
  BY ReapTypes
<1>4. frame[t].back \notin {"off", "idle"}
  BY DEF SchedOK, Backs
<1>5. Framed'
  BY ConstantsAssumption, ThreadsAssumption, <1>4 DEF Holds, StopReturns,
     Release, Goto, SchedOK, Framed, Threads, NoFrame, Backs
<1>6. Started'
  BY ConstantsAssumption, ThreadsAssumption, <1>4 DEF Holds, StopReturns,
     Release, Goto, SchedOK, Framed, Started, Booting, Threads, NoFrame
<1>7. OneResident'
  BY DEF OneResident, ChildOK
<1> QED
  BY <1>1, <1>2, <1>3, <1>4, <1>5, <1>6, <1>7

\* stop_child after its last nap: IInv is kept.
LEMMA StopEndKeeps ==
  ASSUME IInv, NEW t \in Threads, StopEnd(t)
  PROVE  IInv'
<1> USE DEF IInv, TypeOK, StopEnd, child, backend, prefs, request, flags
<1>1. SchedOK'
  BY ConstantsAssumption, ThreadsAssumption DEF Free, StopReturns, Goto,
     SchedOK, Framed, Threads, Labels, Backs, NoFrame
<1>2. /\ BackendOK' /\ RequestOK' /\ FlagsOK' /\ load' \in LoadOperations
      /\ job' \in Jobs /\ cmp' \in Comparisons
  BY DEF BackendOK, RequestOK, FlagsOK
<1>3. ChildOK'
  BY ReapTypes
<1>4. frame[t].back \notin {"off", "idle"}
  BY DEF SchedOK, Backs
<1>5. Framed'
  BY ConstantsAssumption, ThreadsAssumption, <1>4 DEF Free, StopReturns, Goto,
     SchedOK, Framed, Threads, NoFrame, Backs
<1>6. Started'
  BY ConstantsAssumption, ThreadsAssumption, <1>4 DEF Free, StopReturns, Goto,
     SchedOK, Framed, Started, Booting, Threads, NoFrame
<1>7. OneResident'
  BY DEF OneResident, ChildOK
<1> QED
  BY <1>1, <1>2, <1>3, <1>4, <1>5, <1>6, <1>7

\* A child is spawned: nothing else is resident: IInv is kept.
LEMMA SpawnOkKeeps ==
  ASSUME IInv, NEW t \in Threads, SpawnOk(t)
  PROVE  IInv'
<1> USE DEF IInv, TypeOK, SpawnOk, child, backend, prefs, request, flags
<1>1. SchedOK'
  BY ConstantsAssumption, ThreadsAssumption DEF Holds, Goto, SchedOK, Framed,
     Threads, Labels, Backs, CallBacks
<1>2. /\ RequestOK' /\ FlagsOK' /\ job' \in Jobs /\ cmp' \in Comparisons
  BY DEF RequestOK, FlagsOK
<1>3. ChildOK'
  BY ConstantsAssumption DEF ChildOK
<1>4. BackendOK'
  BY DEF BackendOK, Backend, SchedOK
<1>5. load' \in LoadOperations
  BY ConstantsAssumption DEF ChildOK, LoadOperations
<1>6. call[t].back \notin {"off", "idle", "stop", "nap", "spawn"}
  BY DEF SchedOK, CallBacks
<1>7. Framed'
  BY ConstantsAssumption, ThreadsAssumption, <1>6 DEF Holds, Goto, SchedOK,
     Framed, Threads
<1>8. Started'
  BY ConstantsAssumption, ThreadsAssumption, <1>6 DEF Holds, Goto, SchedOK,
     Framed, Started, Booting, Threads
<1>9. OneResident'
  BY DEF OneResident, Holds, Framed, ChildOK
<1> QED
  BY <1>1, <1>2, <1>3, <1>4, <1>5, <1>6, <1>7, <1>8, <1>9

\* A failed spawn: IInv is kept.
LEMMA SpawnFailKeeps ==
  ASSUME IInv, NEW t \in Threads, SpawnFail(t)
  PROVE  IInv'
<1> USE DEF IInv, TypeOK, SpawnFail, child, backend, prefs, request, flags
<1>1. SchedOK'
  BY ConstantsAssumption, ThreadsAssumption DEF Holds, Goto, SchedOK, Framed,
     Threads, Labels, Backs, CallBacks
<1>2. /\ ChildOK' /\ BackendOK' /\ RequestOK' /\ FlagsOK' /\ job' \in Jobs
      /\ cmp' \in Comparisons
  BY DEF ChildOK, BackendOK, RequestOK, FlagsOK
<1>3. load' \in LoadOperations
  BY LoadTypes DEF ChildOK
<1>4. call[t].back \notin {"off", "idle", "stop", "nap", "spawn"}
  BY DEF SchedOK, CallBacks
<1>5. Framed'
  BY ConstantsAssumption, ThreadsAssumption, <1>4 DEF Holds, Goto, SchedOK,
     Framed, Threads
<1>6. Started'
  BY ConstantsAssumption, ThreadsAssumption, <1>4 DEF Holds, Goto, SchedOK,
     Framed, Started, Booting, Threads
<1>7. OneResident'
  BY DEF OneResident
<1> QED
  BY <1>1, <1>2, <1>3, <1>4, <1>5, <1>6, <1>7

\* A child exits by itself: IInv is kept.
LEMMA ChildExitKeeps ==
  ASSUME IInv, NEW g \in 1..MaxGen, ChildExit(g)
  PROVE  IInv'
<1> USE DEF IInv, TypeOK, ChildExit, sched, child, backend, prefs, request,
     flags
<1>1. SchedOK' /\ Framed' /\ Started'
  BY DEF SchedOK, Framed, Started, Booting
<1>2. /\ BackendOK' /\ RequestOK' /\ FlagsOK' /\ load' \in LoadOperations
      /\ job' \in Jobs /\ cmp' \in Comparisons
  BY DEF BackendOK, RequestOK, FlagsOK
<1>3. ChildOK'
  BY ConstantsAssumption DEF ChildOK
<1>4. OneResident'
  BY DEF OneResident
<1> QED
  BY <1>1, <1>2, <1>3, <1>4

-----------------------------------------------------------------------------
(* The monitor thread.                                                     *)

\* poll_child, a cancelled load: IInv is kept.
LEMMA PollCancelledKeeps ==
  ASSUME IInv, PollCancelled
  PROVE  IInv'
<1> USE DEF IInv, TypeOK, PollCancelled, child, backend, prefs, request, flags
<1>1. SchedOK'
  BY ConstantsAssumption, ThreadsAssumption DEF Polls, CallStop, Free, Goto,
     SchedOK, Threads, Labels, Backs
<1>2. /\ ChildOK' /\ BackendOK' /\ RequestOK' /\ FlagsOK'
      /\ load' \in LoadOperations /\ job' \in Jobs /\ cmp' \in Comparisons
  BY DEF ChildOK, BackendOK, RequestOK, FlagsOK
<1>3. Framed'
  BY ConstantsAssumption, ThreadsAssumption DEF Polls, CallStop, Free, Goto,
     SchedOK, Framed, Threads
<1>4. Started'
  BY ConstantsAssumption, ThreadsAssumption DEF Polls, CallStop, Free, Goto,
     SchedOK, Framed, Started, Booting, Threads
<1>5. OneResident'
  BY DEF OneResident
<1> QED
  BY <1>1, <1>2, <1>3, <1>4, <1>5

\* poll_child, the child has exited: IInv is kept.
LEMMA PollReapedKeeps ==
  ASSUME IInv, PollReaped
  PROVE  IInv'
<1> USE DEF IInv, TypeOK, PollReaped, child, backend, prefs, request, flags
<1>1. SchedOK'
  BY ConstantsAssumption, ThreadsAssumption DEF Polls, Free, Goto, SchedOK,
     Threads, Labels
<1>2. /\ BackendOK' /\ RequestOK' /\ FlagsOK' /\ load' \in LoadOperations
      /\ job' \in Jobs /\ cmp' \in Comparisons
  BY DEF BackendOK, RequestOK, FlagsOK
<1>3. ChildOK'
  BY ReapTypes DEF ChildOK
<1>4. Framed'
  BY ConstantsAssumption, ThreadsAssumption DEF Polls, Free, Goto, SchedOK,
     Framed, Threads
<1>5. Started'
  BY ConstantsAssumption, ThreadsAssumption DEF Polls, Free, Goto, SchedOK,
     Framed, Started, Booting, Threads
<1>6. OneResident'
  BY DEF OneResident, ChildOK
<1> QED
  BY <1>1, <1>2, <1>3, <1>4, <1>5, <1>6

\* poll_child, 120 seconds without readiness: IInv is kept.
LEMMA PollTimeoutKeeps ==
  ASSUME IInv, PollTimeout
  PROVE  IInv'
<1> USE DEF IInv, TypeOK, PollTimeout, child, backend, prefs, request, flags
<1>1. SchedOK'
  BY ConstantsAssumption, ThreadsAssumption DEF Polls, CallStop, Free, Goto,
     SchedOK, Threads, Labels, Backs
<1>2. /\ ChildOK' /\ BackendOK' /\ RequestOK' /\ FlagsOK'
      /\ load' \in LoadOperations /\ job' \in Jobs /\ cmp' \in Comparisons
  BY DEF ChildOK, BackendOK, RequestOK, FlagsOK
<1>3. Framed'
  BY ConstantsAssumption, ThreadsAssumption DEF Polls, CallStop, Free, Goto,
     SchedOK, Framed, Threads
<1>4. Started'
  BY ConstantsAssumption, ThreadsAssumption DEF Polls, CallStop, Free, Goto,
     SchedOK, Framed, Started, Booting, Threads
<1>5. OneResident'
  BY DEF OneResident
<1> QED
  BY <1>1, <1>2, <1>3, <1>4, <1>5

\* poll_child, the handshake: IInv is kept.
LEMMA PollReadyKeeps ==
  ASSUME IInv, PollReady
  PROVE  IInv'
<1> USE DEF IInv, TypeOK, PollReady, child, backend, prefs, request, flags
<1>1. SchedOK'
  BY ConstantsAssumption, ThreadsAssumption DEF Polls, Free, Goto, SchedOK,
     Threads, Labels
<1>2. /\ RequestOK' /\ FlagsOK' /\ job' \in Jobs /\ cmp' \in Comparisons
  BY DEF RequestOK, FlagsOK
<1>3. ChildOK'
  BY ConstantsAssumption DEF ChildOK
<1>4. /\ pref' \in [Catalog -> Modes] /\ save' \in BOOLEAN
      /\ UNCHANGED <<model, mode, active, selected>>
  BY DEF BackendOK
<1>5. BackendOK'
  BY <1>4 DEF BackendOK
<1>6. load' \in LoadOperations
  BY LoadTypes DEF ChildOK
<1>7. Framed'
  BY ConstantsAssumption, ThreadsAssumption DEF Polls, Free, Goto, SchedOK,
     Framed, Threads
<1>8. Started'
  BY ConstantsAssumption, ThreadsAssumption DEF Polls, Free, Goto, SchedOK,
     Framed, Started, Booting, Threads
<1>9. OneResident'
  BY DEF OneResident
<1> QED
  BY <1>1, <1>2, <1>3, <1>4, <1>5, <1>6, <1>7, <1>8, <1>9

\* poll_child, another processor than expected: IInv is kept.
LEMMA PollMismatchKeeps ==
  ASSUME IInv, PollMismatch
  PROVE  IInv'
<1> USE DEF IInv, TypeOK, PollMismatch, child, backend, prefs, request, flags
<1>1. SchedOK'
  BY ConstantsAssumption, ThreadsAssumption DEF Polls, CallStop, Free, Goto,
     SchedOK, Threads, Labels, Backs
<1>2. /\ ChildOK' /\ BackendOK' /\ RequestOK' /\ FlagsOK'
      /\ load' \in LoadOperations /\ job' \in Jobs /\ cmp' \in Comparisons
  BY DEF ChildOK, BackendOK, RequestOK, FlagsOK
<1>3. Framed'
  BY ConstantsAssumption, ThreadsAssumption DEF Polls, CallStop, Free, Goto,
     SchedOK, Framed, Threads
<1>4. Started'
  BY ConstantsAssumption, ThreadsAssumption DEF Polls, CallStop, Free, Goto,
     SchedOK, Framed, Started, Booting, Threads
<1>5. OneResident'
  BY DEF OneResident
<1> QED
  BY <1>1, <1>2, <1>3, <1>4, <1>5

\* poll_child with nothing to do: IInv is kept.
LEMMA PollNothingKeeps ==
  ASSUME IInv, PollNothing
  PROVE  IInv'
<1> USE DEF IInv, TypeOK, PollNothing, child, backend, prefs, request, flags
<1>1. SchedOK'
  BY ConstantsAssumption, ThreadsAssumption DEF Goto, SchedOK, Threads, Labels
<1>2. /\ ChildOK' /\ BackendOK' /\ RequestOK' /\ FlagsOK'
      /\ load' \in LoadOperations /\ job' \in Jobs /\ cmp' \in Comparisons
  BY DEF ChildOK, BackendOK, RequestOK, FlagsOK
<1>3. Framed'
  BY ConstantsAssumption, ThreadsAssumption DEF Goto, SchedOK, Framed, Threads
<1>4. Started'
  BY ConstantsAssumption, ThreadsAssumption DEF Goto, SchedOK, Framed,
     Started, Booting, Threads
<1>5. OneResident'
  BY DEF OneResident
<1> QED
  BY <1>1, <1>2, <1>3, <1>4, <1>5

\* poll_child after stop_child: IInv is kept.
LEMMA PollStoppedKeeps ==
  ASSUME IInv, NEW label \in {"poll_cancelled", "poll_mismatch"}, NEW outcome
         \in {"cancelled", "failed"}, PollStopped(label, outcome)
  PROVE  IInv'
<1> USE DEF IInv, TypeOK, PollStopped, child, backend, prefs, request, flags
<1>1. SchedOK'
  BY ConstantsAssumption, ThreadsAssumption DEF Holds, Leave, Release, Goto,
     SchedOK, Threads, Labels, Backs, CallBacks, Models, Modes, NoCall
<1>2. /\ ChildOK' /\ BackendOK' /\ RequestOK' /\ FlagsOK' /\ job' \in Jobs
      /\ cmp' \in Comparisons
  BY DEF ChildOK, BackendOK, RequestOK, FlagsOK
<1>3. load' \in LoadOperations
  BY LoadTypes DEF ChildOK
<1>4. Framed'
  BY ConstantsAssumption, ThreadsAssumption DEF Holds, Leave, Release, Goto,
     SchedOK, Framed, Threads, NoCall
<1>5. Started'
  BY ConstantsAssumption, ThreadsAssumption DEF Holds, Leave, Release, Goto,
     SchedOK, Framed, Started, Booting, Threads, NoCall
<1>6. OneResident'
  BY DEF OneResident
<1> QED
  BY <1>1, <1>2, <1>3, <1>4, <1>5, <1>6

\* poll_child once the child is gone: IInv is kept.
LEMMA PollAfterReapKeeps ==
  ASSUME IInv, PollAfterReap
  PROVE  IInv'
<1> USE DEF IInv, TypeOK, PollAfterReap, child, backend, prefs, request, flags
<1>1. SchedOK'
  BY ConstantsAssumption, ThreadsAssumption DEF Holds, Leave, Release,
     CallStart, CallStop, Goto, SchedOK, BackendOK, Threads, Labels, Backs,
     CallBacks, Models, Modes, NoCall
<1>2. /\ ChildOK' /\ BackendOK' /\ RequestOK' /\ job' \in Jobs
      /\ cmp' \in Comparisons
  BY DEF ChildOK, BackendOK, RequestOK
<1>3. FlagsOK'
  BY DEF FlagsOK, CallStart
<1>4. load' \in LoadOperations
  BY LoadTypes DEF ChildOK, CallStart
<1>5. Framed'
  BY ConstantsAssumption, ThreadsAssumption DEF Holds, Leave, Release,
     CallStart, CallStop, Goto, SchedOK, Framed, Threads, NoCall
<1>6. Started'
  BY ConstantsAssumption, ThreadsAssumption DEF Holds, Leave, Release,
     CallStart, CallStop, Goto, SchedOK, Framed, Started, Booting, Threads,
     NoCall
<1>7. OneResident'
  BY DEF OneResident
<1> QED
  BY <1>1, <1>2, <1>3, <1>4, <1>5, <1>6, <1>7

\* poll_child after the CPU restart: IInv is kept.
LEMMA PollRestartedKeeps ==
  ASSUME IInv, PollRestarted
  PROVE  IInv'
<1> USE DEF IInv, TypeOK, PollRestarted, child, backend, prefs, request, flags
<1>1. SchedOK'
  BY ConstantsAssumption, ThreadsAssumption DEF Holds, Leave, Release, Goto,
     SchedOK, Threads, Labels, Backs, CallBacks, Models, Modes, NoCall
<1>2. /\ ChildOK' /\ BackendOK' /\ RequestOK' /\ FlagsOK'
      /\ load' \in LoadOperations /\ job' \in Jobs /\ cmp' \in Comparisons
  BY DEF ChildOK, BackendOK, RequestOK, FlagsOK
<1>3. Framed'
  BY ConstantsAssumption, ThreadsAssumption DEF Holds, Leave, Release, Goto,
     SchedOK, Framed, Threads, NoCall
<1>4. Started'
  BY ConstantsAssumption, ThreadsAssumption DEF Holds, Leave, Release, Goto,
     SchedOK, Framed, Started, Booting, Threads, NoCall
<1>5. OneResident'
  BY DEF OneResident
<1> QED
  BY <1>1, <1>2, <1>3, <1>4, <1>5

\* monitor_main's loop: IInv is kept.
LEMMA MonitorLoopKeeps ==
  ASSUME IInv, MonitorLoop
  PROVE  IInv'
<1> USE DEF IInv, TypeOK, MonitorLoop, child, backend, prefs, request, flags
<1>1. SchedOK'
  BY ConstantsAssumption, ThreadsAssumption DEF Goto, SchedOK, Threads, Labels
<1>2. /\ ChildOK' /\ BackendOK' /\ RequestOK' /\ FlagsOK'
      /\ load' \in LoadOperations /\ job' \in Jobs /\ cmp' \in Comparisons
  BY DEF ChildOK, BackendOK, RequestOK, FlagsOK
<1>3. Framed'
  BY ConstantsAssumption, ThreadsAssumption DEF Goto, SchedOK, Framed, Threads
<1>4. Started'
  BY ConstantsAssumption, ThreadsAssumption DEF Goto, SchedOK, Framed,
     Started, Booting, Threads
<1>5. OneResident'
  BY DEF OneResident
<1> QED
  BY <1>1, <1>2, <1>3, <1>4, <1>5

-----------------------------------------------------------------------------
(* The model job.                                                          *)

\* model_job's last critical section begins: IInv is kept.
LEMMA JobDecideKeeps ==
  ASSUME IInv, JobDecide
  PROVE  IInv'
<1> USE DEF IInv, TypeOK, JobDecide, child, backend, prefs, request, flags
<1>1. SchedOK'
  BY ConstantsAssumption, ThreadsAssumption DEF Free, CallStart, CallStop,
     Goto, SchedOK, SavedMode, BackendOK, Jobs, Threads, Labels, Backs,
     CallBacks, Models, Modes
<1>2. /\ ChildOK' /\ BackendOK' /\ RequestOK' /\ cmp' \in Comparisons
  BY DEF ChildOK, BackendOK, RequestOK
<1>3. FlagsOK'
  BY DEF FlagsOK, CallStart
<1>4. load' \in LoadOperations
  BY LoadTypes DEF ChildOK, CallStart
<1>5. job' \in Jobs
  BY DEF Jobs
<1>6. Framed'
  BY ConstantsAssumption, ThreadsAssumption DEF Free, CallStart, CallStop,
     Goto, SchedOK, Framed, Threads
<1>7. Started'
  BY ConstantsAssumption, ThreadsAssumption DEF Free, CallStart, CallStop,
     Goto, SchedOK, Framed, Started, Booting, Threads, Jobs
<1>8. OneResident'
  BY DEF OneResident
<1> QED
  BY <1>1, <1>2, <1>3, <1>4, <1>5, <1>6, <1>7, <1>8

\* model_job saves the selection: IInv is kept.
LEMMA JobStartedKeeps ==
  ASSUME IInv, JobStarted
  PROVE  IInv'
<1> USE DEF IInv, TypeOK, JobStarted, child, backend, prefs, request, flags
<1>1. SchedOK'
  BY ConstantsAssumption, ThreadsAssumption DEF Holds, Goto, SchedOK, Threads,
     Labels
<1>2. /\ ChildOK' /\ RequestOK' /\ FlagsOK' /\ load' \in LoadOperations
      /\ job' \in Jobs /\ cmp' \in Comparisons
  BY DEF ChildOK, RequestOK, FlagsOK
<1>3. BackendOK'
  BY DEF BackendOK, Jobs
<1>4. Framed'
  BY ConstantsAssumption, ThreadsAssumption DEF Holds, Goto, SchedOK, Framed,
     Threads
<1>5. Started'
  BY ConstantsAssumption, ThreadsAssumption DEF Holds, Goto, SchedOK, Framed,
     Started, Booting, Threads
<1>6. OneResident'
  BY DEF OneResident
<1> QED
  BY <1>1, <1>2, <1>3, <1>4, <1>5, <1>6

\* model_job ends: IInv is kept.
LEMMA JobTailKeeps ==
  ASSUME IInv, JobTail
  PROVE  IInv'
<1> USE DEF IInv, TypeOK, JobTail, child, backend, prefs, request, flags
<1>1. SchedOK'
  BY ConstantsAssumption, ThreadsAssumption DEF Holds, Leave, Release, Goto,
     SchedOK, Threads, Labels, Backs, CallBacks, Models, Modes, NoCall
<1>2. /\ ChildOK' /\ BackendOK' /\ RequestOK' /\ FlagsOK' /\ cmp' \in Comparisons
  BY DEF ChildOK, BackendOK, RequestOK, FlagsOK
<1>3. load' \in LoadOperations
  BY LoadTypes DEF ChildOK
<1>4. job' \in Jobs
  BY DEF Jobs
<1>5. Framed'
  BY ConstantsAssumption, ThreadsAssumption DEF Holds, Leave, Release, Goto,
     SchedOK, Framed, Threads, NoCall
<1>6. Started'
  BY ConstantsAssumption, ThreadsAssumption DEF Holds, Leave, Release, Goto,
     SchedOK, Framed, Started, Booting, Threads, NoCall, Jobs
<1>7. OneResident'
  BY DEF OneResident
<1> QED
  BY <1>1, <1>2, <1>3, <1>4, <1>5, <1>6, <1>7

-----------------------------------------------------------------------------
(* Requests.                                                               *)

\* A worker's request is admitted: IInv is kept.
LEMMA GenerateKeeps ==
  ASSUME IInv, NEW w \in Workers, Generate(w)
  PROVE  IInv'
<1> USE DEF IInv, TypeOK, Generate, Admit, child, backend, prefs, request, flags
<1>1. SchedOK'
  BY ConstantsAssumption, ThreadsAssumption DEF Free, Goto, SchedOK, Threads,
     Labels
<1>2. /\ ChildOK' /\ BackendOK' /\ FlagsOK' /\ load' \in LoadOperations
      /\ job' \in Jobs /\ cmp' \in Comparisons
  BY DEF ChildOK, BackendOK, FlagsOK
<1>3. RequestOK'
  BY DEF RequestOK, ChildOK, Admit, Requesters
<1>4. Framed'
  BY ConstantsAssumption, ThreadsAssumption DEF Free, Goto, SchedOK, Framed,
     Threads
<1>5. Started'
  BY ConstantsAssumption, ThreadsAssumption DEF Free, Goto, SchedOK, Framed,
     Started, Booting, Threads
<1>6. OneResident'
  BY DEF OneResident
<1> QED
  BY <1>1, <1>2, <1>3, <1>4, <1>5, <1>6

\* The request reaches the child: IInv is kept.
LEMMA ConnectKeeps ==
  ASSUME IInv, NEW t \in Requesters, Connect(t)
  PROVE  IInv'
<1> USE DEF IInv, TypeOK, Connect, child, backend, prefs, request, flags
<1>1. SchedOK'
  BY ConstantsAssumption, ThreadsAssumption DEF Goto, SchedOK, Threads,
     Requesters, Labels
<1>2. /\ ChildOK' /\ BackendOK' /\ FlagsOK' /\ load' \in LoadOperations
      /\ job' \in Jobs /\ cmp' \in Comparisons
  BY DEF ChildOK, BackendOK, FlagsOK
<1>3. RequestOK'
  BY DEF RequestOK, ChildOK
<1>4. Framed'
  BY ConstantsAssumption, ThreadsAssumption DEF Goto, SchedOK, Framed,
     Threads, Requesters
<1>5. Started'
  BY ConstantsAssumption, ThreadsAssumption DEF Goto, SchedOK, Framed,
     Started, Booting, Threads, Requesters
<1>6. OneResident'
  BY DEF OneResident
<1> QED
  BY <1>1, <1>2, <1>3, <1>4, <1>5, <1>6

\* The child answers: IInv is kept.
LEMMA AnswerKeeps ==
  ASSUME IInv, NEW t \in Requesters, Answer(t)
  PROVE  IInv'
<1> USE DEF IInv, TypeOK, Answer, child, backend, prefs, request, flags
<1>1. SchedOK'
  BY ConstantsAssumption, ThreadsAssumption DEF Goto, SchedOK, Threads,
     Requesters, Labels
<1>2. /\ ChildOK' /\ BackendOK' /\ RequestOK' /\ FlagsOK'
      /\ load' \in LoadOperations /\ job' \in Jobs /\ cmp' \in Comparisons
  BY DEF ChildOK, BackendOK, RequestOK, FlagsOK
<1>3. Framed'
  BY ConstantsAssumption, ThreadsAssumption DEF Goto, SchedOK, Framed,
     Threads, Requesters
<1>4. Started'
  BY ConstantsAssumption, ThreadsAssumption DEF Goto, SchedOK, Framed,
     Started, Booting, Threads, Requesters
<1>5. OneResident'
  BY DEF OneResident
<1> QED
  BY <1>1, <1>2, <1>3, <1>4, <1>5

\* The request is abandoned: IInv is kept.
LEMMA AbandonKeeps ==
  ASSUME IInv, NEW t \in Requesters, Abandon(t)
  PROVE  IInv'
<1> USE DEF IInv, TypeOK, Abandon, child, backend, prefs, request, flags
<1>1. SchedOK'
  BY ConstantsAssumption, ThreadsAssumption DEF Goto, SchedOK, Threads,
     Requesters, Labels
<1>2. /\ ChildOK' /\ BackendOK' /\ FlagsOK' /\ load' \in LoadOperations
      /\ job' \in Jobs /\ cmp' \in Comparisons
  BY DEF ChildOK, BackendOK, FlagsOK
<1>3. RequestOK'
  BY DEF RequestOK, ChildOK
<1>4. Framed'
  BY ConstantsAssumption, ThreadsAssumption DEF Goto, SchedOK, Framed,
     Threads, Requesters
<1>5. Started'
  BY ConstantsAssumption, ThreadsAssumption DEF Goto, SchedOK, Framed,
     Started, Booting, Threads, Requesters
<1>6. OneResident'
  BY DEF OneResident
<1> QED
  BY <1>1, <1>2, <1>3, <1>4, <1>5, <1>6

\* observation_end of a completed request: IInv is kept.
LEMMA EndCompletedKeeps ==
  ASSUME IInv, NEW t \in Requesters, EndCompleted(t)
  PROVE  IInv'
<1> USE DEF IInv, TypeOK, EndCompleted, child, backend, prefs, request, flags
<1>1. SchedOK'
  BY ConstantsAssumption, ThreadsAssumption DEF Free, Finish, Leave, Release,
     Goto, SchedOK, Threads, Requesters, Labels, Backs, CallBacks, Models,
     Modes, NoCall
<1>2. /\ ChildOK' /\ BackendOK' /\ FlagsOK' /\ load' \in LoadOperations
      /\ job' \in Jobs
  BY DEF ChildOK, BackendOK, FlagsOK
<1>3. RequestOK'
  BY FinishTypes
<1>4. cmp' \in Comparisons
  BY ComparisonTypes
<1>5. Framed'
  BY ConstantsAssumption, ThreadsAssumption DEF Free, Finish, Leave, Release,
     Goto, SchedOK, Framed, Threads, Requesters, NoCall
<1>6. Started'
  BY ConstantsAssumption, ThreadsAssumption DEF Free, Finish, Leave, Release,
     Goto, SchedOK, Framed, Started, Booting, Threads, Requesters, NoCall,
     Comparisons
<1>7. OneResident'
  BY DEF OneResident
<1> QED
  BY <1>1, <1>2, <1>3, <1>4, <1>5, <1>6, <1>7

\* observation_end of an abandoned request: IInv is kept.
LEMMA EndAbandonedKeeps ==
  ASSUME IInv, NEW t \in Requesters, EndAbandoned(t)
  PROVE  IInv'
<1> USE DEF IInv, TypeOK, EndAbandoned, child, backend, prefs, request, flags
<1>1. SchedOK'
  BY ConstantsAssumption, ThreadsAssumption DEF Free, CallStop, Goto, SchedOK,
     BackendOK, Threads, Requesters, Labels, Backs, CallBacks, Models, Modes
<1>2. /\ ChildOK' /\ BackendOK' /\ RequestOK' /\ FlagsOK' /\ job' \in Jobs
  BY DEF ChildOK, BackendOK, RequestOK, FlagsOK
<1>3. load' \in LoadOperations
  BY LoadTypes DEF ChildOK
<1>4. cmp' \in Comparisons
  BY ComparisonTypes
<1>5. Framed'
  BY ConstantsAssumption, ThreadsAssumption DEF Free, CallStop, Goto, SchedOK,
     Framed, Threads, Requesters
<1>6. Started'
  BY ConstantsAssumption, ThreadsAssumption DEF Free, CallStop, Goto, SchedOK,
     Framed, Started, Booting, Threads, Requesters, Comparisons
<1>7. OneResident'
  BY DEF OneResident
<1> QED
  BY <1>1, <1>2, <1>3, <1>4, <1>5, <1>6, <1>7

\* observation_end restarts the child: IInv is kept.
LEMMA RequestRestartKeeps ==
  ASSUME IInv, NEW t \in Requesters, RequestRestart(t)
  PROVE  IInv'
<1> USE DEF IInv, TypeOK, RequestRestart, child, backend, prefs, request, flags
<1>1. SchedOK'
  BY ConstantsAssumption, ThreadsAssumption DEF Holds, Finish, Leave, Release,
     CallStart, CallStop, Goto, SchedOK, BackendOK, Threads, Requesters,
     Labels, Backs, CallBacks, Models, Modes, NoCall
<1>2. /\ ChildOK' /\ BackendOK' /\ job' \in Jobs /\ cmp' \in Comparisons
  BY DEF ChildOK, BackendOK
<1>3. RequestOK'
  BY FinishTypes DEF RequestOK
<1>4. FlagsOK'
  BY DEF FlagsOK, CallStart
<1>5. load' \in LoadOperations
  BY LoadTypes DEF ChildOK, CallStart
<1>6. Framed'
  BY ConstantsAssumption, ThreadsAssumption DEF Holds, Finish, Leave, Release,
     CallStart, CallStop, Goto, SchedOK, Framed, Threads, Requesters, NoCall
<1>7. Started'
  BY ConstantsAssumption, ThreadsAssumption DEF Holds, Finish, Leave, Release,
     CallStart, CallStop, Goto, SchedOK, Framed, Started, Booting, Threads,
     Requesters, NoCall
<1>8. OneResident'
  BY DEF OneResident
<1> QED
  BY <1>1, <1>2, <1>3, <1>4, <1>5, <1>6, <1>7, <1>8

\* observation_end after the restart: IInv is kept.
LEMMA RequestRestartedKeeps ==
  ASSUME IInv, NEW t \in Requesters, RequestRestarted(t)
  PROVE  IInv'
<1> USE DEF IInv, TypeOK, RequestRestarted, child, backend, prefs, request,
     flags
<1>1. SchedOK'
  BY ConstantsAssumption, ThreadsAssumption DEF Holds, Finish, Leave, Release,
     Goto, SchedOK, Threads, Requesters, Labels, Backs, CallBacks, Models,
     Modes, NoCall
<1>2. /\ ChildOK' /\ BackendOK' /\ FlagsOK' /\ load' \in LoadOperations
      /\ job' \in Jobs /\ cmp' \in Comparisons
  BY DEF ChildOK, BackendOK, FlagsOK
<1>3. RequestOK'
  BY FinishTypes
<1>4. Framed'
  BY ConstantsAssumption, ThreadsAssumption DEF Holds, Finish, Leave, Release,
     Goto, SchedOK, Framed, Threads, Requesters, NoCall
<1>5. Started'
  BY ConstantsAssumption, ThreadsAssumption DEF Holds, Finish, Leave, Release,
     Goto, SchedOK, Framed, Started, Booting, Threads, Requesters, NoCall
<1>6. OneResident'
  BY DEF OneResident
<1> QED
  BY <1>1, <1>2, <1>3, <1>4, <1>5, <1>6

-----------------------------------------------------------------------------
(* The comparison.                                                         *)

\* The comparison reads model and policy: IInv is kept.
LEMMA CompareBeginKeeps ==
  ASSUME IInv, CompareBegin
  PROVE  IInv'
<1> USE DEF IInv, TypeOK, CompareBegin, child, backend, prefs, request, flags
<1>1. SchedOK'
  BY ConstantsAssumption, ThreadsAssumption DEF Free, Goto, SchedOK, Threads,
     Labels
<1>2. /\ ChildOK' /\ BackendOK' /\ RequestOK' /\ FlagsOK'
      /\ load' \in LoadOperations /\ job' \in Jobs
  BY DEF ChildOK, BackendOK, RequestOK, FlagsOK
<1>3. cmp' \in Comparisons
  BY ComparisonTypes DEF BackendOK
<1>4. Framed'
  BY ConstantsAssumption, ThreadsAssumption DEF Free, Goto, SchedOK, Framed,
     Threads
<1>5. Started'
  BY ConstantsAssumption, ThreadsAssumption DEF Free, Goto, SchedOK, Framed,
     Started, Booting, Threads, Comparisons
<1>6. OneResident'
  BY DEF OneResident
<1> QED
  BY <1>1, <1>2, <1>3, <1>4, <1>5, <1>6

\* The comparison starts a processor: IInv is kept.
LEMMA CompareSlotKeeps ==
  ASSUME IInv, CompareSlot
  PROVE  IInv'
<1> USE DEF IInv, TypeOK, CompareSlot, child, backend, prefs, request, flags
<1>1. SchedOK'
  BY ConstantsAssumption, ThreadsAssumption DEF Free, CallStart, CallStop,
     CompareFails, Goto, SchedOK, Comparisons, SlotBackend, Threads, Labels,
     Backs, CallBacks, Models, Modes
<1>2. /\ ChildOK' /\ RequestOK' /\ job' \in Jobs
  BY DEF ChildOK, RequestOK
<1>3. BackendOK'
  BY DEF BackendOK
<1>4. FlagsOK'
  BY DEF FlagsOK, CallStart
<1>5. load' \in LoadOperations
  BY LoadTypes DEF ChildOK, CallStart
<1>6. cmp' \in Comparisons
  BY ComparisonTypes DEF CompareFails
<1>7. Framed'
  BY ConstantsAssumption, ThreadsAssumption DEF Free, CallStart, CallStop,
     CompareFails, Goto, SchedOK, Framed, Threads
<1>8. Started'
  BY ConstantsAssumption, ThreadsAssumption DEF Free, CallStart, CallStop,
     CompareFails, Goto, SchedOK, Framed, Started, Booting, Threads,
     Comparisons
<1>9. OneResident'
  BY DEF OneResident
<1> QED
  BY <1>1, <1>2, <1>3, <1>4, <1>5, <1>6, <1>7, <1>8, <1>9

\* The comparison after its start: IInv is kept.
LEMMA CompareStartedKeeps ==
  ASSUME IInv, CompareStarted
  PROVE  IInv'
<1> USE DEF IInv, TypeOK, CompareStarted, child, backend, prefs, request, flags
<1>1. SchedOK'
  BY ConstantsAssumption, ThreadsAssumption DEF Holds, CompareFails, Goto,
     SchedOK, Threads, Labels
<1>2. /\ ChildOK' /\ RequestOK' /\ FlagsOK' /\ load' \in LoadOperations
      /\ job' \in Jobs
  BY DEF ChildOK, RequestOK, FlagsOK
<1>3. BackendOK'
  BY DEF BackendOK
<1>4. cmp' \in Comparisons
  BY ComparisonTypes DEF CompareFails
<1>5. Framed'
  BY ConstantsAssumption, ThreadsAssumption DEF Holds, CompareFails, Goto,
     SchedOK, Framed, Threads
<1>6. Started'
  BY ConstantsAssumption, ThreadsAssumption DEF Holds, CompareFails, Goto,
     SchedOK, Framed, Started, Booting, Threads, Comparisons
<1>7. OneResident'
  BY DEF OneResident
<1> QED
  BY <1>1, <1>2, <1>3, <1>4, <1>5, <1>6, <1>7

\* comparison_ready: IInv is kept.
LEMMA CompareWaitKeeps ==
  ASSUME IInv, CompareWait
  PROVE  IInv'
<1> USE DEF IInv, TypeOK, CompareWait, child, backend, prefs, request, flags
<1>1. SchedOK'
  BY ConstantsAssumption, ThreadsAssumption DEF Free, CompareFails, Goto,
     SchedOK, Threads, Labels
<1>2. /\ ChildOK' /\ BackendOK' /\ RequestOK' /\ FlagsOK'
      /\ load' \in LoadOperations /\ job' \in Jobs
  BY DEF ChildOK, BackendOK, RequestOK, FlagsOK
<1>3. cmp' \in Comparisons
  BY ComparisonTypes DEF CompareFails
<1>4. Framed'
  BY ConstantsAssumption, ThreadsAssumption DEF Free, CompareFails, Goto,
     SchedOK, Framed, Threads
<1>5. Started'
  BY ConstantsAssumption, ThreadsAssumption DEF Free, CompareFails, Goto,
     SchedOK, Framed, Started, Booting, Threads, Comparisons
<1>6. OneResident'
  BY DEF OneResident
<1> QED
  BY <1>1, <1>2, <1>3, <1>4, <1>5, <1>6

\* The comparison checks the processor: IInv is kept.
LEMMA CompareCheckKeeps ==
  ASSUME IInv, CompareCheck
  PROVE  IInv'
<1> USE DEF IInv, TypeOK, CompareCheck, child, backend, prefs, request, flags
<1>1. SchedOK'
  BY ConstantsAssumption, ThreadsAssumption DEF Free, CompareFails, Goto,
     SchedOK, Threads, Labels
<1>2. /\ ChildOK' /\ BackendOK' /\ RequestOK' /\ FlagsOK'
      /\ load' \in LoadOperations /\ job' \in Jobs
  BY DEF ChildOK, BackendOK, RequestOK, FlagsOK
<1>3. cmp' \in Comparisons
  BY ComparisonTypes DEF CompareFails
<1>4. Framed'
  BY ConstantsAssumption, ThreadsAssumption DEF Free, CompareFails, Goto,
     SchedOK, Framed, Threads
<1>5. Started'
  BY ConstantsAssumption, ThreadsAssumption DEF Free, CompareFails, Goto,
     SchedOK, Framed, Started, Booting, Threads, Comparisons
<1>6. OneResident'
  BY DEF OneResident
<1> QED
  BY <1>1, <1>2, <1>3, <1>4, <1>5, <1>6

\* The comparison's next request is due: IInv is kept.
LEMMA CompareRepeatKeeps ==
  ASSUME IInv, CompareRepeat
  PROVE  IInv'
<1> USE DEF IInv, TypeOK, CompareRepeat, child, backend, prefs, request, flags
<1>1. SchedOK'
  BY ConstantsAssumption, ThreadsAssumption DEF Goto, SchedOK, Threads, Labels
<1>2. /\ ChildOK' /\ BackendOK' /\ RequestOK' /\ FlagsOK'
      /\ load' \in LoadOperations /\ job' \in Jobs /\ cmp' \in Comparisons
  BY DEF ChildOK, BackendOK, RequestOK, FlagsOK
<1>3. Framed'
  BY ConstantsAssumption, ThreadsAssumption DEF Goto, SchedOK, Framed, Threads
<1>4. Started'
  BY ConstantsAssumption, ThreadsAssumption DEF Goto, SchedOK, Framed, Started,
     Booting, Threads, Comparisons
<1>5. OneResident'
  BY DEF OneResident
<1> QED
  BY <1>1, <1>2, <1>3, <1>4, <1>5

\* The comparison's request is admitted: IInv is kept.
LEMMA CompareRequestKeeps ==
  ASSUME IInv, CompareRequest
  PROVE  IInv'
<1> USE DEF IInv, TypeOK, CompareRequest, Admit, child, backend, prefs, request,
     flags
<1>1. SchedOK'
  BY ConstantsAssumption, ThreadsAssumption DEF Free, Goto, SchedOK, Threads,
     Requesters, Labels
<1>2. /\ ChildOK' /\ BackendOK' /\ FlagsOK' /\ load' \in LoadOperations
      /\ job' \in Jobs
  BY DEF ChildOK, BackendOK, FlagsOK
<1>3. RequestOK'
  BY DEF RequestOK, ChildOK, Admit, Requesters
<1>4. cmp' \in Comparisons
  BY ComparisonTypes DEF Comparisons
<1>5. Framed'
  BY ConstantsAssumption, ThreadsAssumption DEF Free, Goto, SchedOK, Framed,
     Threads, Requesters
<1>6. Started'
  BY ConstantsAssumption, ThreadsAssumption DEF Free, Goto, SchedOK, Framed,
     Started, Booting, Threads, Requesters, Comparisons
<1>7. OneResident'
  BY DEF OneResident
<1> QED
  BY <1>1, <1>2, <1>3, <1>4, <1>5, <1>6, <1>7

\* The comparison is cancelled: IInv is kept.
LEMMA CompareStopsKeeps ==
  ASSUME IInv, CompareStops
  PROVE  IInv'
<1> USE DEF IInv, TypeOK, CompareStops, child, backend, prefs, request, flags
<1>1. SchedOK'
  BY ConstantsAssumption, ThreadsAssumption DEF Free, CompareFails, Goto,
     SchedOK, Threads, Labels
<1>2. /\ ChildOK' /\ BackendOK' /\ RequestOK' /\ FlagsOK'
      /\ load' \in LoadOperations /\ job' \in Jobs
  BY DEF ChildOK, BackendOK, RequestOK, FlagsOK
<1>3. cmp' \in Comparisons
  BY ComparisonTypes DEF CompareFails
<1>4. Framed'
  BY ConstantsAssumption, ThreadsAssumption DEF Free, CompareFails, Goto,
     SchedOK, Framed, Threads
<1>5. Started'
  BY ConstantsAssumption, ThreadsAssumption DEF Free, CompareFails, Goto,
     SchedOK, Framed, Started, Booting, Threads, Comparisons
<1>6. OneResident'
  BY DEF OneResident
<1> QED
  BY <1>1, <1>2, <1>3, <1>4, <1>5, <1>6

\* The comparison after a request: IInv is kept.
LEMMA CompareMeasuredKeeps ==
  ASSUME IInv, CompareMeasured
  PROVE  IInv'
<1> USE DEF IInv, TypeOK, CompareMeasured, child, backend, prefs, request, flags
<1>1. SchedOK'
  BY ConstantsAssumption, ThreadsAssumption DEF Free, CompareFails, Goto,
     SchedOK, Threads, Labels
<1>2. /\ ChildOK' /\ BackendOK' /\ RequestOK' /\ FlagsOK'
      /\ load' \in LoadOperations /\ job' \in Jobs
  BY DEF ChildOK, BackendOK, RequestOK, FlagsOK
<1>3. cmp' \in Comparisons
  BY ComparisonTypes DEF CompareFails
<1>4. Framed'
  BY ConstantsAssumption, ThreadsAssumption DEF Free, CompareFails, Goto,
     SchedOK, Framed, Threads
<1>5. Started'
  <2>1. pc["compare"] = "measured" /\ pc'["compare"] \in {"restore", "repeat", "slot"}
    BY ThreadsAssumption DEF CompareFails, Goto, SchedOK, Threads
  <2>2. \A u \in Threads \ {"compare"} : pc'[u] = pc[u]
    BY DEF CompareFails, Goto, SchedOK
  <2>3. cmp.running /\ cmp'.running
    BY <2>1 DEF CompareFails, Comparisons, Started
  <2>4. {"main", "job", "compare"} \subseteq Threads /\ "compare" \notin Workers
    BY ThreadsAssumption DEF Threads
  <2>5. ~Booting /\ ~Booting'
    BY <2>1, <2>2, <2>4 DEF Booting, Started
  <2> QED  BY <2>1, <2>2, <2>3, <2>4, <2>5 DEF Started
<1>6. OneResident'
  BY DEF OneResident
<1> QED
  BY <1>1, <1>2, <1>3, <1>4, <1>5, <1>6

\* The comparison restores the user's policy: IInv is kept.
LEMMA CompareRestoreKeeps ==
  ASSUME IInv, CompareRestore
  PROVE  IInv'
<1> USE DEF IInv, TypeOK, CompareRestore, child, backend, prefs, request, flags
<1>1. SchedOK'
  BY ConstantsAssumption, ThreadsAssumption DEF Free, CallStart, CallStop,
     Goto, SchedOK, Comparisons, SlotBackend, Threads, Labels, Backs,
     CallBacks, Models, Modes
<1>2. /\ ChildOK' /\ RequestOK' /\ job' \in Jobs /\ cmp' \in Comparisons
  BY DEF ChildOK, RequestOK
<1>3. BackendOK'
  BY DEF BackendOK
<1>4. FlagsOK'
  BY DEF FlagsOK, CallStart
<1>5. load' \in LoadOperations
  BY LoadTypes DEF ChildOK, CallStart
<1>6. Framed'
  BY ConstantsAssumption, ThreadsAssumption DEF Free, CallStart, CallStop,
     Goto, SchedOK, Framed, Threads
<1>7. Started'
  BY ConstantsAssumption, ThreadsAssumption DEF Free, CallStart, CallStop,
     Goto, SchedOK, Framed, Started, Booting, Threads
<1>8. OneResident'
  BY DEF OneResident
<1> QED
  BY <1>1, <1>2, <1>3, <1>4, <1>5, <1>6, <1>7, <1>8

\* The comparison after that restart: IInv is kept.
LEMMA CompareRestoredKeeps ==
  ASSUME IInv, CompareRestored
  PROVE  IInv'
<1> USE DEF IInv, TypeOK, CompareRestored, child, backend, prefs, request, flags
<1>1. SchedOK'
  BY ConstantsAssumption, ThreadsAssumption DEF Holds, Leave, Release, Goto,
     SchedOK, Threads, Labels, Backs, CallBacks, Models, Modes, NoCall
<1>2. /\ ChildOK' /\ RequestOK' /\ FlagsOK' /\ load' \in LoadOperations
      /\ job' \in Jobs /\ cmp' \in Comparisons
  BY DEF ChildOK, RequestOK, FlagsOK
<1>3. BackendOK'
  BY DEF BackendOK
<1>4. Framed'
  BY ConstantsAssumption, ThreadsAssumption DEF Holds, Leave, Release, Goto,
     SchedOK, Framed, Threads, NoCall
<1>5. Started'
  BY ConstantsAssumption, ThreadsAssumption DEF Holds, Leave, Release, Goto,
     SchedOK, Framed, Started, Booting, Threads, NoCall
<1>6. OneResident'
  BY DEF OneResident
<1> QED
  BY <1>1, <1>2, <1>3, <1>4, <1>5, <1>6

\* The comparison waits once more: IInv is kept.
LEMMA CompareRewaitKeeps ==
  ASSUME IInv, CompareRewait
  PROVE  IInv'
<1> USE DEF IInv, TypeOK, CompareRewait, child, backend, prefs, request, flags
<1>1. SchedOK'
  BY ConstantsAssumption, ThreadsAssumption DEF Free, Goto, SchedOK, Threads,
     Labels
<1>2. /\ ChildOK' /\ BackendOK' /\ RequestOK' /\ FlagsOK'
      /\ load' \in LoadOperations /\ job' \in Jobs /\ cmp' \in Comparisons
  BY DEF ChildOK, BackendOK, RequestOK, FlagsOK
<1>3. Framed'
  BY ConstantsAssumption, ThreadsAssumption DEF Free, Goto, SchedOK, Framed,
     Threads
<1>4. Started'
  BY ConstantsAssumption, ThreadsAssumption DEF Free, Goto, SchedOK, Framed,
     Started, Booting, Threads
<1>5. OneResident'
  BY DEF OneResident
<1> QED
  BY <1>1, <1>2, <1>3, <1>4, <1>5

\* The comparison ends: IInv is kept.
LEMMA CompareFinishKeeps ==
  ASSUME IInv, CompareFinish
  PROVE  IInv'
<1> USE DEF IInv, TypeOK, CompareFinish, child, backend, prefs, request, flags
<1>1. SchedOK'
  BY ConstantsAssumption, ThreadsAssumption DEF Goto, SchedOK, Threads, Labels
<1>2. /\ ChildOK' /\ BackendOK' /\ RequestOK' /\ FlagsOK'
      /\ load' \in LoadOperations /\ job' \in Jobs
  BY DEF ChildOK, BackendOK, RequestOK, FlagsOK
<1>3. cmp' \in Comparisons
  BY ComparisonTypes
<1>4. Framed'
  BY ConstantsAssumption, ThreadsAssumption DEF Goto, SchedOK, Framed, Threads
<1>5. Started'
  BY ConstantsAssumption, ThreadsAssumption DEF Goto, SchedOK, Framed,
     Started, Booting, Threads, Comparisons, NoComparison
<1>6. OneResident'
  BY DEF OneResident
<1> QED
  BY <1>1, <1>2, <1>3, <1>4, <1>5, <1>6

-----------------------------------------------------------------------------
(* HTTP workers.                                                           *)

\* Main hands a connection over: IInv is kept.
LEMMA AcceptKeeps ==
  ASSUME IInv, NEW w \in Workers, Accept(w)
  PROVE  IInv'
<1> USE DEF IInv, TypeOK, Accept, child, backend, prefs, request, flags
<1>1. SchedOK'
  BY ConstantsAssumption, ThreadsAssumption DEF Goto, SchedOK, Threads, Labels
<1>2. /\ ChildOK' /\ BackendOK' /\ RequestOK' /\ FlagsOK'
      /\ load' \in LoadOperations /\ job' \in Jobs /\ cmp' \in Comparisons
  BY DEF ChildOK, BackendOK, RequestOK, FlagsOK
<1>3. Framed'
  BY ConstantsAssumption, ThreadsAssumption DEF Goto, SchedOK, Framed, Threads
<1>4. Started'
  BY ConstantsAssumption, ThreadsAssumption DEF Goto, SchedOK, Framed,
     Started, Booting, Threads
<1>5. OneResident'
  BY DEF OneResident
<1> QED
  BY <1>1, <1>2, <1>3, <1>4, <1>5

\* A refused operation: IInv is kept.
LEMMA RefuseKeeps ==
  ASSUME IInv, NEW w \in Workers, Refuse(w)
  PROVE  IInv'
<1> USE DEF IInv, TypeOK, Refuse, child, backend, prefs, request, flags
<1>1. SchedOK'
  BY ConstantsAssumption, ThreadsAssumption DEF Goto, SchedOK, Threads, Labels
<1>2. /\ ChildOK' /\ BackendOK' /\ RequestOK' /\ FlagsOK'
      /\ load' \in LoadOperations /\ job' \in Jobs /\ cmp' \in Comparisons
  BY DEF ChildOK, BackendOK, RequestOK, FlagsOK
<1>3. Framed'
  BY ConstantsAssumption, ThreadsAssumption DEF Goto, SchedOK, Framed, Threads
<1>4. Started'
  BY ConstantsAssumption, ThreadsAssumption DEF Goto, SchedOK, Framed,
     Started, Booting, Threads
<1>5. OneResident'
  BY DEF OneResident
<1> QED
  BY <1>1, <1>2, <1>3, <1>4, <1>5

\* /app/select, /app/setup and /app/download: IInv is kept.
LEMMA PrepareKeeps ==
  ASSUME IInv, NEW w \in Workers, NEW op, NEW m \in Catalog, NEW installed \in
         BOOLEAN, Prepare(w, op, m, installed)
  PROVE  IInv'
<1> USE DEF IInv, TypeOK, Prepare, child, backend, prefs, request, flags
<1>1. SchedOK'
  BY ConstantsAssumption, ThreadsAssumption DEF Serves, JobLabel, Goto,
     SchedOK, Threads, Labels
<1>2. /\ ChildOK' /\ RequestOK' /\ cmp' \in Comparisons
  BY DEF ChildOK, RequestOK
<1>3. BackendOK'
  BY DEF BackendOK
<1>4. FlagsOK'
  BY DEF FlagsOK, BeginJob, Jobs
<1>5. load' \in LoadOperations /\ job' \in Jobs
  BY BeginJobTypes
<1>6. Framed'
  BY ConstantsAssumption, ThreadsAssumption DEF Serves, JobLabel, Goto,
     SchedOK, Framed, Started, Booting, Threads
<1>7. Started'
  BY ConstantsAssumption, ThreadsAssumption DEF Serves, JobLabel, Goto,
     SchedOK, Framed, Started, Booting, Threads, BeginJob, Jobs
<1>8. OneResident'
  BY DEF OneResident
<1> QED
  BY <1>1, <1>2, <1>3, <1>4, <1>5, <1>6, <1>7, <1>8

\* /app/remove begins: IInv is kept.
LEMMA RemoveKeeps ==
  ASSUME IInv, NEW w \in Workers, NEW m \in Catalog, Remove(w, m)
  PROVE  IInv'
<1> USE DEF IInv, TypeOK, Remove, child, backend, prefs, request, flags
<1>1. SchedOK'
  BY ConstantsAssumption, ThreadsAssumption DEF Serves, CallStop, Free, Goto,
     SchedOK, Threads, Labels, Backs, CallBacks, Models, Modes
<1>2. /\ ChildOK' /\ BackendOK' /\ RequestOK' /\ FlagsOK'
      /\ load' \in LoadOperations /\ job' \in Jobs /\ cmp' \in Comparisons
  BY DEF ChildOK, BackendOK, RequestOK, FlagsOK
<1>3. Framed'
  BY ConstantsAssumption, ThreadsAssumption DEF Serves, CallStop, Free, Goto,
     SchedOK, Framed, Threads
<1>4. Started'
  BY ConstantsAssumption, ThreadsAssumption DEF Serves, CallStop, Free, Goto,
     SchedOK, Framed, Started, Booting, Threads
<1>5. OneResident'
  BY DEF OneResident
<1> QED
  BY <1>1, <1>2, <1>3, <1>4, <1>5

\* /app/remove after stop_child: IInv is kept.
LEMMA RemovedKeeps ==
  ASSUME IInv, NEW w \in Workers, Removed(w)
  PROVE  IInv'
<1> USE DEF IInv, TypeOK, Removed, child, backend, prefs, request, flags
<1>1. SchedOK'
  BY ConstantsAssumption, ThreadsAssumption DEF Holds, Leave, Release, Goto,
     SchedOK, Threads, Labels, Backs, CallBacks, Models, Modes, NoCall
<1>2. /\ ChildOK' /\ RequestOK' /\ FlagsOK' /\ load' \in LoadOperations
      /\ job' \in Jobs /\ cmp' \in Comparisons
  BY DEF ChildOK, RequestOK, FlagsOK
<1>3. BackendOK'
  BY DEF BackendOK, SchedOK
<1>4. Framed'
  BY ConstantsAssumption, ThreadsAssumption DEF Holds, Leave, Release, Goto,
     SchedOK, Framed, Threads, NoCall
<1>5. Started'
  BY ConstantsAssumption, ThreadsAssumption DEF Holds, Leave, Release, Goto,
     SchedOK, Framed, Started, Booting, Threads, NoCall
<1>6. OneResident'
  BY DEF OneResident
<1> QED
  BY <1>1, <1>2, <1>3, <1>4, <1>5, <1>6

\* /app/stop begins: IInv is kept.
LEMMA AppStopKeeps ==
  ASSUME IInv, NEW w \in Workers, Stop(w)
  PROVE  IInv'
<1> USE DEF IInv, TypeOK, Stop, child, backend, prefs, request, flags
<1>1. SchedOK'
  BY ConstantsAssumption, ThreadsAssumption DEF Serves, Free, CallStop, Goto,
     SchedOK, Threads, Labels, Backs
<1>2. /\ ChildOK' /\ BackendOK' /\ RequestOK' /\ FlagsOK'
      /\ load' \in LoadOperations /\ job' \in Jobs /\ cmp' \in Comparisons
  BY DEF ChildOK, BackendOK, RequestOK, FlagsOK
<1>3. Framed'
  BY ConstantsAssumption, ThreadsAssumption DEF Serves, Free, CallStop, Goto,
     SchedOK, Framed, Threads
<1>4. Started'
  BY ConstantsAssumption, ThreadsAssumption DEF Serves, Free, CallStop, Goto,
     SchedOK, Framed, Started, Booting, Threads
<1>5. OneResident'
  BY DEF OneResident
<1> QED
  BY <1>1, <1>2, <1>3, <1>4, <1>5

\* /app/stop after stop_child: IInv is kept.
LEMMA StoppedKeeps ==
  ASSUME IInv, NEW w \in Workers, Stopped(w)
  PROVE  IInv'
<1> USE DEF IInv, TypeOK, Stopped, child, backend, prefs, request, flags
<1>1. SchedOK'
  BY ConstantsAssumption, ThreadsAssumption DEF Holds, Leave, Release, Goto,
     SchedOK, Threads, Labels, Backs, CallBacks, Models, Modes, NoCall
<1>2. /\ ChildOK' /\ RequestOK' /\ FlagsOK' /\ load' \in LoadOperations
      /\ job' \in Jobs /\ cmp' \in Comparisons
  BY DEF ChildOK, RequestOK, FlagsOK
<1>3. BackendOK'
  BY DEF BackendOK
<1>4. Framed'
  BY ConstantsAssumption, ThreadsAssumption DEF Holds, Leave, Release, Goto,
     SchedOK, Framed, Threads, NoCall
<1>5. Started'
  BY ConstantsAssumption, ThreadsAssumption DEF Holds, Leave, Release, Goto,
     SchedOK, Framed, Started, Booting, Threads, NoCall
<1>6. OneResident'
  BY DEF OneResident
<1> QED
  BY <1>1, <1>2, <1>3, <1>4, <1>5, <1>6

\* /app/execution: IInv is kept.
LEMMA ExecutionKeeps ==
  ASSUME IInv, NEW w \in Workers, NEW md \in Modes, Execution(w, md)
  PROVE  IInv'
<1> USE DEF IInv, TypeOK, Execution, child, backend, prefs, request, flags
<1>1. SchedOK'
  BY ConstantsAssumption, ThreadsAssumption DEF Serves, Free, CallStart,
     CallStop, Goto, SchedOK, BackendOK, Threads, Labels, Backs, CallBacks,
     Models, Modes
<1>2. /\ ChildOK' /\ RequestOK' /\ job' \in Jobs /\ cmp' \in Comparisons
  BY DEF ChildOK, RequestOK
<1>3. BackendOK'
  BY DEF BackendOK
<1>4. FlagsOK'
  BY DEF FlagsOK, CallStart
<1>5. load' \in LoadOperations
  BY LoadTypes DEF ChildOK, CallStart
<1>6. Framed'
  BY ConstantsAssumption, ThreadsAssumption DEF Serves, Free, CallStart,
     CallStop, Goto, SchedOK, Framed, Threads
<1>7. Started'
  BY ConstantsAssumption, ThreadsAssumption DEF Serves, Free, CallStart,
     CallStop, Goto, SchedOK, Framed, Started, Booting, Threads
<1>8. OneResident'
  BY DEF OneResident
<1> QED
  BY <1>1, <1>2, <1>3, <1>4, <1>5, <1>6, <1>7, <1>8

\* /app/execution after its start: IInv is kept.
LEMMA ExecutionStartedKeeps ==
  ASSUME IInv, NEW w \in Workers, ExecutionStarted(w)
  PROVE  IInv'
<1> USE DEF IInv, TypeOK, ExecutionStarted, child, backend, prefs, request,
     flags
<1>1. SchedOK'
  BY ConstantsAssumption, ThreadsAssumption DEF Holds, Leave, Release,
     CallStart, CallStop, Goto, SchedOK, BackendOK, Threads, Labels, Backs,
     CallBacks, Models, Modes, NoCall
<1>2. /\ ChildOK' /\ BackendOK' /\ RequestOK' /\ job' \in Jobs
      /\ cmp' \in Comparisons
  BY DEF ChildOK, BackendOK, RequestOK
<1>3. FlagsOK'
  BY DEF FlagsOK, CallStart
<1>4. load' \in LoadOperations
  BY LoadTypes DEF ChildOK, CallStart
<1>5. Framed'
  BY ConstantsAssumption, ThreadsAssumption DEF Holds, Leave, Release,
     CallStart, CallStop, Goto, SchedOK, Framed, Threads, NoCall
<1>6. Started'
  BY ConstantsAssumption, ThreadsAssumption DEF Holds, Leave, Release,
     CallStart, CallStop, Goto, SchedOK, Framed, Started, Booting, Threads,
     NoCall
<1>7. OneResident'
  BY DEF OneResident
<1> QED
  BY <1>1, <1>2, <1>3, <1>4, <1>5, <1>6, <1>7

\* /app/execution after the CPU fallback: IInv is kept.
LEMMA ExecutionRestoredKeeps ==
  ASSUME IInv, NEW w \in Workers, ExecutionRestored(w)
  PROVE  IInv'
<1> USE DEF IInv, TypeOK, ExecutionRestored, child, backend, prefs, request,
     flags
<1>1. SchedOK'
  BY ConstantsAssumption, ThreadsAssumption DEF Holds, Leave, Release, Goto,
     SchedOK, Threads, Labels, Backs, CallBacks, Models, Modes, NoCall
<1>2. /\ ChildOK' /\ BackendOK' /\ RequestOK' /\ FlagsOK'
      /\ load' \in LoadOperations /\ job' \in Jobs /\ cmp' \in Comparisons
  BY DEF ChildOK, BackendOK, RequestOK, FlagsOK
<1>3. Framed'
  BY ConstantsAssumption, ThreadsAssumption DEF Holds, Leave, Release, Goto,
     SchedOK, Framed, Threads, NoCall
<1>4. Started'
  BY ConstantsAssumption, ThreadsAssumption DEF Holds, Leave, Release, Goto,
     SchedOK, Framed, Started, Booting, Threads, NoCall
<1>5. OneResident'
  BY DEF OneResident
<1> QED
  BY <1>1, <1>2, <1>3, <1>4, <1>5

\* /app/performance/compare: IInv is kept.
LEMMA CompareStartKeeps ==
  ASSUME IInv, NEW w \in Workers, CompareStart(w)
  PROVE  IInv'
<1> USE DEF IInv, TypeOK, CompareStart, child, backend, prefs, request, flags
<1>1. SchedOK'
  BY ConstantsAssumption, ThreadsAssumption DEF Serves, Goto, SchedOK,
     Threads, Labels
<1>2. /\ ChildOK' /\ BackendOK' /\ RequestOK' /\ load' \in LoadOperations
      /\ job' \in Jobs
  BY DEF ChildOK, BackendOK, RequestOK
<1>3. FlagsOK'
  BY DEF FlagsOK
<1>4. cmp' \in Comparisons
  BY ComparisonTypes
<1>5. Framed'
  BY ConstantsAssumption, ThreadsAssumption DEF Serves, Goto, SchedOK, Framed,
     Started, Booting, Threads
<1>6. Started'
  BY ConstantsAssumption, ThreadsAssumption DEF Serves, Goto, SchedOK, Framed,
     Started, Booting, Threads, Comparisons
<1>7. OneResident'
  BY DEF OneResident
<1> QED
  BY <1>1, <1>2, <1>3, <1>4, <1>5, <1>6, <1>7

\* /app/activity/cancel: IInv is kept.
LEMMA ActivityCancelKeeps ==
  ASSUME IInv, NEW w \in Workers, ActivityCancel(w)
  PROVE  IInv'
<1> USE DEF IInv, TypeOK, ActivityCancel, child, backend, prefs, request, flags
<1>1. SchedOK'
  BY ConstantsAssumption, ThreadsAssumption DEF Serves, Goto, SchedOK,
     Threads, Labels
<1>2. /\ ChildOK' /\ BackendOK' /\ RequestOK' /\ load' \in LoadOperations
      /\ job' \in Jobs /\ cmp' \in Comparisons
  BY DEF ChildOK, BackendOK, RequestOK
<1>3. FlagsOK'
  BY DEF FlagsOK, Jobs
<1>4. Framed'
  BY ConstantsAssumption, ThreadsAssumption DEF Serves, Goto, SchedOK, Framed,
     Threads
<1>5. Started'
  BY ConstantsAssumption, ThreadsAssumption DEF Serves, Goto, SchedOK, Framed,
     Started, Booting, Threads
<1>6. OneResident'
  BY DEF OneResident
<1> QED
  BY <1>1, <1>2, <1>3, <1>4, <1>5, <1>6

\* The operations that only set a flag: IInv is kept.
LEMMA SetFlagKeeps ==
  ASSUME IInv, NEW w \in Workers, NEW op, SetFlag(w, op)
  PROVE  IInv'
<1> USE DEF IInv, TypeOK, SetFlag, child, backend, prefs, request, flags
<1>1. SchedOK'
  BY ConstantsAssumption, ThreadsAssumption DEF Goto, SchedOK, Threads, Labels
<1>2. /\ ChildOK' /\ BackendOK' /\ RequestOK' /\ load' \in LoadOperations
      /\ job' \in Jobs /\ cmp' \in Comparisons
  BY DEF ChildOK, BackendOK, RequestOK
<1>3. FlagsOK'
  BY DEF FlagsOK
<1>4. Framed'
  BY ConstantsAssumption, ThreadsAssumption DEF Goto, SchedOK, Framed, Threads
<1>5. Started'
  BY ConstantsAssumption, ThreadsAssumption DEF Goto, SchedOK, Framed,
     Started, Booting, Threads
<1>6. OneResident'
  BY DEF OneResident
<1> QED
  BY <1>1, <1>2, <1>3, <1>4, <1>5, <1>6

\* /app/quit-if-idle: IInv is kept.
LEMMA QuitIfIdleKeeps ==
  ASSUME IInv, NEW w \in Workers, QuitIfIdle(w)
  PROVE  IInv'
<1> USE DEF IInv, TypeOK, QuitIfIdle, child, backend, prefs, request, flags
<1>1. SchedOK'
  BY ConstantsAssumption, ThreadsAssumption DEF Serves, Goto, SchedOK,
     Threads, Labels
<1>2. /\ ChildOK' /\ BackendOK' /\ RequestOK' /\ load' \in LoadOperations
      /\ job' \in Jobs /\ cmp' \in Comparisons
  BY DEF ChildOK, BackendOK, RequestOK
<1>3. FlagsOK'
  BY DEF FlagsOK
<1>4. Framed'
  BY ConstantsAssumption, ThreadsAssumption DEF Serves, Goto, SchedOK, Framed,
     Threads
<1>5. Started'
  BY ConstantsAssumption, ThreadsAssumption DEF Serves, Goto, SchedOK, Framed,
     Started, Booting, Threads
<1>6. OneResident'
  BY DEF OneResident
<1> QED
  BY <1>1, <1>2, <1>3, <1>4, <1>5, <1>6

-----------------------------------------------------------------------------
(* The main thread.                                                        *)

\* Main starts without a model: IInv is kept.
LEMMA BootIdleKeeps ==
  ASSUME IInv, BootIdle
  PROVE  IInv'
<1> USE DEF IInv, TypeOK, BootIdle, child, backend, prefs, request, flags
<1>1. SchedOK'
  BY ConstantsAssumption, ThreadsAssumption DEF Goto, SchedOK, Threads, Labels
<1>2. /\ ChildOK' /\ BackendOK' /\ RequestOK' /\ FlagsOK'
      /\ load' \in LoadOperations /\ job' \in Jobs /\ cmp' \in Comparisons
  BY DEF ChildOK, BackendOK, RequestOK, FlagsOK
<1>3. Framed'
  BY ConstantsAssumption, ThreadsAssumption DEF Goto, SchedOK, Framed,
     Started, Booting, Threads
<1>4. Started'
  BY ConstantsAssumption, ThreadsAssumption DEF Goto, SchedOK, Framed,
     Started, Booting, Threads
<1>5. OneResident'
  BY DEF OneResident
<1> QED
  BY <1>1, <1>2, <1>3, <1>4, <1>5

\* Main starts the saved selection: IInv is kept.
LEMMA BootSelectedKeeps ==
  ASSUME IInv, BootSelected
  PROVE  IInv'
<1> USE DEF IInv, TypeOK, BootSelected, child, backend, prefs, request, flags
<1>1. SchedOK'
  BY ConstantsAssumption, ThreadsAssumption DEF JobLabel, Goto, SchedOK,
     Threads, Labels
<1>2. /\ ChildOK' /\ BackendOK' /\ RequestOK' /\ cmp' \in Comparisons
  BY DEF ChildOK, BackendOK, RequestOK
<1>3. FlagsOK'
  BY DEF FlagsOK, BeginJob, Jobs
<1>4. load' \in LoadOperations /\ job' \in Jobs
  BY BeginJobTypes
<1>5. Framed'
  BY ConstantsAssumption, ThreadsAssumption DEF JobLabel, Goto, SchedOK,
     Framed, Started, Booting, Threads
<1>6. Started'
  BY ConstantsAssumption, ThreadsAssumption DEF JobLabel, Goto, SchedOK,
     Framed, Started, Booting, Threads, BeginJob, Jobs
<1>7. OneResident'
  BY DEF OneResident
<1> QED
  BY <1>1, <1>2, <1>3, <1>4, <1>5, <1>6, <1>7

\* Main starts the --model file: IInv is kept.
LEMMA BootCustomKeeps ==
  ASSUME IInv, BootCustom
  PROVE  IInv'
<1> USE DEF IInv, TypeOK, BootCustom, child, backend, prefs, request, flags
<1>1. SchedOK'
  BY ConstantsAssumption, ThreadsAssumption DEF Free, CallStart, CallStop,
     Goto, SchedOK, SavedMode, BackendOK, Jobs, Threads, Labels, Backs,
     CallBacks, Models, Modes
<1>2. /\ ChildOK' /\ BackendOK' /\ RequestOK' /\ job' \in Jobs
      /\ cmp' \in Comparisons
  BY DEF ChildOK, BackendOK, RequestOK
<1>3. FlagsOK'
  BY DEF FlagsOK, CallStart
<1>4. load' \in LoadOperations
  BY LoadTypes DEF ChildOK, CallStart
<1>5. Framed'
  BY ConstantsAssumption, ThreadsAssumption DEF Free, CallStart, CallStop,
     Goto, SchedOK, Framed, Threads
<1>6. Started'
  BY ConstantsAssumption, ThreadsAssumption DEF Free, CallStart, CallStop,
     Goto, SchedOK, Framed, Started, Booting, Threads
<1>7. OneResident'
  BY DEF OneResident
<1> QED
  BY <1>1, <1>2, <1>3, <1>4, <1>5, <1>6, <1>7

\* Main after that start: IInv is kept.
LEMMA BootedKeeps ==
  ASSUME IInv, Booted
  PROVE  IInv'
<1> USE DEF IInv, TypeOK, Booted, child, backend, prefs, request, flags
<1>1. SchedOK'
  BY ConstantsAssumption, ThreadsAssumption DEF Holds, Goto, SchedOK, Threads,
     Labels
<1>2. /\ ChildOK' /\ BackendOK' /\ RequestOK' /\ FlagsOK'
      /\ load' \in LoadOperations /\ job' \in Jobs /\ cmp' \in Comparisons
  BY DEF ChildOK, BackendOK, RequestOK, FlagsOK
<1>3. Framed'
  BY ConstantsAssumption, ThreadsAssumption DEF Holds, Goto, SchedOK, Framed,
     Started, Booting, Threads
<1>4. Started'
  BY ConstantsAssumption, ThreadsAssumption DEF Holds, Goto, SchedOK, Framed,
     Started, Booting, Threads
<1>5. OneResident'
  BY DEF OneResident
<1> QED
  BY <1>1, <1>2, <1>3, <1>4, <1>5

\* Main leaves its accept loop: IInv is kept.
LEMMA MainCloseKeeps ==
  ASSUME IInv, MainClose
  PROVE  IInv'
<1> USE DEF IInv, TypeOK, MainClose, child, backend, prefs, request, flags
<1>1. SchedOK'
  BY ConstantsAssumption, ThreadsAssumption DEF Goto, SchedOK, Threads, Labels
<1>2. /\ ChildOK' /\ BackendOK' /\ RequestOK' /\ load' \in LoadOperations
      /\ job' \in Jobs /\ cmp' \in Comparisons
  BY DEF ChildOK, BackendOK, RequestOK
<1>3. FlagsOK'
  BY DEF FlagsOK
<1>4. Framed'
  BY ConstantsAssumption, ThreadsAssumption DEF Goto, SchedOK, Framed, Threads
<1>5. Started'
  BY ConstantsAssumption, ThreadsAssumption DEF Goto, SchedOK, Framed,
     Started, Booting, Threads
<1>6. OneResident'
  BY DEF OneResident
<1> QED
  BY <1>1, <1>2, <1>3, <1>4, <1>5, <1>6

\* Main joins the monitor: IInv is kept.
LEMMA JoinMonitorKeeps ==
  ASSUME IInv, JoinMonitor
  PROVE  IInv'
<1> USE DEF IInv, TypeOK, JoinMonitor, MainStep, child, backend, prefs, request,
     flags
<1>1. SchedOK'
  BY ConstantsAssumption, ThreadsAssumption DEF Goto, SchedOK, Threads, Labels
<1>2. /\ ChildOK' /\ BackendOK' /\ RequestOK' /\ FlagsOK'
      /\ load' \in LoadOperations /\ job' \in Jobs /\ cmp' \in Comparisons
  BY DEF ChildOK, BackendOK, RequestOK, FlagsOK
<1>3. Framed'
  BY ConstantsAssumption, ThreadsAssumption DEF Goto, SchedOK, Framed, Threads
<1>4. Started'
  BY ConstantsAssumption, ThreadsAssumption DEF Goto, SchedOK, Framed,
     Started, Booting, Threads
<1>5. OneResident'
  BY DEF OneResident
<1> QED
  BY <1>1, <1>2, <1>3, <1>4, <1>5

\* Main waits for the workers: IInv is kept.
LEMMA DrainWorkersKeeps ==
  ASSUME IInv, DrainWorkers
  PROVE  IInv'
<1> USE DEF IInv, TypeOK, DrainWorkers, MainStep, child, backend, prefs,
     request, flags
<1>1. SchedOK'
  BY ConstantsAssumption, ThreadsAssumption DEF Goto, SchedOK, Threads, Labels
<1>2. /\ ChildOK' /\ BackendOK' /\ RequestOK' /\ FlagsOK'
      /\ load' \in LoadOperations /\ job' \in Jobs /\ cmp' \in Comparisons
  BY DEF ChildOK, BackendOK, RequestOK, FlagsOK
<1>3. Framed'
  BY ConstantsAssumption, ThreadsAssumption DEF Goto, SchedOK, Framed, Threads
<1>4. Started'
  BY ConstantsAssumption, ThreadsAssumption DEF Goto, SchedOK, Framed,
     Started, Booting, Threads
<1>5. OneResident'
  BY DEF OneResident
<1> QED
  BY <1>1, <1>2, <1>3, <1>4, <1>5

\* Main joins the comparison: IInv is kept.
LEMMA JoinCompareKeeps ==
  ASSUME IInv, JoinCompare
  PROVE  IInv'
<1> USE DEF IInv, TypeOK, JoinCompare, MainStep, child, backend, prefs, request,
     flags
<1>1. SchedOK'
  BY ConstantsAssumption, ThreadsAssumption DEF Goto, SchedOK, Threads, Labels
<1>2. /\ ChildOK' /\ BackendOK' /\ RequestOK' /\ FlagsOK'
      /\ load' \in LoadOperations /\ job' \in Jobs /\ cmp' \in Comparisons
  BY DEF ChildOK, BackendOK, RequestOK, FlagsOK
<1>3. Framed'
  BY ConstantsAssumption, ThreadsAssumption DEF Goto, SchedOK, Framed, Threads
<1>4. Started'
  BY ConstantsAssumption, ThreadsAssumption DEF Goto, SchedOK, Framed,
     Started, Booting, Threads
<1>5. OneResident'
  BY DEF OneResident
<1> QED
  BY <1>1, <1>2, <1>3, <1>4, <1>5

\* Main joins the job and stops the child: IInv is kept.
LEMMA JoinJobKeeps ==
  ASSUME IInv, JoinJob
  PROVE  IInv'
<1> USE DEF IInv, TypeOK, JoinJob, child, backend, prefs, request, flags
<1>1. SchedOK'
  BY ConstantsAssumption, ThreadsAssumption DEF Free, CallStop, Goto, SchedOK,
     Threads, Labels, Backs
<1>2. /\ ChildOK' /\ BackendOK' /\ RequestOK' /\ FlagsOK'
      /\ load' \in LoadOperations /\ job' \in Jobs /\ cmp' \in Comparisons
  BY DEF ChildOK, BackendOK, RequestOK, FlagsOK
<1>3. Framed'
  BY ConstantsAssumption, ThreadsAssumption DEF Free, CallStop, Goto, SchedOK,
     Framed, Threads
<1>4. Started'
  BY ConstantsAssumption, ThreadsAssumption DEF Free, CallStop, Goto, SchedOK,
     Framed, Started, Booting, Threads
<1>5. OneResident'
  BY DEF OneResident
<1> QED
  BY <1>1, <1>2, <1>3, <1>4, <1>5

\* Main is done: IInv is kept.
LEMMA MainDoneKeeps ==
  ASSUME IInv, MainDone
  PROVE  IInv'
<1> USE DEF IInv, TypeOK, MainDone, child, backend, prefs, request, flags
<1>1. SchedOK'
  BY ConstantsAssumption, ThreadsAssumption DEF Holds, Leave, Release, Goto,
     SchedOK, Threads, Labels, Backs, CallBacks, Models, Modes, NoCall
<1>2. /\ ChildOK' /\ BackendOK' /\ RequestOK' /\ FlagsOK'
      /\ load' \in LoadOperations /\ job' \in Jobs /\ cmp' \in Comparisons
  BY DEF ChildOK, BackendOK, RequestOK, FlagsOK
<1>3. Framed'
  BY ConstantsAssumption, ThreadsAssumption DEF Holds, Leave, Release, Goto,
     SchedOK, Framed, Threads, NoCall
<1>4. Started'
  BY ConstantsAssumption, ThreadsAssumption DEF Holds, Leave, Release, Goto,
     SchedOK, Framed, Started, Booting, Threads, NoCall
<1>5. OneResident'
  BY DEF OneResident
<1> QED
  BY <1>1, <1>2, <1>3, <1>4, <1>5

-----------------------------------------------------------------------------
(* The invariant of the specification.                                     *)

\* The program starts in IInv.
LEMMA InitIInv == Init => IInv
<1> SUFFICES ASSUME Init PROVE IInv
  OBVIOUS
<1> USE ConstantsAssumption, ThreadsAssumption DEF Init
<1>1. SchedOK
  BY DEF SchedOK, NoFrame, NoCall, Threads, Modes, Labels, Backs, CallBacks
<1>2. 0 \in 0..MaxGen /\ {} \in SUBSET (0..MaxGen) /\ {} \in SUBSET (1..MaxGen)
  OBVIOUS
<1>3. ChildOK /\ BackendOK /\ RequestOK /\ FlagsOK
  BY <1>2 DEF ChildOK, BackendOK, RequestOK, FlagsOK, Modes
<1>4. load \in LoadOperations
  BY DEF LoadOperations, Outcomes
<1>5. job \in Jobs
  BY DEF Jobs
<1>6. cmp \in Comparisons
  BY ComparisonTypes
<1>7. Framed
  BY DEF Framed, Threads, NoFrame
<1>8. Started
  BY DEF Started, Booting, Threads, NoFrame, NoComparison
<1>9. OneResident
  BY DEF OneResident
<1> QED
  BY <1>1, <1>2, <1>3, <1>4, <1>5, <1>6, <1>7, <1>8, <1>9 DEF IInv, TypeOK

\* A stuttering step keeps IInv.
LEMMA StutterKeeps ==
  ASSUME IInv, UNCHANGED vars
  PROVE  IInv'
<1> USE DEF IInv, TypeOK, vars, sched, child, backend, prefs, request, flags
<1>1. SchedOK' /\ ChildOK' /\ BackendOK' /\ RequestOK' /\ FlagsOK'
  BY DEF SchedOK, ChildOK, BackendOK, RequestOK, FlagsOK
<1>2. load' \in LoadOperations /\ job' \in Jobs /\ cmp' \in Comparisons
  OBVIOUS
<1>3. Framed' /\ Started' /\ OneResident'
  BY DEF Framed, Started, Booting, OneResident
<1> QED
  BY <1>1, <1>2, <1>3

\* Every step keeps IInv.
LEMMA NextIInv == IInv /\ [Next]_vars => IInv'
<1> SUFFICES ASSUME IInv, [Next]_vars PROVE IInv'
  OBVIOUS
<1>1. CASE Monitor
  BY <1>1, PollCancelledKeeps, PollReapedKeeps, PollTimeoutKeeps, PollReadyKeeps,
     PollMismatchKeeps, PollNothingKeeps, PollStoppedKeeps, PollAfterReapKeeps,
     PollRestartedKeeps, MonitorLoopKeeps DEF Monitor
<1>2. CASE Job
  BY <1>2, JobDecideKeeps, JobStartedKeeps, JobTailKeeps DEF Job
<1>3. CASE Compare
  BY <1>3, CompareBeginKeeps, CompareSlotKeeps, CompareStartedKeeps,
     CompareWaitKeeps, CompareCheckKeeps, CompareRepeatKeeps, CompareRequestKeeps,
     CompareStopsKeeps, CompareMeasuredKeeps, CompareRestoreKeeps,
     CompareRestoredKeeps, CompareRewaitKeeps, CompareFinishKeeps DEF Compare
<1>4. CASE Main
  BY <1>4, BootIdleKeeps, BootSelectedKeeps, BootCustomKeeps, BootedKeeps,
     MainCloseKeeps, JoinMonitorKeeps, DrainWorkersKeeps, JoinCompareKeeps,
     JoinJobKeeps, MainDoneKeeps DEF Main
<1>5. ASSUME NEW w \in Workers, Accept(w) \/ Worker(w) PROVE IInv'
  BY <1>5, AcceptKeeps, RefuseKeeps, GenerateKeeps, PrepareKeeps, RemoveKeeps,
     RemovedKeeps, AppStopKeeps, StoppedKeeps, ExecutionKeeps,
     ExecutionStartedKeeps, ExecutionRestoredKeeps, CompareStartKeeps,
     ActivityCancelKeeps, SetFlagKeeps, QuitIfIdleKeeps DEF Worker
<1>6. ASSUME NEW t \in Requesters, Request(t) PROVE IInv'
  BY <1>6, ConnectKeeps, AnswerKeeps, AbandonKeeps, EndCompletedKeeps,
     EndAbandonedKeeps, RequestRestartKeeps, RequestRestartedKeeps DEF Request
<1>7. ASSUME NEW t \in Threads, StopBegin(t) \/ StopEnd(t) \/ SpawnOk(t) \/ SpawnFail(t)
      PROVE  IInv'
  BY <1>7, StopBeginKeeps, StopEndKeeps, SpawnOkKeeps, SpawnFailKeeps
<1>8. ASSUME NEW g \in 1..MaxGen, ChildExit(g) PROVE IInv'
  BY <1>8, ChildExitKeeps
<1>9. CASE Terminated \/ UNCHANGED vars
  BY <1>9, StutterKeeps DEF Terminated
<1> QED
  BY <1>1, <1>2, <1>3, <1>4, <1>5, <1>6, <1>7, <1>8, <1>9 DEF Next

\* IInv is an invariant of the specification.
THEOREM Inductive == Spec => []IInv
  BY InitIInv, NextIInv, PTL DEF Spec

\* Every variable keeps its type.
THEOREM TypesAreKept == Spec => []TypeOK
<1>1. IInv => TypeOK
  BY DEF IInv
<1> QED
  BY <1>1, Inductive, PTL

\* Two children are never resident together, and every process that runs is the
\* one app.child.pid names, whatever the threads do during stop_child's naps.
THEOREM OneResidentChild == Spec => []OneResident
<1>1. IInv => OneResident
  BY DEF IInv
<1> QED
  BY <1>1, Inductive, PTL
=============================================================================
