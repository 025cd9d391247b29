------------------------ MODULE SupervisorSteps_proofs ------------------------
(***************************************************************************)
(* What a step of Supervisor may never do: take readiness from a child     *)
(* that is answering, forget an acknowledged cancel, or save a selection   *)
(* that has not started; and that Supervisor implements ModelService.      *)
(*                                                                         *)
(* The three are facts about single steps, but about steps in the middle   *)
(* of stop_child and start_child_mode: what the step assumes was decided   *)
(* several steps earlier, under the mutex (HeldBy) or before a nap (Naps,  *)
(* JobCall).  LInv says what is left of those decisions.  It is inductive  *)
(* given IInv and RInv.                                                    *)
(*                                                                         *)
(* The refinement needs only IInv and RInv: View reads what the service    *)
(* shows from the one thread that has a request, and every other step is   *)
(* Behind it.                                                              *)
(***************************************************************************)
EXTENDS SupervisorRequests_proofs

\* The places a thread reaches only with the mutex, and keeps it.
HeldLabels == {"stop", "spawn", "job_tail"} \union (Backs \ {"none"})
                                            \union (CallBacks \ {"none"})

HeldBy == \A t \in Threads : pc[t] \in HeldLabels => mutex = t

\* stop_child is entered without a request, or for a child that is not ready.
Talking == \E u \in Requesters : pc[u] \in {"admitted", "talk"}
Quiet ==
    /\ \A t \in Threads : pc[t] = "stop" /\ ready => ~Talking
    /\ pc["monitor"] = "poll_reaped" => ~ready

\* A child that stop_child naps over is one that was spawned, and is not ready
\* while it is the current one.
Naps ==
    \A t \in Threads : pc[t] = "nap" =>
        /\ 1 <= frame[t].target /\ frame[t].target <= generation
        /\ frame[t].target = pid => stopping /\ ~ready

\* The job starts its own model, and finds it started.
JobCall ==
    /\ pc["job"] = "spawn" \/ frame["job"].back = "spawn" => call["job"].model = job.model
    /\ pc["job"] = "job_started" /\ pid # 0 => model = job.model

\* The cancel of a load is also the cancel of the job that would start it.
Cancels == loadCancelled /\ job.running /\ job.activate => cancelled

\* A switch of the processor that failed has ended its operation.
SwitchFailed == \A w \in Workers : pc[w] = "exec_started" /\ pid = 0 => load.out # "running"

\* Nothing is cancelled before the first client.
BootUncancelled == pc["main"] = "boot" => ~loadCancelled

\* The inductive invariant.
LInv == HeldBy /\ Quiet /\ Naps /\ JobCall /\ Cancels /\ SwitchFailed /\ BootUncancelled

-----------------------------------------------------------------------------
(* Steps that only move a thread.                                          *)

\* A thread goes on outside start_child_mode, or gives the mutex up; what LInv
\* is about changes in its favour or not at all.
Moves ==
    /\ \A u \in Threads : pc'[u] = pc[u] \/ pc'[u] \notin HeldLabels \union {"nap", "boot"}
    /\ mutex' # mutex => mutex = "none" \/ pc'[mutex] \notin HeldLabels
    /\ Talking' => Talking \/ Free
    /\ UNCHANGED <<frame, pid, generation, ready, stopping, job>>
    /\ call'["job"] = call["job"]
    /\ model' = model \/ mutex \in Workers
    /\ load.out # "running" => load'.out # "running"
    /\ loadCancelled' => loadCancelled \/ pc["main"] # "boot"
    /\ Cancels'

\* A step that only moves a thread keeps LInv.
LEMMA MovesKeep ==
    ASSUME IInv, RInv, LInv, Moves
    PROVE  LInv'
<1> USE ThreadsAssumption
<1>1. HeldBy'
  BY DEF IInv, TypeOK, SchedOK, LInv, Moves, HeldBy, Threads
<1>2. Quiet'
  <2>1. Free => \A t \in Threads : pc[t] # "stop"
    BY DEF IInv, LInv, HeldBy, HeldLabels, Free, Threads
  <2>2. \A t \in Threads : pc'[t] = "stop" => pc[t] = "stop"
    BY DEF Moves, HeldLabels
  <2>3. pc'["monitor"] = "poll_reaped" => pc["monitor"] = "poll_reaped"
    BY DEF Moves, HeldLabels, Backs, Threads
  <2> QED BY <2>1, <2>2, <2>3 DEF LInv, Quiet, Moves
<1>3. Naps'
  BY DEF LInv, Naps, Moves
<1>4. JobCall'
  <2>1. /\ pc'["job"] = "spawn" => pc["job"] = "spawn"
        /\ pc'["job"] = "job_started" => pc["job"] = "job_started"
    BY DEF Moves, HeldLabels, CallBacks, Threads
  <2>2. pc["job"] = "job_started" => mutex = "job"
    BY DEF LInv, HeldBy, HeldLabels, CallBacks, Threads
  <2>3. "job" \notin Workers
    OBVIOUS
  <2> QED BY <2>1, <2>2, <2>3 DEF LInv, JobCall, Moves
<1>5. SwitchFailed'
  <2>1. \A w \in Workers : pc'[w] = "exec_started" => pc[w] = "exec_started"
    BY DEF Moves, HeldLabels, CallBacks, Threads
  <2> QED BY <2>1 DEF LInv, SwitchFailed, Moves
<1>6. BootUncancelled'
  BY DEF LInv, BootUncancelled, Moves, Threads
<1> QED BY <1>1, <1>2, <1>3, <1>4, <1>5, <1>6 DEF LInv, Moves

\* The monitor, outside stop_child and start_child_mode.
LEMMA MonitorMoves ==
    ASSUME IInv, RInv, LInv, PollNothing \/ PollRestarted \/ MonitorLoop
                            \/ PollStopped("poll_cancelled", "cancelled")
                            \/ PollStopped("poll_mismatch", "failed")
    PROVE  Moves
<1> USE ThreadsAssumption DEF IInv, TypeOK, SchedOK, LInv, Cancels, Moves, Threads,
     Requesters, HeldLabels, Backs, CallBacks, Talking, Free, Goto, child, backend, prefs,
     request, flags
<1>1. CASE PollNothing
  BY <1>1 DEF PollNothing
<1>2. CASE MonitorLoop
  BY <1>2 DEF MonitorLoop
<1>3. CASE PollRestarted
  BY <1>3 DEF PollRestarted, Holds, Leave, Release, NoCall
<1>4. CASE PollStopped("poll_cancelled", "cancelled")
  BY <1>4 DEF PollStopped, EndLoad, LoadOperations, Holds, Leave, Release, NoCall
<1>5. CASE PollStopped("poll_mismatch", "failed")
  BY <1>5 DEF PollStopped, EndLoad, LoadOperations, Holds, Leave, Release, NoCall
<1> QED BY <1>1, <1>2, <1>3, <1>4, <1>5

\* A request, unless it restarts the child.
LEMMA RequestMoves ==
    ASSUME IInv, RInv, LInv, NEW t \in Requesters,
           Connect(t) \/ Answer(t) \/ Abandon(t) \/ EndCompleted(t) \/ RequestRestarted(t)
    PROVE  Moves
<1> USE ThreadsAssumption DEF IInv, TypeOK, SchedOK, LInv, Cancels, Moves, Threads,
     Requesters, HeldLabels, Backs, CallBacks, Talking, Free, Goto, child, backend, prefs,
     request, flags
<1>1. CASE Connect(t)
  BY <1>1 DEF Connect
<1>2. CASE Answer(t)
  BY <1>2 DEF Answer
<1>3. CASE Abandon(t)
  BY <1>3 DEF Abandon
<1>4. CASE EndCompleted(t)
  BY <1>4 DEF EndCompleted, Finish, Holds, Leave, Release, NoCall
<1>5. CASE RequestRestarted(t)
  BY <1>5 DEF RequestRestarted, Finish, Holds, Leave, Release, NoCall
<1> QED BY <1>1, <1>2, <1>3, <1>4, <1>5

\* The comparison between its children.
LEMMA CompareMoves ==
    ASSUME IInv, RInv, LInv, \/ CompareBegin \/ CompareStarted \/ CompareWait \/ CompareCheck
           \/ CompareRepeat \/ CompareRequest \/ CompareStops \/ CompareMeasured
           \/ CompareRestored \/ CompareRewait \/ CompareFinish
    PROVE  Moves
<1> USE ThreadsAssumption DEF IInv, TypeOK, SchedOK, LInv, Cancels, Moves, Threads,
     Requesters, HeldLabels, Backs, CallBacks, Talking, Free, Goto, child, backend, prefs,
     request, flags
<1>1. CASE CompareBegin
  BY <1>1 DEF CompareBegin
<1>2. CASE CompareStarted
  BY <1>2 DEF CompareStarted, CompareFails, Holds
<1>3. CASE CompareWait \/ CompareCheck
  BY <1>3 DEF CompareWait, CompareCheck, CompareFails
<1>4. CASE CompareRepeat \/ CompareRequest
  BY <1>4 DEF CompareRepeat, CompareRequest, Admit
<1>5. CASE CompareStops \/ CompareMeasured
  BY <1>5 DEF CompareStops, CompareMeasured, CompareFails
<1>6. CASE CompareRestored
  BY <1>6 DEF CompareRestored, Holds, Leave, Release, NoCall
<1>7. CASE CompareRewait \/ CompareFinish
  BY <1>7 DEF CompareRewait, CompareFinish
<1> QED BY <1>1, <1>2, <1>3, <1>4, <1>5, <1>6, <1>7

\* An HTTP worker, outside stop_child and start_child_mode.
LEMMA WorkerMoves ==
    ASSUME IInv, RInv, LInv, NEW w \in Workers,
           \/ Accept(w) \/ Refuse(w) \/ Generate(w) \/ Removed(w) \/ Stopped(w)
           \/ ExecutionRestored(w) \/ CompareStart(w) \/ ActivityCancel(w) \/ QuitIfIdle(w)
           \/ \E op \in {"cancel", "compare_cancel", "quit"} : SetFlag(w, op)
    PROVE  Moves
<1> USE ThreadsAssumption DEF IInv, TypeOK, SchedOK, LInv, Cancels, Moves, Threads,
     Requesters, HeldLabels, Backs, CallBacks, Talking, Free, Goto, child, backend, prefs,
     request, flags
<1>1. CASE Accept(w) \/ Refuse(w)
  BY <1>1 DEF Accept, Refuse
<1>2. CASE Generate(w)
  BY <1>2 DEF Generate, Admit
<1>3. CASE Removed(w) \/ Stopped(w)
  BY <1>3 DEF Removed, Stopped, Holds, Leave, Release, NoCall
<1>4. CASE ExecutionRestored(w)
  BY <1>4 DEF ExecutionRestored, Holds, Leave, Release, NoCall
<1>5. CASE CompareStart(w)
  BY <1>5 DEF CompareStart, Serves
<1>6. CASE ActivityCancel(w)
  <2>1. pc["main"] # "boot"
    BY <1>6 DEF ActivityCancel, Serves, Started, Booting
  <2>2. Cancels'
    <3>1. /\ job' = job
          /\ \/ loadCancelled' = loadCancelled /\ cancelled' = cancelled
             \/ cancelled' = (cancelled \/ job.activate)
      BY <1>6 DEF ActivityCancel
    <3>2. CASE loadCancelled' = loadCancelled /\ cancelled' = cancelled
      BY <3>1, <3>2
    <3>3. CASE cancelled' = (cancelled \/ job.activate)
      BY <3>1, <3>3, Zenon
    <3> QED BY <3>1, <3>2, <3>3
  <2> QED BY <1>6, <2>1, <2>2 DEF ActivityCancel, Serves
<1>7. CASE QuitIfIdle(w)
  BY <1>7 DEF QuitIfIdle, Serves
<1>8. CASE \E op \in {"cancel", "compare_cancel", "quit"} : SetFlag(w, op)
  BY <1>8 DEF SetFlag
<1> QED BY <1>1, <1>2, <1>3, <1>4, <1>5, <1>6, <1>7, <1>8

\* The main thread, but for its own child, its job and its last stop_child.
LEMMA MainMoves ==
    ASSUME IInv, RInv, LInv, \/ BootIdle \/ Booted \/ MainClose \/ JoinMonitor \/ DrainWorkers
           \/ JoinCompare \/ MainDone \/ Terminated \/ UNCHANGED vars
    PROVE  Moves
<1> USE ThreadsAssumption DEF IInv, TypeOK, SchedOK, LInv, Cancels, Moves, Threads,
     Requesters, HeldLabels, Backs, CallBacks, Talking, Free, Goto, child, backend, prefs,
     request, flags
<1>1. CASE BootIdle
  BY <1>1 DEF BootIdle
<1>2. CASE Booted
  BY <1>2 DEF Booted, Holds
<1>3. CASE MainClose
  BY <1>3 DEF MainClose
<1>4. CASE JoinMonitor \/ DrainWorkers \/ JoinCompare
  BY <1>4 DEF JoinMonitor, DrainWorkers, JoinCompare, MainStep
<1>5. CASE MainDone
  BY <1>5 DEF MainDone, Holds, Leave, Release, NoCall
<1>6. CASE Terminated \/ UNCHANGED vars
  BY <1>6 DEF Terminated, vars, sched
<1> QED BY <1>1, <1>2, <1>3, <1>4, <1>5, <1>6

\* A child's own exit moves no thread.
LEMMA ExitMoves ==
    ASSUME LInv, NEW g \in 1..MaxGen, ChildExit(g)
    PROVE  Moves
BY DEF ChildExit, Moves, LInv, Cancels, Talking, sched, backend, prefs, request, flags

-----------------------------------------------------------------------------
(* Steps that enter stop_child, or a section that does not.                *)

\* A download's end changes nothing else of a job.
SameJob == job'.running = job.running /\ job'.activate = job.activate /\ job'.model = job.model

\* Thread t stops the child: nobody talks to it, or it is not ready.
Enters(t, back) ==
    /\ Free \/ mutex = t
    /\ CallStop(t, back)
    /\ ready => \A u \in Requesters \ {t} : pc[u] \notin {"admitted", "talk"}
    /\ UNCHANGED <<pid, generation, ready, stopping, model, cancelled>>
    /\ loadCancelled' => loadCancelled
    /\ SameJob
    /\ IF t = "job" THEN back = "spawn" /\ call'["job"].model = job.model
                    ELSE call'["job"] = call["job"]

\* A thread that enters stop_child keeps LInv.
LEMMA EntersKeep ==
    ASSUME IInv, RInv, LInv, NEW t \in Threads, NEW back \in Backs, Enters(t, back)
    PROVE  LInv'
<1> USE ThreadsAssumption DEF IInv, TypeOK, SchedOK, Enters, CallStop, Goto, Free
<1>1. /\ mutex' = t /\ pc'[t] = "stop" /\ "none" \notin Threads
      /\ \A u \in Threads \ {t} : pc'[u] = pc[u] /\ pc[u] \notin HeldLabels
      /\ \A u \in Threads \ {t} : frame'[u] = frame[u]
      /\ frame'[t].back = back
  BY DEF LInv, HeldBy, Threads
<1>2. HeldBy'
  BY <1>1 DEF HeldBy
<1>3. Quiet'
  <2>1. Talking' => \E u \in Requesters \ {t} : pc[u] \in {"admitted", "talk"}
    BY <1>1 DEF Talking, Requesters, Threads
  <2>2. \A u \in Threads : pc'[u] = "stop" => u = t
    BY <1>1 DEF HeldLabels
  <2>3. pc'["monitor"] # "poll_reaped"
    BY <1>1 DEF HeldLabels, Backs, Threads
  <2> QED BY <2>1, <2>2, <2>3 DEF Quiet
<1>4. Naps'
  BY <1>1 DEF LInv, Naps
<1>5. JobCall'
  <2>1. pc'["job"] \notin {"spawn", "job_started"}
    BY <1>1 DEF HeldLabels, CallBacks, Threads
  <2>2. frame'["job"].back = "spawn" => t = "job" \/ frame["job"].back = "spawn"
    BY <1>1 DEF Threads
  <2> QED BY <2>1, <2>2 DEF LInv, JobCall, SameJob
<1>6. Cancels'
  BY DEF LInv, Cancels, SameJob
<1>7. SwitchFailed'
  BY <1>1 DEF SwitchFailed, HeldLabels, CallBacks, Threads
<1>8. BootUncancelled'
  BY <1>1 DEF LInv, BootUncancelled, Threads
<1> QED BY <1>2, <1>3, <1>4, <1>5, <1>6, <1>7, <1>8 DEF LInv

\* Thread t goes on in the same critical section, or begins one.
Takes(t, label) ==
    /\ Free \/ mutex = t
    /\ mutex' = t
    /\ Goto(t, label)
    /\ UNCHANGED <<frame, pid, generation, ready, stopping, model, cancelled, loadCancelled>>
    /\ SameJob
    /\ call'["job"] = call["job"]

\* So does one that keeps the mutex without stopping a child.
LEMMA TakesKeep ==
    ASSUME IInv, RInv, LInv, NEW t \in Threads, NEW label \in {"removed", "job_tail"},
           Takes(t, label)
    PROVE  LInv'
<1> USE ThreadsAssumption DEF IInv, TypeOK, SchedOK, Takes, Goto, Free
<1>1. /\ mutex' = t /\ pc'[t] \in {"removed", "job_tail"} /\ "none" \notin Threads
      /\ \A u \in Threads \ {t} : pc'[u] = pc[u] /\ pc[u] \notin HeldLabels
  BY DEF LInv, HeldBy, Threads
<1>2. HeldBy'
  BY <1>1 DEF HeldBy
<1>3. Quiet'
  <2>1. \A u \in Threads : pc'[u] # "stop"
    BY <1>1 DEF HeldLabels
  <2>2. pc'["monitor"] # "poll_reaped"
    BY <1>1 DEF HeldLabels, Backs, Threads
  <2> QED BY <2>1, <2>2 DEF Quiet
<1>4. Naps'
  BY <1>1 DEF LInv, Naps
<1>5. JobCall'
  <2>1. pc'["job"] \notin {"spawn", "job_started"}
    BY <1>1 DEF HeldLabels, CallBacks, Threads
  <2> QED BY <2>1 DEF LInv, JobCall, SameJob
<1>6. Cancels'
  BY DEF LInv, Cancels, SameJob
<1>7. SwitchFailed'
  BY <1>1 DEF SwitchFailed, HeldLabels, CallBacks, Threads
<1>8. BootUncancelled'
  BY <1>1 DEF LInv, BootUncancelled, Threads
<1> QED BY <1>2, <1>3, <1>4, <1>5, <1>6, <1>7, <1>8 DEF LInv

\* Who talks to the child is a request that was admitted.
LEMMA TalkingIsServed ==
    ASSUME IInv, RInv, NEW u \in Requesters, pc[u] \in InRequest
    PROVE  served[u] # 0 /\ generating
BY DEF IInv, RInv, Marked, Serving, RequestExclusive

\* The monitor's ways into stop_child, and the end of its reaping.
LEMMA MonitorEnters ==
    ASSUME IInv, RInv, LInv, PollCancelled \/ PollTimeout \/ PollMismatch \/ PollAfterReap
    PROVE  Moves \/ \E back \in Backs : Enters("monitor", back)
<1> USE ThreadsAssumption DEF child, backend, prefs, request, flags
<1>1. CASE PollCancelled
  <2>1. Enters("monitor", "poll_cancelled")
    BY <1>1 DEF PollCancelled, Polls, CancelsLoad, Enters, SameJob, Free
  <2> QED BY <2>1 DEF Backs
<1>2. CASE PollTimeout
  <2>1. Enters("monitor", "poll_reaped")
    BY <1>2 DEF PollTimeout, Polls, Enters, SameJob, Free
  <2> QED BY <2>1 DEF Backs
<1>3. CASE PollMismatch
  <2>1. Enters("monitor", "poll_mismatch")
    BY <1>3 DEF PollMismatch, Polls, Enters, SameJob, Free
  <2> QED BY <2>1 DEF Backs
<1>4. CASE PollAfterReap
  <2>1. CASE /\ Leave("monitor", "check")
             /\ load' = load \/ load' = EndLoad(load, "failed")
             /\ UNCHANGED <<frame, loadCancelled>>
    <3>1. Cancels'
      BY <1>4, <2>1 DEF PollAfterReap, LInv, Cancels
    <3> QED BY <1>4, <2>1, <3>1
            DEF PollAfterReap, Moves, Leave, Release, Goto, Holds, EndLoad, HeldLabels, Backs,
                CallBacks, IInv, TypeOK, SchedOK, LoadOperations, Threads, Talking, Requesters
  <2>2. CASE CallStart("monitor", EndLoad(load, "failed"), model, "cpu", "poll_restarted")
    <3>1. ~ready
      BY <1>4 DEF PollAfterReap, Holds, LInv, Quiet
    <3>2. Enters("monitor", "spawn")
      BY <1>4, <2>2, <3>1 DEF PollAfterReap, CallStart, Enters, SameJob, Holds
    <3> QED BY <3>2 DEF Backs
  <2> QED BY <1>4, <2>1, <2>2 DEF PollAfterReap
<1> QED BY <1>1, <1>2, <1>3, <1>4

\* The job's last critical section: a request would exclude the job.
LEMMA JobEnters ==
    ASSUME IInv, RInv, LInv, JobDecide \/ JobStarted
    PROVE  (\E back \in Backs : Enters("job", back)) \/ Takes("job", "job_tail")
<1> USE ThreadsAssumption DEF child, backend, prefs, request, flags
<1>1. CASE JobDecide
  <2>1. PICK ok \in BOOLEAN :
          /\ job' = [job EXCEPT !.ok = ok]
          /\ IF ok /\ job.activate /\ ~cancelled /\ ~closing
             THEN CallStart("job", load, job.model, SavedMode(job.model), "job_started")
             ELSE /\ mutex' = "job"
                  /\ Goto("job", "job_tail")
                  /\ UNCHANGED <<frame, call, load, loadCancelled>>
    BY <1>1 DEF JobDecide
  <2>2. SameJob
    BY <2>1 DEF IInv, TypeOK, Jobs, SameJob
  <2>3. CASE ok /\ job.activate /\ ~cancelled /\ ~closing
    <3>1. job.running
      BY <1>1 DEF JobDecide, IInv, Started
    <3>2. \A u \in Requesters : pc[u] \notin {"admitted", "talk"}
      BY <2>3, <3>1, TalkingIsServed DEF RInv, ExclusiveUse, InRequest
    <3>3. CallStart("job", load, job.model, SavedMode(job.model), "job_started")
      BY <2>1, <2>3
    <3>4. call'["job"].model = job.model
      BY <3>3 DEF CallStart, IInv, TypeOK, SchedOK, Threads
    <3>5. Enters("job", "spawn")
      BY <1>1, <2>2, <3>2, <3>3, <3>4 DEF JobDecide, CallStart, Enters
    <3> QED BY <3>5 DEF Backs
  <2>4. CASE ~(ok /\ job.activate /\ ~cancelled /\ ~closing)
    BY <1>1, <2>1, <2>2, <2>4 DEF JobDecide, Takes
  <2> QED BY <2>3, <2>4
<1>2. CASE JobStarted
  BY <1>2 DEF JobStarted, Takes, Holds, SameJob
<1> QED BY <1>1, <1>2

\* A request stops the child that it abandoned: it is the only one.
LEMMA RequestEnters ==
    ASSUME IInv, RInv, LInv, NEW t \in Requesters, EndAbandoned(t) \/ RequestRestart(t)
    PROVE  Moves \/ \E back \in Backs : Enters(t, back)
<1> USE ThreadsAssumption DEF child, backend, prefs, request, flags
<1>1. pc[t] \in InRequest
  BY DEF EndAbandoned, RequestRestart, Holds, InRequest
<1>2. \A u \in Requesters \ {t} : pc[u] \notin {"admitted", "talk"}
  BY <1>1, TalkingIsServed DEF InRequest, RInv, RequestExclusive
<1>3. t # "job" /\ t \in Threads /\ "job" \in Threads
  BY DEF Requesters, Threads
<1>4. CASE EndAbandoned(t)
  <2>1. Enters(t, "req_stopped")
    BY <1>2, <1>3, <1>4 DEF EndAbandoned, Enters, SameJob, IInv, TypeOK, SchedOK
  <2> QED BY <2>1 DEF Backs
<1>5. CASE Holds(t, "req_stopped") /\ UNCHANGED request
           /\ CallStart(t, load, call[t].model, call[t].mode, "req_restarted")
           /\ UNCHANGED <<child, backend, job, cancelled>>
  <2>1. Enters(t, "spawn")
    BY <1>2, <1>3, <1>5 DEF CallStart, Enters, SameJob, Holds, IInv, TypeOK, SchedOK
  <2> QED BY <2>1 DEF Backs
<1>6. CASE Holds(t, "req_stopped") /\ load' = EndLoad(load, "failed") /\ Finish(t)
           /\ UNCHANGED <<frame, loadCancelled, child, backend, job, cancelled>>
  <2>1. Cancels'
    BY <1>6 DEF LInv, Cancels
  <2> QED BY <1>3, <1>6, <2>1
          DEF Moves, Finish, Leave, Release, Goto, Holds, EndLoad, HeldLabels, Backs,
              CallBacks, IInv, TypeOK, SchedOK, LoadOperations, Threads, Talking, Requesters
<1> QED BY <1>4, <1>5, <1>6 DEF RequestRestart

\* The comparison starts a child: while it runs no worker is served.
LEMMA CompareEnters ==
    ASSUME IInv, RInv, LInv, CompareSlot \/ CompareRestore
    PROVE  Moves \/ \E back \in Backs : Enters("compare", back)
<1> USE ThreadsAssumption DEF child, backend, prefs, request, flags
<1>1. /\ pc["compare"] \in {"slot", "restore"} /\ Free
      /\ UNCHANGED <<pid, generation, ready, stopping, model, job, cancelled>>
  BY DEF CompareSlot, CompareRestore
<1>2. \A u \in Requesters : pc[u] \notin {"admitted", "talk"}
  <2>1. cmp.running
    BY <1>1 DEF IInv, Started
  <2>2. \A w \in Workers : pc[w] \notin {"admitted", "talk"}
    BY <2>1, TalkingIsServed DEF RInv, ExclusiveUse, InRequest, Requesters
  <2> QED BY <1>1, <2>2 DEF Requesters
<1>3. CASE \E l, m, md, back : CallStart("compare", l, m, md, back)
  <2>1. Enters("compare", "spawn")
    BY <1>1, <1>2, <1>3 DEF CallStart, Enters, SameJob, IInv, TypeOK, SchedOK, Threads
  <2> QED BY <2>1 DEF Backs
<1>4. CASE /\ Goto("compare", "restore") \/ Goto("compare", "finish")
           /\ UNCHANGED <<mutex, frame, call, load, loadCancelled>>
  <2>1. Cancels'
    BY <1>1, <1>4 DEF LInv, Cancels
  <2> QED BY <1>1, <1>4, <2>1
          DEF Moves, Goto, HeldLabels, Backs, CallBacks, IInv, TypeOK, SchedOK, Threads,
              Talking, Requesters
<1> QED BY <1>3, <1>4 DEF CompareSlot, CompareRestore, CompareFails

\* remove, stop and execution wait for the request to end.
LEMMA WorkerEnters ==
    ASSUME IInv, RInv, LInv, NEW w \in Workers,
           \/ \E m \in Catalog : Remove(w, m)
           \/ Stop(w) \/ ExecutionStarted(w) \/ \E md \in Modes : Execution(w, md)
    PROVE  Moves \/ Takes(w, "removed") \/ \E back \in Backs : Enters(w, back)
<1> USE ThreadsAssumption DEF child, backend, prefs, request, flags
<1>1. w # "job" /\ w \in Threads /\ "job" \in Threads /\ w \in Requesters
  BY DEF Threads, Requesters
<1>2. ~generating => \A u \in Requesters : pc[u] \notin {"admitted", "talk"}
  BY TalkingIsServed DEF InRequest
<1>3. ASSUME NEW m \in Catalog, Remove(w, m)
      PROVE  Takes(w, "removed") \/ \E back \in Backs : Enters(w, back)
  <2>1. call'["job"] = call["job"] /\ SameJob
    BY <1>1, <1>3 DEF Remove, SameJob, IInv, TypeOK, SchedOK
  <2>2. CASE CallStop(w, "removed")
    <3>1. Enters(w, "removed")
      BY <1>1, <1>2, <1>3, <2>1, <2>2 DEF Remove, Serves, Enters
    <3> QED BY <3>1 DEF Backs
  <2>3. CASE mutex' = w /\ Goto(w, "removed") /\ UNCHANGED frame
    BY <1>3, <2>1, <2>3 DEF Remove, Serves, Takes
  <2> QED BY <1>3, <2>2, <2>3 DEF Remove
<1>4. CASE Stop(w)
  <2>1. Enters(w, "stopped")
    BY <1>1, <1>2, <1>4 DEF Stop, Serves, Enters, SameJob
  <2> QED BY <2>1 DEF Backs
<1>5. ASSUME NEW md \in Modes, Execution(w, md)
      PROVE  Moves \/ \E back \in Backs : Enters(w, back)
  <2>1. CASE CallStart(w, load, model, md, "exec_started")
    <3>1. Enters(w, "spawn")
      BY <1>1, <1>2, <1>5, <2>1
         DEF Execution, Serves, CallStart, Enters, SameJob, IInv, TypeOK, SchedOK
    <3> QED BY <3>1 DEF Backs
  <2>2. CASE Goto(w, "idle") /\ UNCHANGED <<mutex, frame, call, load, loadCancelled>>
    <3>1. Cancels'
      BY <1>5, <2>2 DEF Execution, LInv, Cancels
    <3> QED BY <1>1, <1>5, <2>2, <3>1
            DEF Execution, Serves, Moves, Goto, HeldLabels, Backs, CallBacks, IInv, TypeOK,
                SchedOK, Talking, Requesters, Threads
  <2> QED BY <1>5, <2>1, <2>2 DEF Execution
<1>6. CASE ExecutionStarted(w)
  <2>1. CASE pid = 0 /\ CallStart(w, load, call[w].model, "cpu", "exec_restored")
    <3>1. ~ready
      BY <2>1 DEF RInv, Counted
    <3>2. Enters(w, "spawn")
      BY <1>1, <1>6, <2>1, <3>1
         DEF ExecutionStarted, Holds, CallStart, Enters, SameJob, IInv, TypeOK, SchedOK
    <3> QED BY <3>2 DEF Backs
  <2>2. CASE Leave(w, "idle") /\ UNCHANGED <<frame, load, loadCancelled>>
    <3>1. Cancels'
      BY <1>6, <2>2 DEF ExecutionStarted, LInv, Cancels
    <3> QED BY <1>1, <1>6, <2>2, <3>1
            DEF ExecutionStarted, Holds, Leave, Release, Moves, Goto, HeldLabels, Backs,
                CallBacks, IInv, TypeOK, SchedOK, Talking, Requesters, Threads
  <2> QED BY <1>6, <2>1, <2>2 DEF ExecutionStarted
<1> QED BY <1>3, <1>4, <1>5, <1>6

\* main's child, before there are requests, and its last stop_child, after them.
LEMMA MainEnters ==
    ASSUME IInv, RInv, LInv, BootCustom \/ JoinJob
    PROVE  \E back \in Backs : Enters("main", back)
<1> USE ThreadsAssumption DEF child, backend, prefs, request, flags
<1>1. CASE BootCustom
  <2>1. \A u \in Requesters : pc[u] \notin {"admitted", "talk"}
    BY <1>1 DEF BootCustom, IInv, Started, Booting, Requesters, Threads
  <2>2. Enters("main", "spawn")
    BY <1>1, <2>1
       DEF BootCustom, CallStart, Enters, SameJob, IInv, TypeOK, SchedOK, Threads
  <2> QED BY <2>2 DEF Backs
<1>2. CASE JoinJob
  <2>1. \A u \in Requesters : pc[u] \notin {"admitted", "talk"}
    BY <1>2 DEF JoinJob, RInv, Joined, MainAt, Requesters
  <2>2. Enters("main", "final")
    BY <1>2, <2>1 DEF JoinJob, Enters, SameJob
  <2> QED BY <2>2 DEF Backs
<1> QED BY <1>1, <1>2

-----------------------------------------------------------------------------
(* Steps that start, stop, reap or report.                                 *)

\* No other thread is in a place that holds the mutex.
LEMMA OthersOutside ==
    ASSUME IInv, LInv, NEW t \in Threads, Free \/ mutex = t
    PROVE  \A u \in Threads \ {t} : pc[u] \notin HeldLabels
BY ThreadsAssumption DEF LInv, HeldBy, Free, Threads

\* poll_child reaps a child that exited by itself.
LEMMA PollReapedSteps ==
    ASSUME IInv, RInv, LInv, PollReaped
    PROVE  LInv'
<1> USE ThreadsAssumption DEF IInv, TypeOK, SchedOK, PollReaped, Polls, Goto, backend, prefs,
     request, flags
<1>1. /\ mutex' = "monitor" /\ pc'["monitor"] = "poll_reaped" /\ "monitor" \in Threads
      /\ \A u \in Threads \ {"monitor"} : pc'[u] = pc[u] /\ pc[u] \notin HeldLabels
  BY OthersOutside DEF Threads
<1>2. HeldBy'
  BY <1>1 DEF HeldBy
<1>3. Quiet'
  BY <1>1 DEF Quiet
<1>4. Naps'
  BY <1>1 DEF LInv, Naps
<1>5. JobCall' /\ Cancels' /\ BootUncancelled'
  BY <1>1 DEF LInv, JobCall, Cancels, BootUncancelled, Threads
<1>6. SwitchFailed'
  BY <1>1 DEF SwitchFailed, HeldLabels, CallBacks, Threads
<1> QED BY <1>2, <1>3, <1>4, <1>5, <1>6 DEF LInv

\* The handshake: nobody is inside stop_child but those that nap, and then the
\* child is being stopped.
LEMMA PollReadySteps ==
    ASSUME IInv, RInv, LInv, PollReady
    PROVE  LInv'
<1> USE ThreadsAssumption DEF IInv, TypeOK, SchedOK, PollReady, Polls, Goto, request, flags
<1>1. /\ pc'["monitor"] = "check" /\ "monitor" \in Threads
      /\ \A u \in Threads \ {"monitor"} : pc'[u] = pc[u] /\ pc[u] \notin HeldLabels
  BY OthersOutside DEF Threads
<1>2. \A u \in Threads : pc'[u] \notin HeldLabels
  BY <1>1 DEF HeldLabels, Backs, CallBacks
<1>3. HeldBy'
  BY <1>2 DEF HeldBy
<1>4. Quiet'
  BY <1>1, <1>2 DEF Quiet, HeldLabels
<1>5. Naps'
  BY <1>1 DEF LInv, Naps
<1>6. JobCall' /\ Cancels' /\ BootUncancelled'
  BY <1>1 DEF LInv, JobCall, Cancels, BootUncancelled, Threads
<1>7. SwitchFailed'
  BY <1>2 DEF SwitchFailed, HeldLabels, CallBacks, Threads
<1> QED BY <1>3, <1>4, <1>5, <1>6, <1>7 DEF LInv

\* The job ends: no cancel is waiting for it any more.
LEMMA JobTailSteps ==
    ASSUME IInv, RInv, LInv, JobTail
    PROVE  LInv'
<1> USE ThreadsAssumption DEF IInv, TypeOK, SchedOK, JobTail, Holds, Leave, Release, Goto,
     child, backend, prefs, request, flags
<1>1. /\ pc'["job"] = "off" /\ "job" \in Threads
      /\ \A u \in Threads \ {"job"} : pc'[u] = pc[u] /\ pc[u] \notin HeldLabels
  BY OthersOutside DEF Threads
<1>2. \A u \in Threads : pc'[u] \notin HeldLabels
  BY <1>1 DEF HeldLabels, Backs, CallBacks
<1>3. HeldBy'
  BY <1>2 DEF HeldBy
<1>4. Quiet'
  BY <1>2 DEF Quiet, HeldLabels, Backs, Threads
<1>5. Naps'
  BY <1>1 DEF LInv, Naps
<1>6. JobCall'
  <2>1. frame["job"].back # "spawn"
    BY DEF Framed
  <2> QED BY <1>1, <2>1 DEF JobCall
<1>7. Cancels' /\ BootUncancelled'
  BY <1>1 DEF LInv, Cancels, BootUncancelled, Threads, Jobs
<1>8. SwitchFailed'
  BY <1>2 DEF SwitchFailed, HeldLabels, CallBacks, Threads
<1> QED BY <1>3, <1>4, <1>5, <1>6, <1>7, <1>8 DEF LInv

\* begin_job: an activation starts uncancelled.
BeginsJob ==
    /\ Free /\ pc["job"] = "off"
    /\ UNCHANGED <<mutex, frame, call, child, backend>>
    /\ \E m \in Catalog, activate \in BOOLEAN : BeginJob(m, activate)
    /\ \A u \in Threads : pc'[u] = pc[u] \/ pc'[u] \in {"idle", "run", "check", "work", "off"}

\* A job that is begun keeps LInv.
LEMMA BeginsJobKeeps ==
    ASSUME IInv, RInv, LInv, BeginsJob
    PROVE  LInv'
<1> USE ThreadsAssumption DEF IInv, TypeOK, SchedOK, BeginsJob, child, backend
<1>1. PICK m \in Catalog, activate \in BOOLEAN : BeginJob(m, activate)
  OBVIOUS
<1>2. \A u \in Threads : pc[u] \notin HeldLabels /\ pc'[u] \notin HeldLabels
  BY DEF Free, LInv, HeldBy, HeldLabels, Backs, CallBacks, Threads
<1>3. HeldBy'
  BY <1>2 DEF HeldBy
<1>4. Quiet'
  BY <1>2 DEF Quiet, HeldLabels, Backs, Threads
<1>5. Naps'
  BY DEF LInv, Naps
<1>6. JobCall'
  <2>1. frame["job"].back # "spawn"
    BY DEF Framed, Threads, Backs
  <2> QED BY <1>2, <2>1 DEF JobCall, HeldLabels, CallBacks, Threads
<1>7. Cancels' /\ BootUncancelled'
  <2>1. job'.activate = activate /\ (loadCancelled' => loadCancelled /\ ~activate)
    <3>1. job'.activate = activate
      BY <1>1 DEF BeginJob
    <3>2. loadCancelled' = (loadCancelled /\ ~activate)
      BY <1>1 DEF BeginJob
    <3> QED BY <3>1, <3>2, Zenon
  <2>2. pc'["main"] = "boot" => pc["main"] = "boot"
    BY DEF Threads
  <2> QED BY <2>1, <2>2 DEF LInv, Cancels, BootUncancelled
<1>8. SwitchFailed'
  BY <1>2 DEF SwitchFailed, HeldLabels, CallBacks, Threads
<1> QED BY <1>3, <1>4, <1>5, <1>6, <1>7, <1>8 DEF LInv

\* A selection, download or setup begins a job.
LEMMA PrepareBegins ==
    ASSUME IInv, RInv, LInv, NEW w \in Workers, NEW m \in Catalog, NEW installed \in BOOLEAN,
           NEW op \in {"select", "download", "setup"}, Prepare(w, op, m, installed)
    PROVE  BeginsJob
<1> DEFINE activate == ~(op = "download" \/ (op = "setup" /\ ~installed)) \/ pid = 0
<1>1. activate \in BOOLEAN /\ BeginJob(m, activate)
  BY DEF Prepare
<1> HIDE DEF activate
<1>2. Free /\ ~job.running /\ UNCHANGED <<mutex, frame, call, child, backend>>
  BY DEF Prepare, Serves
<1>3. pc["job"] = "off"
  BY <1>2 DEF IInv, Started
<1>4. pc' = [pc EXCEPT ![w] = "idle", !["job"] = JobLabel] /\ JobLabel \in {"work", "off"}
  BY DEF Prepare, JobLabel
<1>5. \A u \in Threads : pc'[u] = pc[u] \/ pc'[u] \in {"idle", "run", "check", "work", "off"}
  BY <1>4 DEF IInv, TypeOK, SchedOK
<1> QED BY <1>1, <1>2, <1>3, <1>5 DEF BeginsJob

\* So does a start with a saved selection.
LEMMA BootSelectedBegins ==
    ASSUME IInv, RInv, LInv, BootSelected
    PROVE  BeginsJob
<1>1. /\ selected \in Catalog /\ TRUE \in BOOLEAN /\ BeginJob(selected, TRUE)
      /\ Free /\ UNCHANGED <<mutex, frame, call, child, backend>>
  BY DEF BootSelected
<1>2. pc["job"] = "off"
  BY ThreadsAssumption DEF BootSelected, IInv, Started, Booting, Threads
<1>3. /\ pc' = [pc EXCEPT !["main"] = "run", !["monitor"] = "check", !["job"] = JobLabel]
      /\ JobLabel \in {"work", "off"}
  BY DEF BootSelected, JobLabel
<1>4. \A u \in Threads : pc'[u] = pc[u] \/ pc'[u] \in {"idle", "run", "check", "work", "off"}
  BY <1>3 DEF IInv, TypeOK, SchedOK
<1> QED BY <1>1, <1>2, <1>4 DEF BeginsJob

\* stop_child up to its first nap, or to its end.
LEMMA StopBeginSteps ==
    ASSUME IInv, RInv, LInv, NEW t \in Threads, StopBegin(t)
    PROVE  LInv'
<1> USE ThreadsAssumption DEF IInv, TypeOK, SchedOK, StopBegin, Holds, StopReturns, Release,
     Goto, NoFrame, backend, prefs, request, flags
<1>1. /\ \A u \in Threads \ {t} : pc'[u] = pc[u] /\ pc[u] \notin HeldLabels
      /\ \A u \in Threads \ {t} : frame'[u] = frame[u]
      /\ pc'[t] = "nap" \/ (pc'[t] = frame[t].back /\ frame'[t].back = "none" /\ mutex' = t)
  BY OthersOutside
<1>2. frame[t].back \in Backs \ {"none"}
  BY DEF Framed
<1>3. HeldBy'
  BY <1>1, <1>2 DEF HeldBy, HeldLabels, Backs, CallBacks
<1>4. Quiet'
  BY DEF Quiet
<1>5. Naps'
  <2>1. ASSUME NEW u \in Threads, u # t, pc'[u] = "nap"
        PROVE  /\ 1 <= frame'[u].target /\ frame'[u].target <= generation'
               /\ frame'[u].target = pid' => stopping' /\ ~ready'
    <3>1. /\ pc[u] = "nap" /\ frame'[u] = frame[u] /\ frame[u].target \in Nat
          /\ 1 <= frame[u].target /\ frame[u].target <= generation
          /\ frame[u].target = pid => stopping /\ ~ready
      <4>1. pc[u] = "nap" /\ frame'[u] = frame[u] /\ frame[u].target \in Nat
        BY <1>1, <2>1
      <4> QED BY <4>1 DEF LInv, Naps
    <3>2. \/ stopping' = TRUE /\ pid' = pid
          \/ pid' = 0
      OBVIOUS
    <3>3. ~ready' /\ generation' = generation
      OBVIOUS
    <3> QED BY <3>1, <3>2, <3>3
  <2>2. ASSUME pc'[t] = "nap"
        PROVE  /\ 1 <= frame'[t].target /\ frame'[t].target <= generation'
               /\ frame'[t].target = pid' => stopping' /\ ~ready'
    <3>1. frame'[t].target = pid /\ pid \in procs /\ stopping' /\ ~ready' /\ pid' = pid
          /\ generation' = generation
      BY <1>2, <2>2 DEF Backs
    <3>2. 1 <= pid /\ pid <= generation
      BY <3>1 DEF RInv, Counted
    <3> QED BY <3>1, <3>2
  <2> QED BY <2>1, <2>2 DEF Naps
<1>6. JobCall'
  <2>1. call' = call /\ model' = model /\ job' = job
    OBVIOUS
  <2>2. CASE t = "job"
    <3>1. pc'["job"] # "job_started"
      BY <1>1, <1>2, <2>2 DEF Backs
    <3>2. pc'["job"] = "spawn" \/ frame'["job"].back = "spawn" => frame["job"].back = "spawn"
      BY <1>1, <2>2
    <3> QED BY <2>1, <3>1, <3>2 DEF LInv, JobCall
  <2>3. CASE t # "job"
    <3>1. pc'["job"] \notin {"spawn", "job_started"} /\ frame'["job"] = frame["job"]
      BY <1>1, <2>3 DEF HeldLabels, CallBacks, Threads
    <3> QED BY <2>1, <3>1 DEF LInv, JobCall
  <2> QED BY <2>2, <2>3
<1>7. Cancels' /\ BootUncancelled'
  BY <1>1, <1>2 DEF LInv, Cancels, BootUncancelled, Backs, Threads
<1>8. SwitchFailed'
  BY <1>1, <1>2 DEF SwitchFailed, HeldLabels, Backs, CallBacks, Threads
<1> QED BY <1>3, <1>4, <1>5, <1>6, <1>7, <1>8 DEF LInv

\* stop_child after its last nap.
LEMMA StopEndSteps ==
    ASSUME IInv, RInv, LInv, NEW t \in Threads, StopEnd(t)
    PROVE  LInv'
<1> USE ThreadsAssumption DEF IInv, TypeOK, SchedOK, StopEnd, StopReturns, Goto, NoFrame,
     backend, prefs, request, flags
<1>1. /\ \A u \in Threads \ {t} : pc'[u] = pc[u] /\ pc[u] \notin HeldLabels
      /\ \A u \in Threads \ {t} : frame'[u] = frame[u]
      /\ pc'[t] = frame[t].back /\ frame'[t].back = "none" /\ mutex' = t
  BY OthersOutside
<1>2. frame[t].back \in Backs \ {"none"}
  BY DEF Framed
<1>3. HeldBy'
  BY <1>1, <1>2 DEF HeldBy, HeldLabels, Backs, CallBacks
<1>4. Quiet'
  BY DEF Quiet
<1>5. Naps'
  <2>1. ASSUME NEW u \in Threads, pc'[u] = "nap"
        PROVE  /\ 1 <= frame'[u].target /\ frame'[u].target <= generation'
               /\ frame'[u].target # pid'
    <3>1. u # t /\ pc[u] = "nap" /\ frame'[u] = frame[u]
      BY <1>1, <1>2, <2>1 DEF Backs
    <3> QED BY <3>1 DEF LInv, Naps
  <2> QED BY <2>1 DEF Naps
<1>6. JobCall'
  <2>1. call' = call /\ model' = model /\ job' = job
    OBVIOUS
  <2>2. CASE t = "job"
    <3>1. pc'["job"] # "job_started"
      BY <1>1, <1>2, <2>2 DEF Backs
    <3>2. pc'["job"] = "spawn" \/ frame'["job"].back = "spawn" => frame["job"].back = "spawn"
      BY <1>1, <2>2
    <3> QED BY <2>1, <3>1, <3>2 DEF LInv, JobCall
  <2>3. CASE t # "job"
    <3>1. pc'["job"] \notin {"spawn", "job_started"} /\ frame'["job"] = frame["job"]
      BY <1>1, <2>3 DEF HeldLabels, CallBacks, Threads
    <3> QED BY <2>1, <3>1 DEF LInv, JobCall
  <2> QED BY <2>2, <2>3
<1>7. Cancels' /\ BootUncancelled'
  BY <1>1, <1>2 DEF LInv, Cancels, BootUncancelled, Backs, Threads
<1>8. SwitchFailed'
  BY <1>1, <1>2 DEF SwitchFailed, HeldLabels, Backs, CallBacks, Threads
<1> QED BY <1>3, <1>4, <1>5, <1>6, <1>7, <1>8 DEF LInv

\* start_child_mode, with a child or without.
LEMMA SpawnSteps ==
    ASSUME IInv, RInv, LInv, NEW t \in Threads, SpawnOk(t) \/ SpawnFail(t)
    PROVE  LInv'
<1> USE ThreadsAssumption DEF IInv, TypeOK, SchedOK, Holds, Goto, prefs, request, flags
<1>1. /\ pc[t] = "spawn" /\ mutex = t /\ mutex' = t /\ call' = call /\ frame' = frame
      /\ job' = job /\ UNCHANGED flags /\ pc'[t] = call[t].back /\ ready' = ready
      /\ stopping' = stopping
      /\ \A u \in Threads \ {t} : pc'[u] = pc[u] /\ pc[u] \notin HeldLabels
  BY OthersOutside DEF SpawnOk, SpawnFail, child
<1>2. call[t].back \in CallBacks \ {"none"} /\ pid = 0 /\ frame[t].back # "spawn"
  BY <1>1 DEF Framed
<1>3. ~ready
  BY <1>2 DEF RInv, Counted
<1>4. HeldBy'
  BY <1>1, <1>2 DEF HeldBy, HeldLabels, CallBacks
<1>5. Quiet'
  BY <1>1, <1>3 DEF Quiet
<1>6. Naps'
  <2>1. ASSUME NEW u \in Threads, pc'[u] = "nap"
        PROVE  /\ 1 <= frame'[u].target /\ frame'[u].target <= generation'
               /\ frame'[u].target # pid'
    <3>1. u # t /\ pc[u] = "nap" /\ frame'[u] = frame[u]
      BY <1>1, <1>2, <2>1 DEF CallBacks
    <3>2. 1 <= frame[u].target /\ frame[u].target <= generation
      BY <3>1 DEF LInv, Naps
    <3>3. frame[u].target \in Nat /\ generation \in Nat
      BY DEF ChildOK
    <3>4. \/ pid' = generation + 1 /\ generation' = generation + 1
          \/ pid' = 0 /\ generation' = generation
      BY <1>2 DEF SpawnOk, SpawnFail, child
    <3> QED BY <3>1, <3>2, <3>3, <3>4
  <2> QED BY <2>1 DEF Naps
<1>7. JobCall'
  <2>1. CASE t = "job"
    <3>1. call["job"].model = job.model
      BY <1>1, <2>1 DEF LInv, JobCall
    <3>2. pid' # 0 => model' = call["job"].model
      BY <1>2, <2>1 DEF SpawnOk, SpawnFail, child
    <3> QED BY <1>1, <3>1, <3>2 DEF JobCall
  <2>2. CASE t # "job"
    <3>1. pc'["job"] \notin {"spawn", "job_started"} /\ frame'["job"] = frame["job"]
      BY <1>1, <2>2 DEF HeldLabels, CallBacks, Threads
    <3> QED BY <1>1, <3>1 DEF LInv, JobCall
  <2> QED BY <2>1, <2>2
<1>8. Cancels' /\ BootUncancelled'
  BY <1>1, <1>2 DEF LInv, Cancels, BootUncancelled, CallBacks, Threads
<1>9. SwitchFailed'
  <2>1. \A w \in Workers : pc'[w] = "exec_started" => w = t
    BY <1>1 DEF HeldLabels, CallBacks, Threads
  <2>2. pid' = 0 => load'.out # "running"
    <3>1. CASE SpawnOk(t)
      BY <3>1 DEF SpawnOk, ChildOK
    <3>2. CASE SpawnFail(t)
      BY <3>2 DEF SpawnFail, EndLoad, LoadOperations
    <3> QED BY <3>1, <3>2
  <2> QED BY <2>1, <2>2 DEF SwitchFailed
<1> QED BY <1>4, <1>5, <1>6, <1>7, <1>8, <1>9 DEF LInv

-----------------------------------------------------------------------------
(* The invariant, and what it says of every step.                          *)

\* LInv holds at the start.
LEMMA InitLInv == Init => LInv
<1> SUFFICES ASSUME Init PROVE LInv
  OBVIOUS
<1> USE ThreadsAssumption DEF Init, Threads, Requesters, NoFrame
<1>1. \A t \in Threads : pc[t] \in {"idle", "boot", "off"} /\ frame[t].back = "none"
  OBVIOUS
<1>2. HeldBy /\ Quiet /\ Naps
  BY <1>1 DEF HeldBy, HeldLabels, Backs, CallBacks, Quiet, Naps
<1>3. JobCall /\ SwitchFailed
  BY <1>1 DEF JobCall, SwitchFailed
<1>4. Cancels /\ BootUncancelled
  BY DEF Cancels, BootUncancelled
<1> QED BY <1>2, <1>3, <1>4 DEF LInv

\* The kinds of steps.
LEMMA Kinds ==
    ASSUME IInv, RInv, LInv, [Next]_vars
    PROVE  \/ Moves \/ BeginsJob \/ PollReaped \/ PollReady \/ JobTail
           \/ \E t \in Threads :
                \/ StopBegin(t) \/ StopEnd(t) \/ SpawnOk(t) \/ SpawnFail(t)
                \/ \E back \in Backs : Enters(t, back)
                \/ \E label \in {"removed", "job_tail"} : Takes(t, label)
<1>1. CASE Monitor
  <2>1. "monitor" \in Threads
    BY DEF Threads
  <2> QED BY <1>1, <2>1, MonitorMoves, MonitorEnters DEF Monitor
<1>2. CASE Job
  <2>1. "job" \in Threads
    BY DEF Threads
  <2> QED BY <1>2, <2>1, JobEnters DEF Job
<1>3. CASE Compare
  <2>1. "compare" \in Threads
    BY DEF Threads
  <2> QED BY <1>3, <2>1, CompareMoves, CompareEnters DEF Compare
<1>4. CASE Main
  <2>1. "main" \in Threads
    BY DEF Threads
  <2> QED BY <1>4, <2>1, MainMoves, MainEnters, BootSelectedBegins DEF Main
<1>5. CASE \E w \in Workers : Accept(w) \/ Worker(w)
  <2>1. PICK w \in Workers : Accept(w) \/ Worker(w)
    BY <1>5
  <2>2. w \in Threads
    BY DEF Threads
  <2> QED BY <2>1, <2>2, WorkerMoves, WorkerEnters, PrepareBegins DEF Worker
<1>6. CASE \E t \in Requesters : Request(t)
  <2>1. PICK t \in Requesters : Request(t)
    BY <1>6
  <2>2. t \in Threads
    BY DEF Threads, Requesters
  <2> QED BY <2>1, <2>2, RequestMoves, RequestEnters DEF Request
<1>7. CASE \E g \in 1..MaxGen : ChildExit(g)
  BY <1>7, ExitMoves
<1>8. CASE Terminated \/ UNCHANGED vars
  BY <1>8, MainMoves
<1> QED BY <1>1, <1>2, <1>3, <1>4, <1>5, <1>6, <1>7, <1>8 DEF Next

\* Every step keeps LInv.
LEMMA NextLInv == IInv /\ RInv /\ LInv /\ [Next]_vars => LInv'
<1> SUFFICES ASSUME IInv, RInv, LInv, [Next]_vars PROVE LInv'
  OBVIOUS
<1> QED BY Kinds, MovesKeep, BeginsJobKeeps, PollReapedSteps, PollReadySteps, JobTailSteps,
           StopBeginSteps, StopEndSteps, SpawnSteps, EntersKeep, TakesKeep

\* LInv is an invariant of the specification.
THEOREM StepInductive == Spec => []LInv
  BY InitLInv, NextLInv, Inductive, RequestInductive, PTL DEF Spec

\* Readiness goes with stop_child: at its beginning nobody talks to the child,
\* and after its naps the child is another one.
LEMMA ReadyStep ==
    ASSUME IInv, RInv, LInv, [Next]_vars, ready, ~ready', pid \in procs \ dead
    PROVE  \/ \A t \in Requesters : ~(pc[t] \in {"admitted", "talk"} /\ served[t] = pid)
           \/ \E t \in Threads : pc[t] = "nap" /\ pc'[t] # "nap" /\ frame[t].target # pid
<1>1. \E t \in Threads : StopBegin(t) \/ StopEnd(t)
  BY Kinds DEF Moves, BeginsJob, child, PollReaped, PollReady, JobTail, SpawnOk, SpawnFail,
               Enters, Takes
<1>2. ASSUME NEW t \in Threads, StopBegin(t)
      PROVE  \A u \in Requesters : pc[u] \notin {"admitted", "talk"}
  BY <1>2 DEF StopBegin, Holds, LInv, Quiet, Talking
<1>3. ASSUME NEW t \in Threads, StopEnd(t)
      PROVE  pc[t] = "nap" /\ pc'[t] # "nap" /\ frame[t].target # pid
  BY <1>3 DEF StopEnd, StopReturns, Goto, LInv, Naps, IInv, TypeOK, SchedOK, Backs
<1> QED BY <1>1, <1>2, <1>3

\* A child that is answering a request keeps its readiness, whichever thread
\* wants it stopped, but for a stop_child that napped over an earlier child.
THEOREM ServedStaysReady == Spec => ReadyUntilServed
<1>1. IInv /\ RInv /\ LInv /\ [Next]_vars =>
        (ready /\ ~ready' /\ pid \in procs \ dead =>
           \/ \A t \in Requesters : ~(pc[t] \in {"admitted", "talk"} /\ served[t] = pid)
           \/ \E t \in Threads : pc[t] = "nap" /\ pc'[t] # "nap" /\ frame[t].target # pid)
  BY ReadyStep
<1> QED BY <1>1, Inductive, RequestInductive, StepInductive, PTL DEF Spec, ReadyUntilServed

\* Who withdraws an acknowledged cancel: start_child_mode for a load that is
\* already over, a new load, a worker's next operation, or the comparison.
CancelGone ==
    \/ load'.out # "running" \/ load'.gen # load.gen
    \/ \E w \in Workers : pc[w] = "accepted" /\ pc'[w] # "accepted"
    \/ pc["compare"] # pc'["compare"]

\* No other step clears the flag of a load that goes on.
LEMMA CancelStep ==
    ASSUME IInv, RInv, LInv, [Next]_vars, loadCancelled, ~loadCancelled',
           load.out = "running", ~generating
    PROVE  CancelGone
<1> USE ThreadsAssumption DEF child, backend, prefs, request, flags
<1>1. CASE Monitor
  <2>1. PollAfterReap
    BY <1>1 DEF Monitor, PollCancelled, PollReaped, PollTimeout, PollReady, PollMismatch,
                PollNothing, PollRestarted, MonitorLoop, PollStopped
  <2>2. load.gen <= generation /\ load' = BeginLoad(generation + 1)
    BY <2>1 DEF PollAfterReap, CallStart, EndLoad, IInv, TypeOK, LoadOperations
  <2>3. load.gen \in Nat /\ generation \in Nat
    BY DEF IInv, TypeOK, LoadOperations, ChildOK
  <2> QED BY <2>2, <2>3 DEF BeginLoad, CancelGone
<1>2. CASE Job
  <2>1. JobDecide /\ job.activate /\ ~cancelled
    BY <1>2 DEF Job, JobDecide, JobStarted, JobTail
  <2>2. job.running
    BY <2>1 DEF JobDecide, IInv, Started
  <2> QED BY <2>1, <2>2 DEF LInv, Cancels
<1>3. CASE Compare
  <2>1. CompareSlot \/ CompareRestore
    BY <1>3 DEF Compare, CompareBegin, CompareStarted, CompareWait, CompareCheck,
                CompareRepeat, CompareRequest, CompareStops, CompareMeasured,
                CompareRestored, CompareRewait, CompareFinish
  <2>2. pc["compare"] \in {"slot", "restore"} /\ pc'["compare"] \notin {"slot", "restore"}
    <3>1. \E l, m, md, back : CallStart("compare", l, m, md, back)
      BY <2>1 DEF CompareSlot, CompareRestore
    <3>2. pc'["compare"] = "stop"
      BY <3>1 DEF CallStart, CallStop, Goto, IInv, TypeOK, SchedOK, Threads
    <3> QED BY <2>1, <3>2 DEF CompareSlot, CompareRestore
  <2> QED BY <2>2 DEF CancelGone
<1>4. CASE Main
  <2>1. pc["main"] = "boot"
    BY <1>4 DEF Main, BootIdle, BootSelected, BootCustom, Booted, MainClose, JoinMonitor,
                DrainWorkers, JoinCompare, JoinJob, MainDone, MainStep
  <2> QED BY <2>1 DEF LInv, BootUncancelled
<1>5. ASSUME NEW w \in Workers, Accept(w) \/ Worker(w) PROVE CancelGone
  <2>1. \/ \E op \in {"select", "download", "setup"}, m \in Catalog, installed \in BOOLEAN :
             Prepare(w, op, m, installed)
        \/ \E md \in Modes : Execution(w, md)
        \/ ExecutionStarted(w)
    BY <1>5 DEF Accept, Worker, Refuse, Generate, Admit, Remove, Removed, Stop, Stopped,
                ExecutionRestored, CompareStart, ActivityCancel, QuitIfIdle, SetFlag
  <2>2. CASE ExecutionStarted(w)
    <3>1. pid = 0 /\ pc[w] = "exec_started"
      BY <2>2 DEF ExecutionStarted, Holds
    <3> QED BY <3>1 DEF LInv, SwitchFailed
  <2>3. ASSUME NEW m, NEW installed, NEW op, Prepare(w, op, m, installed)
        PROVE  pc[w] = "accepted" /\ pc'[w] # "accepted"
    BY <2>3 DEF Prepare, Serves, JobLabel, IInv, TypeOK, SchedOK, Threads
  <2>4. ASSUME NEW md, Execution(w, md)
        PROVE  pc[w] = "accepted" /\ pc'[w] # "accepted"
    BY <2>4 DEF Execution, Serves, CallStart, CallStop, Goto, IInv, TypeOK, SchedOK, Threads
  <2> QED BY <2>1, <2>2, <2>3, <2>4 DEF CancelGone
<1>6. ASSUME NEW t \in Requesters, Request(t) PROVE FALSE
  <2>1. RequestRestart(t)
    BY <1>6 DEF Request, Connect, Answer, Abandon, EndCompleted, EndAbandoned, RequestRestarted,
                Finish
  <2>2. pc[t] \in InRequest
    BY <2>1 DEF RequestRestart, Holds, InRequest
  <2> QED BY <2>2, TalkingIsServed
<1>7. CASE \/ \E t \in Threads : StopBegin(t) \/ StopEnd(t) \/ SpawnOk(t) \/ SpawnFail(t)
           \/ \E g \in 1..MaxGen : ChildExit(g)
           \/ Terminated \/ UNCHANGED vars
  BY <1>7 DEF StopBegin, StopEnd, SpawnOk, SpawnFail, ChildExit, Terminated, vars
<1> QED BY <1>1, <1>2, <1>3, <1>4, <1>5, <1>6, <1>7 DEF Next

\* An acknowledged cancel of a load reaches that load, although every start of
\* a child clears the flag.
THEOREM CancelIsKept == Spec => CancelKept
<1>1. IInv /\ RInv /\ LInv /\ [Next]_vars =>
        (loadCancelled /\ ~loadCancelled' /\ load.out = "running" /\ ~generating =>
           \/ load'.out # "running" \/ load'.gen # load.gen
           \/ \E w \in Workers : pc[w] = "accepted" /\ pc'[w] # "accepted"
           \/ pc["compare"] # pc'["compare"])
  BY CancelStep DEF CancelGone
<1> QED BY <1>1, Inductive, RequestInductive, StepInductive, PTL DEF Spec, CancelKept

\* The selection is written by the job whose model has started, by a
\* preparation that finds no child, and by the removal of the selected model.
Chosen ==
    \/ pid # 0 /\ selected' = model
    \/ pid = 0 /\ ~job.running
    \/ selected' = NoModel /\ \E w \in Workers : Holds(w, "removed")

\* No other step changes it.
LEMMA SelectionStep ==
    ASSUME IInv, RInv, LInv, [Next]_vars, selected' # selected
    PROVE  Chosen
<1> USE DEF prefs
<1>1. CASE Monitor
  BY <1>1 DEF Monitor, PollCancelled, PollReaped, PollTimeout, PollReady, PollMismatch,
              PollNothing, PollRestarted, MonitorLoop, PollStopped, PollAfterReap
<1>2. CASE Job
  <2>1. JobStarted /\ selected' = job.model /\ pid # 0
    BY <1>2 DEF Job, JobDecide, JobStarted, JobTail
  <2> QED BY <2>1 DEF JobStarted, Holds, LInv, JobCall, Chosen
<1>3. CASE Compare
  BY <1>3 DEF Compare, CompareBegin, CompareSlot, CompareStarted, CompareWait, CompareCheck,
              CompareRepeat, CompareRequest, Admit, CompareStops, CompareMeasured,
              CompareRestore, CompareRestored, CompareRewait, CompareFinish
<1>4. CASE Main
  BY <1>4 DEF Main, BootIdle, BootSelected, BootCustom, Booted, MainClose, JoinMonitor,
              DrainWorkers, JoinCompare, JoinJob, MainDone, MainStep
<1>5. ASSUME NEW w \in Workers, Accept(w) \/ Worker(w) PROVE Chosen
  <2>1. \/ Removed(w)
        \/ \E op \in {"select", "download", "setup"}, m \in Catalog, installed \in BOOLEAN :
             Prepare(w, op, m, installed)
    BY <1>5 DEF Accept, Worker, Refuse, Generate, Admit, Remove, Stop, Stopped, Execution,
                ExecutionStarted, ExecutionRestored, CompareStart, ActivityCancel, QuitIfIdle,
                SetFlag
  <2>2. CASE Removed(w)
    BY <2>2 DEF Removed, Chosen
  <2>3. ASSUME NEW op, NEW m, NEW installed, Prepare(w, op, m, installed)
        PROVE  pid = 0 /\ ~job.running
    BY <2>3 DEF Prepare
  <2> QED BY <2>1, <2>2, <2>3 DEF Chosen
<1>6. ASSUME NEW t \in Requesters, Request(t) PROVE FALSE
  BY <1>6 DEF Request, Connect, Answer, Abandon, EndCompleted, EndAbandoned, RequestRestart,
              RequestRestarted
<1>7. CASE \/ \E t \in Threads : StopBegin(t) \/ StopEnd(t) \/ SpawnOk(t) \/ SpawnFail(t)
           \/ \E g \in 1..MaxGen : ChildExit(g)
           \/ Terminated \/ UNCHANGED vars
  BY <1>7 DEF StopBegin, StopEnd, SpawnOk, SpawnFail, ChildExit, Terminated, vars
<1> QED BY <1>1, <1>2, <1>3, <1>4, <1>5, <1>6, <1>7 DEF Next

\* routes.c:503: the saved selection becomes a model that runs, or the user's own
\* choice while nothing runs and no job prepares a model, or is taken away with
\* the model; a switch that fails or is cancelled, also once the old child is
\* gone, leaves it alone.
THEOREM SelectionFollows == Spec => SelectionFollowsStart
<1>1. IInv /\ RInv /\ LInv /\ [Next]_vars =>
        (selected' # selected =>
           \/ pid # 0 /\ selected' = model
           \/ pid = 0 /\ ~job.running
           \/ selected' = NoModel /\ \E w \in Workers : Holds(w, "removed"))
  BY SelectionStep DEF Chosen
<1> QED BY <1>1, Inductive, RequestInductive, StepInductive, PTL
        DEF Spec, SelectionFollowsStart
-----------------------------------------------------------------------------
(* The promise of ModelService.                                            *)

\* What Stage and Partner are, wherever the one request sits.
View ==
    /\ ~generating => /\ Stage = IF pc["compare"] = "due" THEN "due" ELSE "none"
                      /\ Partner = 0
    /\ \A t \in Requesters : served[t] # 0 =>
         /\ generating
         /\ Stage = IF pc[t] \in {"admitted", "talk", "answered"} THEN pc[t] ELSE "abandoned"
         /\ Partner = IF pc[t] \in {"talk", "answered"} THEN served[t] ELSE 0

\* There is one request, so that its thread decides.
LEMMA Viewed == IInv /\ RInv => View
<1> SUFFICES ASSUME IInv, RInv PROVE View
  OBVIOUS
<1> USE DEF RInv, Marked, Serving, InRequest, RequestExclusive
<1>1. \A t \in Requesters : pc[t] \in {"admitted", "talk", "answered"} => served[t] # 0
  OBVIOUS
<1>2. ASSUME ~generating
      PROVE  Stage = (IF pc["compare"] = "due" THEN "due" ELSE "none") /\ Partner = 0
  <2>1. \A t \in Requesters : served[t] = 0
    BY <1>2
  <2>2. {t \in Requesters : pc[t] \in {"talk", "answered"}} = {}
    BY <1>1, <2>1
  <2> QED BY <1>2, <2>2 DEF Stage, Partner
<1>3. ASSUME NEW t \in Requesters, served[t] # 0
      PROVE  /\ generating
             /\ Stage = IF pc[t] \in {"admitted", "talk", "answered"} THEN pc[t]
                        ELSE "abandoned"
             /\ Partner = IF pc[t] \in {"talk", "answered"} THEN served[t] ELSE 0
  <2>1. generating /\ \A u \in Requesters : u # t => served[u] = 0
    BY <1>3
  <2>2. \A u \in Requesters : pc[u] \in {"admitted", "talk", "answered"} => u = t
    BY <1>1, <2>1
  <2>3. Stage = IF pc[t] \in {"admitted", "talk", "answered"} THEN pc[t] ELSE "abandoned"
    BY <2>1, <2>2 DEF Stage, At
  <2>4. CASE pc[t] \in {"talk", "answered"}
    <3>1. {u \in Requesters : pc[u] \in {"talk", "answered"}} = {t}
      BY <2>2, <2>4
    <3>2. (CHOOSE u \in {t} : TRUE) = t
      OBVIOUS
    <3> QED BY <2>1, <2>3, <2>4, <3>1, <3>2 DEF Partner
  <2>5. CASE pc[t] \notin {"talk", "answered"}
    <3>1. {u \in Requesters : pc[u] \in {"talk", "answered"}} = {}
      BY <2>2, <2>5
    <3> QED BY <2>1, <2>3, <2>5, <3>1 DEF Partner
  <2> QED BY <2>4, <2>5
<1> QED BY <1>2, <1>3 DEF View

\* The same after a step.
LEMMA ViewedNext == IInv' /\ RInv' => View'
  BY Viewed, PTL

\* A step behind the request: none is decided on, admitted, sent, answered or ended.
Behind ==
    /\ UNCHANGED request
    /\ \A t \in Requesters :
         \/ pc'[t] = pc[t]
         \/ {pc[t], pc'[t]} \intersect {"due", "admitted", "talk", "answered"} = {}

\* Such a step leaves what the service shows of its request.
LEMMA BehindShows ==
    ASSUME View, View', RequestOK, RequestExclusive, Behind
    PROVE  Stage' = Stage /\ Partner' = Partner
<1>1. CASE ~generating
  <2>1. pc["compare"] = "due" <=> pc'["compare"] = "due"
    BY DEF Behind, Requesters
  <2> QED BY <1>1, <2>1 DEF View, Behind, request
<1>2. CASE generating
  <2>1. PICK t \in Requesters : served[t] # 0
    BY <1>2 DEF RequestExclusive
  <2>2. served'[t] = served[t] /\ served'[t] # 0
    BY <2>1 DEF Behind, request
  <2>3. CASE pc'[t] = pc[t]
    BY <2>1, <2>2, <2>3 DEF View
  <2>4. CASE {pc[t], pc'[t]} \intersect {"due", "admitted", "talk", "answered"} = {}
    <3>1. {pc[t], pc'[t]} \intersect {"talk", "answered"} = {}
      BY <2>4
    <3> QED BY <2>1, <2>2, <2>4, <3>1 DEF View
  <2> QED BY <2>3, <2>4 DEF Behind
<1> QED BY <1>1, <1>2 DEF RequestOK

\* A child is stopped or started, or the app begins to close: steps of the
\* service behind the request.
LEMMA BehindServes ==
    ASSUME View, View', IInv, RInv, Behind,
           \/ UNCHANGED <<pid, generation>> /\ closing' \in {closing, TRUE}
           \/ pid' = 0 /\ UNCHANGED <<generation, closing>>
           \/ /\ pid = 0 /\ generation' = generation + 1 /\ pid' = generation + 1
              /\ UNCHANGED closing
    PROVE  [Service!Next]_(Service!vars)
<1>1. Stage' = Stage /\ Partner' = Partner /\ tainted' = tainted
  BY BehindShows DEF IInv, TypeOK, RInv, Behind, request
<1>2. CASE UNCHANGED <<pid, generation>> /\ closing' \in {closing, TRUE}
  BY <1>1, <1>2 DEF Service!Next, Service!Close, Service!vars
<1>3. CASE pid' = 0 /\ UNCHANGED <<generation, closing>>
  BY <1>1, <1>3 DEF Service!Next, Service!Vanish, Service!vars
<1>4. CASE /\ pid = 0 /\ generation' = generation + 1 /\ pid' = generation + 1
           /\ UNCHANGED closing
  BY <1>1, <1>4 DEF Service!Next, Service!Spawn
<1> QED BY <1>2, <1>3, <1>4

\* A worker's or the comparison's request is admitted.
LEMMA AdmitServes ==
    ASSUME View, View', IInv, RInv, NEW t \in Requesters, Admit(t), ~generating,
           ~closing \/ pc["compare"] = "due", generation # 0, UNCHANGED closing
    PROVE  Service!Next
<1>1. served'[t] # 0
  BY DEF Admit, IInv, TypeOK, RequestOK
<1>2. /\ Stage = "due" \/ (Stage = "none" /\ ~closing)
      /\ Partner = 0
      /\ pc'[t] = "admitted"
      /\ UNCHANGED <<pid, generation, tainted>>
  BY DEF View, Admit, Goto, child, IInv, TypeOK, SchedOK, Requesters, Threads
<1> QED BY <1>1, <1>2 DEF View, Service!Next, Service!Admit

\* What a request's own steps are to the service.
LEMMA RequestServes ==
    ASSUME View, View', IInv, RInv, NEW t \in Requesters, Request(t)
    PROVE  [Service!Next]_(Service!vars)
<1> USE DEF IInv, TypeOK, SchedOK, RequestOK, Requesters, Threads, Goto, child, request, flags
<1>1. pc[t] \in InRequest /\ served[t] # 0
  <2>1. pc[t] \in InRequest
    BY DEF Request, Connect, Answer, Abandon, EndCompleted, EndAbandoned, RequestRestart,
           RequestRestarted, Holds, InRequest
  <2> QED BY <2>1, TalkingIsServed
<1>2. ~Restarting(t) => pid \notin tainted
  BY <1>1 DEF RInv, Fresh, Restarting, RequestExclusive, Marked, Serving, InRequest
<1>3. CASE Connect(t)
  <2>1. pid \notin tainted
    BY <1>2, <1>3 DEF Connect, Restarting, Framed, Backs
  <2>2. CASE pid # 0
    BY <1>1, <1>3, <2>1, <2>2 DEF Connect, View, Service!Next, Service!Connect
  <2>3. CASE pid = 0
    BY <1>1, <1>3, <2>3 DEF Connect, View, Service!Next, Service!Fail
  <2> QED BY <2>2, <2>3
<1>4. CASE Answer(t)
  <2>1. served[t] = pid
    BY <1>4 DEF Answer, OneResident
  <2> QED BY <1>1, <1>4, <2>1 DEF Answer, View, Service!Next, Service!Answer
<1>5. CASE Abandon(t)
  BY <1>1, <1>5 DEF Abandon, View, Service!Next, Service!Abandon
<1>6. ASSUME Finish(t), UNCHANGED <<pid, generation, closing>>,
             \/ pc[t] = "answered"
             \/ pc[t] \notin {"admitted", "talk"} /\ (closing \/ pid \notin tainted)
      PROVE  Service!Next
  <2>1. pc'["compare"] # "due"
    <3>1. t # "compare" => pc["compare"] = "off"
      BY <1>1 DEF RInv, ExclusiveUse, Started
    <3> QED BY <1>6, <3>1 DEF Finish, Leave, Release, NoCall
  <2>2. Stage' = "none" /\ Partner' = 0 /\ tainted' = tainted
    BY <1>6, <2>1 DEF View, Finish
  <2> QED BY <1>1, <1>6, <2>2 DEF View, Service!Next, Service!End
<1>7. CASE EndCompleted(t)
  BY <1>6, <1>7 DEF EndCompleted
<1>8. CASE EndAbandoned(t)
  <2>1. Behind
    BY <1>8 DEF EndAbandoned, CallStop, Behind
  <2> QED BY <1>8, <2>1, BehindServes DEF EndAbandoned
<1>9. CASE RequestRestart(t)
  <2>1. pid \notin tainted
    BY <1>2, <1>9 DEF RequestRestart, Holds, Restarting, Framed
  <2>2. CASE Finish(t)
    BY <1>6, <1>9, <2>1, <2>2 DEF RequestRestart, Holds
  <2>3. CASE /\ CallStart(t, load, call[t].model, call[t].mode, "req_restarted")
             /\ UNCHANGED request
    <3>1. Behind
      BY <1>9, <2>3 DEF RequestRestart, Holds, CallStart, CallStop, Behind
    <3> QED BY <1>9, <3>1, BehindServes DEF RequestRestart
  <2> QED BY <1>9, <2>2, <2>3 DEF RequestRestart
<1>10. CASE RequestRestarted(t)
  <2>1. pid \notin tainted
    BY <1>2, <1>10 DEF RequestRestarted, Holds, Restarting, Framed
  <2> QED BY <1>6, <1>10, <2>1 DEF RequestRestarted, Holds
<1> QED BY <1>3, <1>4, <1>5, <1>7, <1>8, <1>9, <1>10 DEF Request

\* What stop_child and start_child_mode are to the service.
LEMMA ChildServes ==
    ASSUME View, View', IInv, RInv, NEW t \in Threads,
           StopBegin(t) \/ StopEnd(t) \/ SpawnOk(t) \/ SpawnFail(t)
    PROVE  [Service!Next]_(Service!vars)
<1> USE DEF IInv, TypeOK, SchedOK, Requesters, Threads, Goto, child, request, flags
<1>1. \A b \in Backs \union CallBacks : b \notin {"due", "admitted", "talk", "answered"}
  BY DEF Backs, CallBacks
<1>2. CASE StopBegin(t)
  <2>1. Behind
    BY <1>1, <1>2 DEF StopBegin, Holds, StopReturns, Release, Behind
  <2> QED BY <1>2, <2>1, BehindServes DEF StopBegin
<1>3. CASE StopEnd(t)
  <2>1. Behind
    BY <1>1, <1>3 DEF StopEnd, StopReturns, Behind
  <2> QED BY <1>3, <2>1, BehindServes DEF StopEnd
<1>4. CASE SpawnOk(t)
  <2>1. Behind
    BY <1>1, <1>4 DEF SpawnOk, Holds, Behind
  <2>2. pid = 0
    BY <1>4 DEF SpawnOk, Holds, Framed
  <2> QED BY <1>4, <2>1, <2>2, BehindServes DEF SpawnOk
<1>5. CASE SpawnFail(t)
  <2>1. Behind
    BY <1>1, <1>5 DEF SpawnFail, Holds, Behind
  <2> QED BY <1>5, <2>1, BehindServes DEF SpawnFail
<1> QED BY <1>2, <1>3, <1>4, <1>5

\* The monitor, the job and the main thread are behind the request.
LEMMA OthersServe ==
    ASSUME View, View', IInv, RInv, Monitor \/ Job \/ Main
    PROVE  [Service!Next]_(Service!vars)
<1> USE ThreadsAssumption DEF IInv, TypeOK, SchedOK, Requesters, Threads, Goto, child,
     request, flags, Holds, Leave, Release, CallStart, CallStop
<1>1. CASE Monitor
  <2>1. Behind
    BY <1>1 DEF Monitor, PollCancelled, PollReaped, PollTimeout, PollReady, PollMismatch,
       PollNothing, PollRestarted, MonitorLoop, PollStopped, PollAfterReap, Behind
  <2>2. UNCHANGED <<generation, closing>> /\ pid' \in {pid, 0}
    BY <1>1 DEF Monitor, PollCancelled, PollReaped, PollTimeout, PollReady, PollMismatch,
       PollNothing, PollRestarted, MonitorLoop, PollStopped, PollAfterReap
  <2> QED BY <2>1, <2>2, BehindServes
<1>2. CASE Job
  <2>1. Behind
    BY <1>2 DEF Job, JobDecide, JobStarted, JobTail, Behind
  <2>2. UNCHANGED <<pid, generation, closing>>
    BY <1>2 DEF Job, JobDecide, JobStarted, JobTail
  <2> QED BY <2>1, <2>2, BehindServes
<1>3. CASE Main
  <2>1. Behind
    BY <1>3 DEF Main, BootIdle, BootSelected, BootCustom, Booted, MainClose, JoinMonitor,
       DrainWorkers, JoinCompare, JoinJob, MainDone, MainStep, JobLabel, Behind
  <2>2. UNCHANGED <<pid, generation>> /\ closing' \in {closing, TRUE}
    BY <1>3 DEF Main, BootIdle, BootSelected, BootCustom, Booted, MainClose, JoinMonitor,
       DrainWorkers, JoinCompare, JoinJob, MainDone, MainStep, BeginJob
  <2> QED BY <2>1, <2>2, BehindServes
<1> QED BY <1>1, <1>2, <1>3

\* The comparison is behind its request, but for deciding on it and admitting it.
LEMMA CompareServes ==
    ASSUME View, View', IInv, RInv, Compare
    PROVE  [Service!Next]_(Service!vars)
<1> USE ThreadsAssumption DEF IInv, TypeOK, SchedOK, Requesters, Threads, Goto, child,
     request, flags, Holds, Leave, Release, CallStart, CallStop
<1>1. ASSUME pc["compare"] \in {"repeat", "due"} PROVE ~generating /\ generation # 0
  <2>1. cmp.running
    BY <1>1 DEF Started
  <2>2. \A w \in Workers : served[w] = 0
    BY <2>1 DEF RInv, ExclusiveUse
  <2>3. served["compare"] = 0
    <3>1. frame["compare"].back = "none"
      BY <1>1 DEF Framed
    <3> QED BY <1>1, <3>1 DEF RInv, Marked, Serving, InRequest
  <2> QED BY <2>1, <2>2, <2>3 DEF RInv, RequestExclusive, RequestOK, Counted
<1>2. CASE CompareRepeat
  <2>1. ~generating /\ ~closing /\ pc["compare"] = "repeat" /\ pc'["compare"] = "due"
    BY <1>1, <1>2 DEF CompareRepeat, CompareCancelled
  <2>2. Stage = "none" /\ Stage' = "due" /\ Partner = 0 /\ Partner' = 0
    BY <1>2, <2>1 DEF View, CompareRepeat
  <2> QED BY <1>2, <2>1, <2>2 DEF CompareRepeat, Service!Next, Service!Decide
<1>3. CASE CompareRequest
  BY <1>1, <1>3, AdmitServes DEF CompareRequest
<1>4. CASE Compare /\ ~CompareRepeat /\ ~CompareRequest
  <2>1. Behind
    BY <1>4 DEF Compare, CompareBegin, CompareSlot, CompareStarted, CompareWait, CompareCheck,
       CompareStops, CompareMeasured, CompareRestore, CompareRestored, CompareRewait,
       CompareFinish, CompareFails, Behind
  <2>2. UNCHANGED <<pid, generation, closing>>
    BY <1>4 DEF Compare, CompareBegin, CompareSlot, CompareStarted, CompareWait, CompareCheck,
       CompareStops, CompareMeasured, CompareRestore, CompareRestored, CompareRewait,
       CompareFinish, CompareFails
  <2> QED BY <2>1, <2>2, BehindServes
<1> QED BY <1>2, <1>3, <1>4

\* So is an HTTP worker.
LEMMA WorkerServes ==
    ASSUME View, View', IInv, RInv, NEW w \in Workers, Accept(w) \/ Worker(w)
    PROVE  [Service!Next]_(Service!vars)
<1> USE ThreadsAssumption DEF IInv, TypeOK, SchedOK, Requesters, Threads, Goto, child,
     request, flags, Holds, Leave, Release, CallStart, CallStop
<1>1. CASE Generate(w)
  <2>1. generation # 0
    BY <1>1 DEF Generate, RInv, Counted
  <2> QED BY <1>1, <2>1, AdmitServes DEF Generate
<1>2. CASE \E op \in {"select", "download", "setup"}, m \in Catalog, installed \in BOOLEAN :
             Prepare(w, op, m, installed)
  <2>1. Behind
    BY <1>2 DEF Prepare, Serves, JobLabel, Behind
  <2>2. UNCHANGED <<pid, generation, closing>>
    BY <1>2 DEF Prepare, BeginJob
  <2> QED BY <2>1, <2>2, BehindServes
<1>3. CASE CompareStart(w)
  <2>1. Behind
    BY <1>3 DEF CompareStart, Serves, Started, Behind
  <2> QED BY <1>3, <2>1, BehindServes DEF CompareStart
<1>4. CASE \/ \E m \in Catalog : Remove(w, m)
           \/ \E md \in Modes : Execution(w, md)
           \/ Stop(w) \/ ExecutionStarted(w)
  <2>1. Behind
    BY <1>4 DEF Remove, Execution, Stop, ExecutionStarted, Serves, Behind
  <2>2. UNCHANGED <<pid, generation, closing>>
    BY <1>4 DEF Remove, Execution, Stop, ExecutionStarted
  <2> QED BY <2>1, <2>2, BehindServes
<1>5. CASE \/ Accept(w) \/ Refuse(w) \/ Removed(w) \/ Stopped(w) \/ ExecutionRestored(w)
           \/ ActivityCancel(w) \/ QuitIfIdle(w)
           \/ \E op \in {"cancel", "compare_cancel", "quit"} : SetFlag(w, op)
  <2>1. Behind
    BY <1>5 DEF Accept, Refuse, Removed, Stopped, ExecutionRestored, ActivityCancel,
       QuitIfIdle, SetFlag, Serves, Behind
  <2>2. UNCHANGED <<pid, generation>> /\ closing' \in {closing, TRUE}
    BY <1>5 DEF Accept, Refuse, Removed, Stopped, ExecutionRestored, ActivityCancel,
       QuitIfIdle, SetFlag
  <2> QED BY <2>1, <2>2, BehindServes
<1> QED BY <1>1, <1>2, <1>3, <1>4, <1>5 DEF Worker

\* Every step of Supervisor is one of the service or changes nothing of it.
LEMMA StepServes == View /\ View' /\ IInv /\ RInv /\ [Next]_vars => [Service!Next]_(Service!vars)
<1> SUFFICES ASSUME View, View', IInv, RInv, [Next]_vars PROVE [Service!Next]_(Service!vars)
  OBVIOUS
<1>1. ASSUME NEW g \in 1..MaxGen, ChildExit(g) PROVE [Service!Next]_(Service!vars)
  <2>1. Behind /\ UNCHANGED <<pid, generation, closing>>
    BY <1>1 DEF ChildExit, Behind, sched, request, flags
  <2> QED BY <2>1, BehindServes
<1>2. CASE Terminated \/ UNCHANGED vars
  <2>1. Behind /\ UNCHANGED <<pid, generation, closing>>
    BY <1>2 DEF Terminated, vars, sched, child, request, flags, Behind
  <2> QED BY <2>1, BehindServes
<1> QED BY <1>1, <1>2, OthersServe, CompareServes, WorkerServes, RequestServes, ChildServes
        DEF Next

\* geist-app implements ModelService: one child at most, one request at most, an
\* answer only from the child that was asked, and no child that serves after a
\* request was abandoned on it.
THEOREM ServiceIsKept == Spec => KeepsService
<1>1. Init => Service!Init
  <2> SUFFICES ASSUME Init PROVE Service!Init
    OBVIOUS
  <2>1. /\ ~generating /\ pc["compare"] = "off"
        /\ \A t \in Requesters : pc[t] \notin {"talk", "answered"}
    BY ThreadsAssumption DEF Init, Requesters, Threads
  <2>2. {t \in Requesters : pc[t] \in {"talk", "answered"}} = {}
    BY <2>1
  <2> QED BY <2>1, <2>2 DEF Init, Service!Init, Stage, Partner
<1>2. IInv /\ RInv /\ IInv' /\ RInv' /\ [Next]_vars => [Service!Next]_(Service!vars)
  BY Viewed, ViewedNext, StepServes
<1> QED
  BY <1>1, <1>2, Inductive, RequestInductive, PTL DEF Spec, KeepsService, Service!Spec
=============================================================================
