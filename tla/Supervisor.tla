----------------------------- MODULE Supervisor -----------------------------
(***************************************************************************)
(* geist-app's ownership of its one geistd child.                          *)
(*                                                                         *)
(* The monitor thread, the model job, the CPU/GPU comparison, the HTTP     *)
(* workers and the main thread share app_state under one mutex             *)
(* (src/app/app.h).  A critical section is one step, except where it calls *)
(* stop_child: stop_child releases the mutex while it naps, so every       *)
(* section that stops or starts a child is cut into steps that hold        *)
(* `mutex`, and `frame' and `call' say where stop_child and                *)
(* start_child_mode return to.                                             *)
(*                                                                         *)
(* A process is named by the generation that spawned it: a new child has   *)
(* pid = app.generation, and process IDs are never reused.                 *)
(***************************************************************************)
EXTENDS Naturals, FiniteSets

CONSTANTS
    Workers,     \* HTTP worker threads (WORKER_CAP of them in main.c)
    Catalog,     \* the catalog models
    Custom,      \* the file given with --model: no catalog entry
    NoModel,     \* app.child.active_id or app.prefs.selected is ""
    GpuModels,   \* gpu_supported(model)
    BigModels,   \* GPU models that mode "auto" runs on the GPU (recommend_gpu)
    Repeats,     \* requests per processor in a comparison (4 in compare.c)
    MaxGen,      \* bound: no spawn succeeds after this many
    Ops          \* the operations clients send, and SIGINT/SIGTERM ("signal")

AllOps == {"generate", "select", "download", "setup", "remove", "stop", "execution",
           "compare", "compare_cancel", "activity_cancel", "cancel",
           "quit", "quit_if_idle", "signal"}

ASSUME ConstantsAssumption ==
    /\ NoModel \notin Catalog \union {Custom}
    /\ Custom \notin Catalog
    /\ GpuModels \subseteq Catalog
    /\ BigModels \subseteq GpuModels
    /\ Repeats \in Nat \ {0}
    /\ MaxGen \in Nat
    /\ Ops \subseteq AllOps

ASSUME ThreadsAssumption ==
    Workers \intersect {"monitor", "job", "compare", "main", "none"} = {}

Threads == Workers \union {"monitor", "job", "compare", "main"}
Models  == Catalog \union {Custom}
Modes   == {"auto", "cpu", "gpu"}

VARIABLES
    mutex,         \* the thread that holds app.mutex between steps, or "none"
    pc,            \* where each thread is
    frame,         \* stop_child: where it returns, and the child it set out to stop
    call,          \* start_child_mode: its arguments and where it returns
    pid,           \* app.child.pid, 0 for none
    procs,         \* children not yet reaped
    dead,          \* those of them that have exited
    generation,    \* app.generation
    ready,         \* app.child.ready
    stopping,      \* app.stopping
    model,         \* app.child.active_id (and chosen)
    mode,          \* app.backend.mode
    active,        \* app.backend.active
    save,          \* app.backend.save
    pref,          \* the backend-<sha> preference files
    selected,      \* the selected preference file
    load,          \* app.activity.load: generation and outcome
    job,           \* app.job
    cmp,           \* app.compare and comparison_main's locals
    generating,    \* app.child.generating
    served,        \* the generation a thread's request is for, 0 for none
    tainted,       \* generations on which a request was abandoned
    closing, cancelled, loadCancelled, compareCancelled

sched   == <<mutex, pc, frame, call>>
child   == <<pid, procs, dead, generation, ready, stopping>>
backend == <<model, mode, active, save>>
prefs   == <<pref, selected>>
request == <<generating, served, tainted>>
flags   == <<closing, cancelled, loadCancelled, compareCancelled>>
vars    == <<sched, child, backend, prefs, load, job, cmp, request, flags>>

-----------------------------------------------------------------------------
(* Helpers.                                                                *)

Outcomes == {"none", "running", "completed", "failed", "cancelled"}

\* begin_activity on the load operation: a new operation replaces the old one.
BeginLoad(g) == [gen |-> g, out |-> "running"]

\* activity_end: the first outcome of an operation stays.
EndLoad(l, outcome) ==
    IF l.out = "running" THEN [l EXCEPT !.out = outcome] ELSE l

\* Which processor start_child_mode chooses.
Backend(m, md) ==
    IF md = "gpu" \/ (md = "auto" /\ m \in BigModels) THEN "gpu" ELSE "cpu"

\* start_child: the saved preference, or auto where it cannot be used.
SavedMode(m) ==
    IF m \in Catalog /\ ~(pref[m] = "gpu" /\ m \notin GpuModels)
    THEN pref[m] ELSE "auto"

Goto(t, label) == pc' = [pc EXCEPT ![t] = label]

Free    == mutex = "none"
Holds(t, label) == mutex = t /\ pc[t] = label

\* Unlock, in the middle of an operation or at its end (its arguments go).
Release(t, label) == mutex' = "none" /\ Goto(t, label)
NoCall == [model |-> NoModel, mode |-> "auto", back |-> "none"]
Leave(t, label) == Release(t, label) /\ call' = [call EXCEPT ![t] = NoCall]

\* stop_child returns to its caller.
NoFrame == [back |-> "none", target |-> 0]
StopReturns(t) == Goto(t, frame[t].back) /\ frame' = [frame EXCEPT ![t] = NoFrame]

\* Enter stop_child, to return to `back'; the thread holds the mutex.
CallStop(t, back) ==
    /\ mutex' = t
    /\ Goto(t, "stop")
    /\ frame' = [frame EXCEPT ![t].back = back]

\* Enter start_child_mode with the load operation l; callers pass "gpu" only
\* for a model of GpuModels, so its refusal of an unsupported GPU is not here.
CallStart(t, l, m, md, back) ==
    /\ load' = IF l.out = "running" THEN l ELSE BeginLoad(generation + 1)
    /\ loadCancelled' = FALSE
    /\ call' = [call EXCEPT ![t] = [model |-> m, mode |-> md, back |-> back]]
    /\ CallStop(t, "spawn")

-----------------------------------------------------------------------------
(* stop_child.                                                             *)

\* Readiness is revoked and SIGTERM sent.  Without a process, or with one that
\* has already exited, stop_child returns at once; else it naps unlocked.
StopBegin(t) ==
    /\ Holds(t, "stop")
    /\ ready' = FALSE
    /\ \/ /\ pid \in procs \ dead
          /\ stopping' = TRUE
          /\ frame' = [frame EXCEPT ![t].target = pid]
          /\ Release(t, "nap")
          /\ UNCHANGED <<pid, procs, dead>>
       \/ /\ pid \notin procs \ dead
          /\ stopping' = FALSE
          /\ pid' = 0
          /\ procs' = procs \ {pid}
          /\ dead' = dead \ {pid}
          /\ StopReturns(t)
          /\ UNCHANGED mutex
    /\ UNCHANGED <<call, generation, backend, prefs, load, job, cmp, request, flags>>

\* Mutant: only the child that stop_child set out to stop is reaped.
StopEndTarget(t) ==
    /\ pc[t] = "nap" /\ Free
    /\ mutex' = t
    /\ StopReturns(t)
    /\ pid' = 0
    /\ procs' = procs \ {frame[t].target}
    /\ dead' = dead \ {frame[t].target}
    /\ ready' = FALSE
    /\ stopping' = FALSE
    /\ UNCHANGED <<call, generation, backend, prefs, load, job, cmp, request, flags>>

\* The last of up to twenty naps ends: whatever app.child.pid now names has
\* exited and is reaped, or is killed and reaped.  A nap that finds the child
\* still alive and is not the last changes nothing.
StopEnd(t) ==
    /\ pc[t] = "nap" /\ Free
    /\ mutex' = t
    /\ StopReturns(t)
    /\ pid' = 0
    /\ procs' = procs \ {pid}
    /\ dead' = dead \ {pid}
    /\ ready' = FALSE
    /\ stopping' = FALSE
    /\ UNCHANGED <<call, generation, backend, prefs, load, job, cmp, request, flags>>

-----------------------------------------------------------------------------
(* start_child_mode, once its stop_child has returned.                     *)

SpawnOk(t) ==
    /\ Holds(t, "spawn")
    /\ generation < MaxGen
    /\ generation' = generation + 1
    /\ pid' = generation + 1
    /\ procs' = procs \union {generation + 1}
    /\ model' = call[t].model
    /\ mode' = call[t].mode
    /\ active' = Backend(call[t].model, call[t].mode)
    /\ save' = TRUE
    /\ load' = [load EXCEPT !.gen = generation + 1]
    /\ Goto(t, call[t].back)
    /\ UNCHANGED <<mutex, frame, call, dead, ready, stopping, prefs, job, cmp,
                   request, flags>>

\* Mutant: a failed start leaves its operation running.
SpawnFailSilent(t) ==
    /\ Holds(t, "spawn")
    /\ Goto(t, call[t].back)
    /\ UNCHANGED <<mutex, frame, call, child, backend, prefs, load, job, cmp, request, flags>>

\* No directory, socket, log, memory or process: start_child_mode stops what
\* is left (nothing runs here) and ends the operation.
SpawnFail(t) ==
    /\ Holds(t, "spawn")
    /\ load' = EndLoad(load, "failed")
    /\ Goto(t, call[t].back)
    /\ UNCHANGED <<mutex, frame, call, child, backend, prefs, job, cmp, request, flags>>

\* The child exits by itself, on SIGTERM or by a crash.
ChildExit(g) ==
    /\ g \in procs \ dead
    /\ dead' = dead \union {g}
    /\ UNCHANGED <<sched, pid, procs, generation, ready, stopping, backend, prefs,
                   load, job, cmp, request, flags>>

-----------------------------------------------------------------------------
(* The monitor thread: poll_child.                                         *)

Polls == pc["monitor"] = "poll" /\ Free /\ pid # 0 /\ ~stopping
CancelsLoad == loadCancelled /\ ~ready

PollCancelled ==
    /\ Polls /\ CancelsLoad
    /\ CallStop("monitor", "poll_cancelled")
    /\ UNCHANGED <<call, child, backend, prefs, load, job, cmp, request, flags>>

\* The child was reaped, by this waitpid or (ECHILD) by an earlier one.
PollReaped ==
    /\ Polls /\ ~CancelsLoad
    /\ pid \notin procs \ dead
    /\ pid' = 0
    /\ procs' = procs \ {pid}
    /\ dead' = dead \ {pid}
    /\ ready' = FALSE
    /\ mutex' = "monitor"
    /\ Goto("monitor", "poll_reaped")
    /\ UNCHANGED <<frame, call, generation, stopping, backend, prefs, load, job, cmp,
                   request, flags>>

\* 120 seconds without readiness.
PollTimeout ==
    /\ Polls /\ ~CancelsLoad /\ ~ready
    /\ CallStop("monitor", "poll_reaped")
    /\ UNCHANGED <<call, child, backend, prefs, load, job, cmp, request, flags>>

\* The handshake succeeds and names the expected processor, or none.
PollReady ==
    /\ Polls /\ ~CancelsLoad /\ ~ready
    /\ pid \in procs \ dead
    /\ ready' = TRUE
    /\ load' = EndLoad(load, "completed")
    /\ \/ save /\ model \in Catalog /\ pref' = [pref EXCEPT ![model] = mode]
       \/ UNCHANGED pref        \* nothing to save, or save_preference failed
    /\ save' = FALSE
    /\ Goto("monitor", "check")
    /\ UNCHANGED <<mutex, frame, call, pid, procs, dead, generation, stopping, model,
                   mode, active, selected, job, cmp, request, flags>>

\* The handshake names another processor.
PollMismatch ==
    /\ Polls /\ ~CancelsLoad /\ ~ready
    /\ pid \in procs \ dead
    /\ CallStop("monitor", "poll_mismatch")
    /\ UNCHANGED <<call, child, backend, prefs, load, job, cmp, request, flags>>

\* No child, a child being stopped, a healthy one, or one still loading.
PollNothing ==
    /\ pc["monitor"] = "poll" /\ Free
    /\ ~(pid # 0 /\ ~stopping /\ (CancelsLoad \/ pid \notin procs \ dead))
    /\ Goto("monitor", "check")
    /\ UNCHANGED <<mutex, frame, call, child, backend, prefs, load, job, cmp, request,
                   flags>>

\* After stop_child in the cancelled and mismatch branches.
PollStopped(label, outcome) ==
    /\ Holds("monitor", label)
    /\ load' = EndLoad(load, outcome)
    /\ Leave("monitor", "check")
    /\ UNCHANGED <<frame, child, backend, prefs, job, cmp, request, flags>>

\* The child is gone.  A newer load operation is left alone; a GPU child whose
\* log can be archived is replaced on the CPU.
PollAfterReap ==
    /\ Holds("monitor", "poll_reaped")
    /\ \/ /\ load.gen > generation
          /\ Leave("monitor", "check")
          /\ UNCHANGED <<frame, load, loadCancelled>>
       \/ /\ load.gen <= generation
          /\ load' = EndLoad(load, "failed")
          /\ Leave("monitor", "check")        \* CPU, or the archive failed
          /\ UNCHANGED <<frame, loadCancelled>>
       \/ /\ load.gen <= generation
          /\ active = "gpu"
          /\ CallStart("monitor", EndLoad(load, "failed"), model, "cpu", "poll_restarted")
    /\ UNCHANGED <<child, backend, prefs, job, cmp, request, closing, cancelled,
                   compareCancelled>>

PollRestarted ==
    /\ Holds("monitor", "poll_restarted")
    /\ Leave("monitor", "check")
    /\ UNCHANGED <<frame, child, backend, prefs, load, job, cmp, request, flags>>

\* Mutant: the loop does not look at app.closing.
MonitorLoopForever ==
    /\ pc["monitor"] = "check"
    /\ Goto("monitor", "poll")
    /\ UNCHANGED <<mutex, frame, call, child, backend, prefs, load, job, cmp, request,
                   flags>>

\* monitor_main's loop.
MonitorLoop ==
    /\ pc["monitor"] = "check"
    /\ Goto("monitor", IF closing THEN "exit" ELSE "poll")
    /\ UNCHANGED <<mutex, frame, call, child, backend, prefs, load, job, cmp, request,
                   flags>>

Monitor ==
    \/ PollCancelled \/ PollReaped \/ PollTimeout \/ PollReady \/ PollMismatch
    \/ PollNothing \/ PollAfterReap \/ PollRestarted \/ MonitorLoop
    \/ PollStopped("poll_cancelled", "cancelled")
    \/ PollStopped("poll_mismatch", "failed")

-----------------------------------------------------------------------------
(* The model job.                                                          *)

\* begin_job, called by thread t of a critical section: the job thread starts,
\* or cannot be created.
BeginJob(m, activate) ==
    /\ cancelled' = FALSE
    /\ loadCancelled' = (loadCancelled /\ ~activate)
    /\ UNCHANGED <<closing, compareCancelled>>
    /\ \/ /\ job' = [running |-> TRUE, activate |-> activate, model |-> m, ok |-> FALSE]
          /\ load' = IF activate THEN BeginLoad(generation + 1) ELSE load
       \/ /\ job' = [running |-> FALSE, activate |-> activate, model |-> NoModel, ok |-> FALSE]
          /\ load' = IF activate THEN [gen |-> generation + 1, out |-> "failed"] ELSE load

JobLabel == IF job'.running THEN "work" ELSE "off"

\* Download and verification are over, with success or without; the last
\* critical section begins.
JobDecide ==
    /\ pc["job"] = "work" /\ Free
    /\ \E ok \in BOOLEAN :
         /\ job' = [job EXCEPT !.ok = ok]
         /\ IF ok /\ job.activate /\ ~cancelled /\ ~closing
            THEN CallStart("job", load, job.model, SavedMode(job.model), "job_started")
            ELSE /\ mutex' = "job"
                 /\ Goto("job", "job_tail")
                 /\ UNCHANGED <<frame, call, load, loadCancelled>>
    /\ UNCHANGED <<child, backend, prefs, cmp, request, closing, cancelled, compareCancelled>>

\* Mutant: the choice is saved whether or not the new model has started.
JobSavesAnyway ==
    /\ Holds("job", "job_started")
    /\ selected' \in {selected, job.model}
    /\ Goto("job", "job_tail")
    /\ UNCHANGED <<mutex, frame, call, child, backend, pref, load, job, cmp, request, flags>>

\* The choice is saved once the new model has started.
JobStarted ==
    /\ Holds("job", "job_started")
    /\ \/ pid # 0 /\ selected' = job.model
       \/ UNCHANGED selected
    /\ Goto("job", "job_tail")
    /\ UNCHANGED <<mutex, frame, call, child, backend, pref, load, job, cmp, request, flags>>

JobTail ==
    /\ Holds("job", "job_tail")
    /\ load' = CASE ~job.activate -> load
                 [] cancelled \/ closing -> EndLoad(load, "cancelled")
                 [] ~job.ok \/ pid = 0 -> EndLoad(load, "failed")
                 [] OTHER -> load
    /\ job' = [job EXCEPT !.running = FALSE, !.model = NoModel, !.ok = FALSE]
    /\ Leave("job", "off")
    /\ UNCHANGED <<frame, child, backend, prefs, cmp, request, flags>>

Job == JobDecide \/ JobStarted \/ JobTail

-----------------------------------------------------------------------------
(* One request to the child, by an HTTP worker or by the comparison.       *)

Requesters == Workers \union {"compare"}

\* observation_begin, in the critical section that admits the request.
Admit(t) ==
    /\ generating' = TRUE
    /\ served' = [served EXCEPT ![t] = generation]
    /\ Goto(t, "admitted")
    /\ UNCHANGED <<mutex, frame, call, child, backend, prefs, load, job, tainted>>

\* Mutant: a second request is admitted.
GenerateBesideRequest(w) ==
    /\ pc[w] = "accepted" /\ Free
    /\ "generate" \in Ops
    /\ ~closing /\ ready /\ ~cmp.running
    /\ ~(job.running /\ job.activate)
    /\ Admit(w)
    /\ UNCHANGED <<cmp, flags>>

\* generate and completions: a worker's request is admitted.
Generate(w) ==
    /\ pc[w] = "accepted" /\ Free
    /\ "generate" \in Ops
    /\ ~closing /\ ready /\ ~cmp.running /\ ~generating
    /\ ~(job.running /\ job.activate)
    /\ Admit(w)
    /\ UNCHANGED <<cmp, flags>>

\* The socket path is read without the mutex: it names the current child, or
\* nothing (then the request fails).
Connect(t) ==
    /\ pc[t] = "admitted"
    /\ IF pid # 0
       THEN served' = [served EXCEPT ![t] = pid] /\ Goto(t, "talk")
       ELSE served' = served /\ Goto(t, "abandoned")
    /\ UNCHANGED <<mutex, frame, call, child, backend, prefs, load, job, cmp, generating,
                   tainted, flags>>

\* The child's answer, or its refusal (400, 422), is complete.
Answer(t) ==
    /\ pc[t] = "talk"
    /\ served[t] \in procs \ dead
    /\ Goto(t, "answered")
    /\ UNCHANGED <<mutex, frame, call, child, backend, prefs, load, job, cmp, request, flags>>

\* Cancelled, disconnected (the final bytes included), timed out, or the child
\* failed: 499, 498, 504, 502.
Abandon(t) ==
    /\ pc[t] \in {"talk", "answered"}
    /\ tainted' = tainted \union {served[t]}
    /\ Goto(t, "abandoned")
    /\ UNCHANGED <<mutex, frame, call, child, backend, prefs, load, job, cmp, generating,
                   served, flags>>

\* The end of observation_end.
Finish(t) ==
    /\ generating' = FALSE
    /\ served' = [served EXCEPT ![t] = 0]
    /\ Leave(t, IF t = "compare" THEN "measured" ELSE "idle")
    /\ UNCHANGED tainted

\* Mutant: an abandoned request ends like a completed one.
EndWithoutRestart(t) ==
    /\ pc[t] \in {"answered", "abandoned"} /\ Free
    /\ Finish(t)
    /\ \E ok \in IF pc[t] = "answered" THEN BOOLEAN ELSE {FALSE} :
         cmp' = IF t = "compare" THEN [cmp EXCEPT !.ok = ok] ELSE cmp
    /\ UNCHANGED <<frame, child, backend, prefs, load, job, flags>>

\* observation_end after a request the child completed, or while closing.
EndCompleted(t) ==
    /\ pc[t] = "answered" \/ (pc[t] = "abandoned" /\ closing)
    /\ Free
    /\ Finish(t)
    /\ \E ok \in IF pc[t] = "answered" THEN BOOLEAN ELSE {FALSE} :
         cmp' = IF t = "compare" THEN [cmp EXCEPT !.ok = ok] ELSE cmp
    /\ UNCHANGED <<frame, child, backend, prefs, load, job, flags>>

\* Mutant: `generating' is given up before the child is replaced.
EndAbandonedEarly(t) ==
    /\ pc[t] = "abandoned" /\ Free /\ ~closing
    /\ load' = BeginLoad(generation + 1)
    /\ call' = [call EXCEPT ![t] = [model |-> model, mode |-> mode, back |-> "req_restarted"]]
    /\ cmp' = IF t = "compare" THEN [cmp EXCEPT !.ok = FALSE] ELSE cmp
    /\ CallStop(t, "req_stopped")
    /\ generating' = FALSE
    /\ served' = [served EXCEPT ![t] = 0]
    /\ UNCHANGED <<child, backend, prefs, job, tainted, flags>>

\* observation_end after an abandoned request: the child is replaced before
\* `generating' is given up.
EndAbandoned(t) ==
    /\ pc[t] = "abandoned" /\ Free /\ ~closing
    /\ load' = BeginLoad(generation + 1)
    /\ call' = [call EXCEPT ![t] = [model |-> model, mode |-> mode, back |-> "req_restarted"]]
    /\ cmp' = IF t = "compare" THEN [cmp EXCEPT !.ok = FALSE] ELSE cmp
    /\ CallStop(t, "req_stopped")
    /\ UNCHANGED <<child, backend, prefs, job, request, flags>>

\* Mutant: when the child cannot be restarted `generating' is not given up.
RequestRestartForgets(t) ==
    /\ Holds(t, "req_stopped")
    /\ \/ /\ CallStart(t, load, call[t].model, call[t].mode, "req_restarted")
          /\ UNCHANGED request
       \/ /\ load' = EndLoad(load, "failed")
          /\ Leave(t, IF t = "compare" THEN "measured" ELSE "idle")
          /\ UNCHANGED <<request, frame, loadCancelled>>
    /\ UNCHANGED <<child, backend, prefs, job, cmp, closing, cancelled, compareCancelled>>

\* The log is archived and the child restarted, or the model stays stopped.
RequestRestart(t) ==
    /\ Holds(t, "req_stopped")
    /\ \/ /\ CallStart(t, load, call[t].model, call[t].mode, "req_restarted")
          /\ UNCHANGED request
       \/ /\ load' = EndLoad(load, "failed")
          /\ Finish(t)
          /\ UNCHANGED <<frame, loadCancelled>>
    /\ UNCHANGED <<child, backend, prefs, job, cmp, closing, cancelled, compareCancelled>>

RequestRestarted(t) ==
    /\ Holds(t, "req_restarted")
    /\ Finish(t)
    /\ UNCHANGED <<frame, child, backend, prefs, load, job, cmp, flags>>

Request(t) ==
    \/ Connect(t) \/ Answer(t) \/ Abandon(t) \/ EndCompleted(t) \/ EndAbandoned(t)
    \/ RequestRestart(t) \/ RequestRestarted(t)

-----------------------------------------------------------------------------
(* The comparison thread.                                                  *)

NoComparison == [running |-> FALSE, model |-> NoModel, prev |-> "auto", slot |-> 1,
                 rep |-> 0, ok |-> FALSE]
CompareCancelled == compareCancelled \/ closing
SlotBackend      == IF cmp.slot = 2 THEN "gpu" ELSE "cpu"

\* A comparison that goes wrong goes on to restore the user's choice.
CompareFails == cmp' = [cmp EXCEPT !.ok = FALSE] /\ Goto("compare", "restore")

CompareBegin ==
    /\ pc["compare"] = "begin" /\ Free
    /\ cmp' = [cmp EXCEPT !.model = model, !.prev = mode, !.slot = 1, !.rep = 0, !.ok = TRUE]
    /\ Goto("compare", "slot")
    /\ UNCHANGED <<mutex, frame, call, child, backend, prefs, load, job, request, flags>>

CompareSlot ==
    /\ pc["compare"] = "slot" /\ Free
    /\ IF CompareCancelled
       THEN /\ CompareFails
            /\ save' = FALSE
            /\ UNCHANGED <<mutex, frame, call, load, loadCancelled>>
       ELSE /\ CallStart("compare", load, cmp.model, SlotBackend, "cmp_started")
            /\ UNCHANGED <<cmp, save>>
    /\ UNCHANGED <<child, model, mode, active, prefs, job, request, closing, cancelled,
                   compareCancelled>>

\* "Comparison must not rewrite the user's saved processor preference."
CompareStarted ==
    /\ Holds("compare", "cmp_started")
    /\ save' = FALSE
    /\ mutex' = "none"
    /\ IF pid # 0 THEN UNCHANGED cmp /\ Goto("compare", "wait") ELSE CompareFails
    /\ UNCHANGED <<frame, call, child, model, mode, active, prefs, load, job, request, flags>>

\* Mutant: comparison_ready waits for readiness or cancellation alone.
CompareWaitReady ==
    /\ pc["compare"] = "wait" /\ Free
    /\ \/ ~CompareCancelled /\ ready /\ Goto("compare", "check") /\ UNCHANGED cmp
       \/ CompareCancelled /\ CompareFails
    /\ UNCHANGED <<mutex, frame, call, child, backend, prefs, load, job, request, flags>>

\* comparison_ready: a cancelled comparison, a missing child and the 600th
\* probe end the wait without readiness.
CompareWait ==
    /\ pc["compare"] = "wait" /\ Free
    /\ \/ ~CompareCancelled /\ ready /\ Goto("compare", "check") /\ UNCHANGED cmp
       \/ CompareCancelled /\ CompareFails
       \/ ~ready /\ CompareFails
    /\ UNCHANGED <<mutex, frame, call, child, backend, prefs, load, job, request, flags>>

CompareCheck ==
    /\ pc["compare"] = "check" /\ Free
    /\ IF active = SlotBackend
       THEN Goto("compare", "repeat") /\ UNCHANGED cmp
       ELSE CompareFails
    /\ UNCHANGED <<mutex, frame, call, child, backend, prefs, load, job, request, flags>>

\* The next request is due.  Cancellation and closing are looked at without the
\* mutex, and not again once it is taken.
CompareRepeat ==
    /\ pc["compare"] = "repeat" /\ ~CompareCancelled
    /\ Goto("compare", "due")
    /\ UNCHANGED <<mutex, frame, call, child, backend, prefs, load, job, cmp, request, flags>>

CompareRequest ==
    /\ pc["compare"] = "due" /\ Free
    /\ cmp' = [cmp EXCEPT !.rep = @ + 1]
    /\ Admit("compare")
    /\ UNCHANGED flags

CompareStops ==
    /\ pc["compare"] = "repeat" /\ CompareCancelled
    /\ CompareFails
    /\ UNCHANGED <<mutex, frame, call, child, backend, prefs, load, job, request, flags>>

\* Mutant: the last processor is followed by another.
CompareMeasuredOnceMore ==
    /\ pc["compare"] = "measured"
    /\ IF cmp.ok
       THEN cmp' = [cmp EXCEPT !.slot = @ + 1, !.rep = 0] /\ Goto("compare", "slot")
       ELSE CompareFails
    /\ UNCHANGED <<mutex, frame, call, child, backend, prefs, load, job, request, flags>>

CompareMeasured ==
    /\ pc["compare"] = "measured"
    /\ \/ /\ ~cmp.ok
          /\ CompareFails
       \/ /\ cmp.ok /\ cmp.rep < Repeats
          /\ Goto("compare", "repeat") /\ UNCHANGED cmp
       \/ /\ cmp.ok /\ cmp.rep = Repeats /\ cmp.slot = 1 /\ cmp.model \in GpuModels
          /\ cmp' = [cmp EXCEPT !.slot = 2, !.rep = 0]
          /\ Goto("compare", "slot")
       \/ /\ cmp.ok /\ cmp.rep = Repeats /\ (cmp.slot = 2 \/ cmp.model \notin GpuModels)
          /\ Goto("compare", "restore") /\ UNCHANGED cmp
    /\ UNCHANGED <<mutex, frame, call, child, backend, prefs, load, job, request, flags>>

CompareRestore ==
    /\ pc["compare"] = "restore" /\ Free
    /\ IF closing
       THEN /\ Goto("compare", "finish")
            /\ save' = FALSE
            /\ UNCHANGED <<mutex, frame, call, load, loadCancelled>>
       ELSE /\ CallStart("compare", load, cmp.model, cmp.prev, "cmp_restored")
            /\ UNCHANGED save
    /\ UNCHANGED <<child, model, mode, active, prefs, job, cmp, request, closing,
                   cancelled, compareCancelled>>

CompareRestored ==
    /\ Holds("compare", "cmp_restored")
    /\ save' = FALSE
    /\ Leave("compare", IF pid # 0 THEN "rewait" ELSE "finish")
    /\ UNCHANGED <<frame, child, model, mode, active, prefs, load, job, cmp, request,
                   flags>>

\* The restored child is ready, is gone, or 60 seconds have passed.
CompareRewait ==
    /\ pc["compare"] = "rewait" /\ Free
    /\ Goto("compare", "finish")
    /\ UNCHANGED <<mutex, frame, call, child, backend, prefs, load, job, cmp, request, flags>>

CompareFinish ==
    /\ pc["compare"] = "finish" /\ Free
    /\ cmp' = NoComparison
    /\ Goto("compare", "off")
    /\ UNCHANGED <<mutex, frame, call, child, backend, prefs, load, job, request, flags>>

Compare ==
    \/ CompareBegin \/ CompareSlot \/ CompareStarted \/ CompareWait \/ CompareCheck
    \/ CompareRepeat \/ CompareRequest \/ CompareStops \/ CompareMeasured \/ CompareRestore
    \/ CompareRestored \/ CompareRewait \/ CompareFinish

-----------------------------------------------------------------------------
(* HTTP workers: the operations that concern the child.                    *)

\* The accept loop of main hands a connection to a free worker.
Accept(w) ==
    /\ pc[w] = "idle" /\ pc["main"] = "run"
    /\ Goto(w, "accepted")
    /\ UNCHANGED <<mutex, frame, call, child, backend, prefs, load, job, cmp, request, flags>>

\* A refused operation, or one that only reads.
Refuse(w) ==
    /\ pc[w] = "accepted"
    /\ Goto(w, "idle")
    /\ UNCHANGED <<mutex, frame, call, child, backend, prefs, load, job, cmp, request, flags>>

Serves(w, op) == pc[w] = "accepted" /\ Free /\ op \in Ops

\* /app/select, /app/download, and /app/setup, which does the one or the other
\* but is admitted like a selection.
Prepare(w, op, m, installed) ==
    LET download == op = "download" \/ (op = "setup" /\ ~installed)
        activate == ~download \/ pid = 0
    IN  /\ Serves(w, op)
        /\ ~closing /\ ~stopping /\ ~cmp.running /\ ~job.running
        /\ op = "download" => ~(pid # 0 /\ m = model)
        /\ generating => op = "download" /\ pid # 0
        /\ selected' = IF activate /\ pid = 0 THEN m ELSE selected
        /\ BeginJob(m, activate)
        /\ pc' = [pc EXCEPT ![w] = "idle", !["job"] = JobLabel]
        /\ UNCHANGED <<mutex, frame, call, child, backend, pref, cmp, request>>

\* /app/remove: the owned model is stopped before its files are unlinked.
Remove(w, m) ==
    /\ Serves(w, "remove")
    /\ ~closing /\ ~stopping /\ ~cmp.running /\ ~job.running /\ ~generating
    /\ call' = [call EXCEPT ![w].model = m]
    /\ \/ /\ pid # 0 /\ model \in {m, Custom}       \* Custom may be m's file
          /\ CallStop(w, "removed")
       \/ /\ ~(pid # 0 /\ model = m)
          /\ mutex' = w /\ Goto(w, "removed") /\ UNCHANGED frame
    /\ UNCHANGED <<child, backend, prefs, load, job, cmp, request, flags>>

Removed(w) ==
    /\ Holds(w, "removed")
    /\ \/ /\ selected' = IF selected = call[w].model THEN NoModel ELSE selected
          /\ model' = IF model = call[w].model THEN NoModel ELSE model
       \/ UNCHANGED <<selected, model>>       \* unlink or save_selection failed
    /\ Leave(w, "idle")
    /\ UNCHANGED <<frame, child, mode, active, save, pref, load, job, cmp, request,
                   flags>>

\* Mutant: /app/stop does not wait for the request.
StopDuringRequest(w) ==
    /\ Serves(w, "stop")
    /\ ~stopping /\ ~cmp.running /\ ~job.running
    /\ CallStop(w, "stopped")
    /\ UNCHANGED <<call, child, backend, prefs, load, job, cmp, request, flags>>

\* /app/stop.
Stop(w) ==
    /\ Serves(w, "stop")
    /\ ~stopping /\ ~cmp.running /\ ~generating /\ ~job.running
    /\ CallStop(w, "stopped")
    /\ UNCHANGED <<call, child, backend, prefs, load, job, cmp, request, flags>>

Stopped(w) ==
    /\ Holds(w, "stopped")
    /\ model' = NoModel
    /\ Leave(w, "idle")
    /\ UNCHANGED <<frame, child, mode, active, save, prefs, load, job, cmp, request,
                   flags>>

\* /app/execution: a policy with the same effect keeps the process.
Execution(w, md) ==
    /\ Serves(w, "execution")
    /\ ready /\ ~cmp.running /\ ~generating /\ ~job.running
    /\ md = "gpu" => model \in GpuModels
    /\ IF Backend(model, md) = active
       THEN /\ pref' = IF model \in Catalog THEN [pref EXCEPT ![model] = md] ELSE pref
            /\ mode' = md
            /\ Goto(w, "idle")
            /\ UNCHANGED <<mutex, frame, call, load, loadCancelled>>
       ELSE /\ CallStart(w, load, model, md, "exec_started")
            /\ UNCHANGED <<pref, mode>>
    /\ UNCHANGED <<child, model, active, save, selected, job, cmp, request, closing,
                   cancelled, compareCancelled>>

\* A failed switch falls back to the CPU.
ExecutionStarted(w) ==
    /\ Holds(w, "exec_started")
    /\ IF pid = 0
       THEN CallStart(w, load, call[w].model, "cpu", "exec_restored")
       ELSE Leave(w, "idle") /\ UNCHANGED <<frame, load, loadCancelled>>
    /\ UNCHANGED <<child, backend, prefs, job, cmp, request, closing, cancelled,
                   compareCancelled>>

ExecutionRestored(w) ==
    /\ Holds(w, "exec_restored")
    /\ Leave(w, "idle")
    /\ UNCHANGED <<frame, child, backend, prefs, load, job, cmp, request, flags>>

\* Mutant: a comparison starts beside a job.
CompareBesideJob(w) ==
    /\ Serves(w, "compare")
    /\ ready /\ ~generating /\ ~cmp.running /\ model \in Catalog
    /\ compareCancelled' = FALSE
    /\ \/ /\ cmp' = [cmp EXCEPT !.running = TRUE]
          /\ pc' = [pc EXCEPT ![w] = "idle", !["compare"] = "begin"]
       \/ UNCHANGED cmp /\ Goto(w, "idle")           \* no thread could be created
    /\ UNCHANGED <<mutex, frame, call, child, backend, prefs, load, job, request, closing,
                   cancelled, loadCancelled>>

\* /app/performance/compare.
CompareStart(w) ==
    /\ Serves(w, "compare")
    /\ ready /\ ~generating /\ ~job.running /\ ~cmp.running /\ model \in Catalog
    /\ compareCancelled' = FALSE
    /\ \/ /\ cmp' = [cmp EXCEPT !.running = TRUE]
          /\ pc' = [pc EXCEPT ![w] = "idle", !["compare"] = "begin"]
       \/ UNCHANGED cmp /\ Goto(w, "idle")           \* no thread could be created
    /\ UNCHANGED <<mutex, frame, call, child, backend, prefs, load, job, request, closing,
                   cancelled, loadCancelled>>

\* Mutant: the cancel of a load does not reach the job.
ActivityCancelLoadOnly(w) ==
    /\ Serves(w, "activity_cancel")
    /\ \/ /\ generating /\ cmp.running
          /\ \E t \in Requesters : pc[t] \in {"admitted", "talk", "answered", "abandoned"}
          /\ compareCancelled' = TRUE
          /\ UNCHANGED loadCancelled
       \/ /\ ~generating /\ load.out = "running"
          /\ job.running \/ (pid # 0 /\ ~ready)
          /\ loadCancelled' = TRUE
          /\ UNCHANGED compareCancelled
    /\ Goto(w, "idle")
    /\ UNCHANGED <<mutex, frame, call, child, backend, prefs, load, job, cmp, request,
                   closing, cancelled>>

\* /app/activity/cancel for the operation that is active.  (A cancelled request
\* is an Abandon; request_cancelled itself is not modelled.)
ActivityCancel(w) ==
    /\ Serves(w, "activity_cancel")
    /\ \/ /\ generating /\ cmp.running
          /\ \E t \in Requesters : pc[t] \in {"admitted", "talk", "answered", "abandoned"}
          /\ compareCancelled' = TRUE
          /\ UNCHANGED <<loadCancelled, cancelled>>
       \/ /\ ~generating /\ load.out = "running"
          /\ job.running \/ (pid # 0 /\ ~ready)
          /\ loadCancelled' = TRUE
          /\ cancelled' = (cancelled \/ job.activate)
          /\ UNCHANGED compareCancelled
    /\ Goto(w, "idle")
    /\ UNCHANGED <<mutex, frame, call, child, backend, prefs, load, job, cmp, request, closing>>

\* /app/cancel, /app/performance/cancel and /app/quit take no mutex.
SetFlag(w, op) ==
    /\ pc[w] = "accepted" /\ op \in Ops
    /\ \/ op = "cancel" /\ cancelled' = TRUE /\ UNCHANGED <<closing, compareCancelled>>
       \/ op = "compare_cancel" /\ compareCancelled' = TRUE /\ UNCHANGED <<closing, cancelled>>
       \/ op = "quit" /\ closing' = TRUE /\ UNCHANGED <<cancelled, compareCancelled>>
    /\ Goto(w, "idle")
    /\ UNCHANGED <<mutex, frame, call, child, backend, prefs, load, job, cmp, request,
                   loadCancelled>>

\* /app/quit-if-idle.
QuitIfIdle(w) ==
    /\ Serves(w, "quit_if_idle")
    /\ ~cmp.running /\ ~generating /\ ~job.running /\ ~(pid # 0 /\ ~ready)
    /\ closing' = TRUE
    /\ Goto(w, "idle")
    /\ UNCHANGED <<mutex, frame, call, child, backend, prefs, load, job, cmp, request,
                   cancelled, loadCancelled, compareCancelled>>

Worker(w) ==
    \/ Refuse(w) \/ Generate(w)
    \/ \E op \in {"select", "download", "setup"}, m \in Catalog, installed \in BOOLEAN :
         Prepare(w, op, m, installed)
    \/ \E m \in Catalog : Remove(w, m)
    \/ \E md \in Modes : Execution(w, md)
    \/ Removed(w) \/ Stop(w) \/ Stopped(w) \/ ExecutionStarted(w) \/ ExecutionRestored(w)
    \/ CompareStart(w) \/ ActivityCancel(w) \/ QuitIfIdle(w)
    \/ \E op \in {"cancel", "compare_cancel", "quit"} : SetFlag(w, op)

-----------------------------------------------------------------------------
(* The main thread: startup and shutdown.                                  *)

\* Without --model and without an installed selection nothing is started.
BootIdle ==
    /\ pc["main"] = "boot" /\ Free
    /\ pc' = [pc EXCEPT !["main"] = "run", !["monitor"] = "check"]
    /\ UNCHANGED <<mutex, frame, call, child, backend, prefs, load, job, cmp, request, flags>>

\* The saved selection is verified and started.
BootSelected ==
    /\ pc["main"] = "boot" /\ Free
    /\ selected \in Catalog
    /\ BeginJob(selected, TRUE)
    /\ pc' = [pc EXCEPT !["main"] = "run", !["monitor"] = "check", !["job"] = JobLabel]
    /\ UNCHANGED <<mutex, frame, call, child, backend, prefs, cmp, request>>

\* --model.
BootCustom ==
    /\ pc["main"] = "boot" /\ Free
    /\ CallStart("main", load, Custom, SavedMode(Custom), "booted")
    /\ UNCHANGED <<child, backend, prefs, job, cmp, request, closing, cancelled,
                   compareCancelled>>

Booted ==
    /\ Holds("main", "booted")
    /\ mutex' = "none"
    /\ pc' = [pc EXCEPT !["main"] = "run", !["monitor"] = "check"]
    /\ UNCHANGED <<frame, call, child, backend, prefs, load, job, cmp, request, flags>>

\* The accept loop ends on /app/quit or a signal.
MainClose ==
    /\ pc["main"] = "run"
    /\ closing \/ "signal" \in Ops
    /\ closing' = TRUE
    /\ cancelled' = TRUE
    /\ Goto("main", "join_monitor")
    /\ UNCHANGED <<mutex, frame, call, child, backend, prefs, load, job, cmp, request,
                   loadCancelled, compareCancelled>>

MainStep(from, to) ==
    /\ pc["main"] = from
    /\ Goto("main", to)
    /\ UNCHANGED <<mutex, frame, call, child, backend, prefs, load, job, cmp, request, flags>>

JoinMonitor == pc["monitor"] = "exit" /\ MainStep("join_monitor", "drain")
DrainWorkers ==
    (\A w \in Workers : pc[w] = "idle") /\ Free /\ MainStep("drain", "join_compare")
JoinCompare == pc["compare"] = "off" /\ MainStep("join_compare", "join_job")

\* Mutant: the job is not joined.
JoinNoJob ==
    /\ pc["main"] = "join_job" /\ Free
    /\ CallStop("main", "final")
    /\ UNCHANGED <<call, child, backend, prefs, load, job, cmp, request, flags>>

JoinJob ==
    /\ pc["main"] = "join_job" /\ pc["job"] = "off" /\ Free
    /\ CallStop("main", "final")
    /\ UNCHANGED <<call, child, backend, prefs, load, job, cmp, request, flags>>

MainDone ==
    /\ Holds("main", "final")
    /\ Leave("main", "done")
    /\ UNCHANGED <<frame, child, backend, prefs, load, job, cmp, request, flags>>

Main ==
    \/ BootIdle \/ BootSelected \/ BootCustom \/ Booted \/ MainClose
    \/ JoinMonitor \/ DrainWorkers \/ JoinCompare \/ JoinJob \/ MainDone

Terminated == pc["main"] = "done" /\ UNCHANGED vars

-----------------------------------------------------------------------------
Init ==
    /\ mutex = "none"
    /\ pc = [t \in Threads |-> CASE t \in Workers -> "idle"
                                 [] t = "main" -> "boot"
                                 [] OTHER -> "off"]
    /\ frame = [t \in Threads |-> NoFrame]
    /\ call = [t \in Threads |-> NoCall]
    /\ pid = 0 /\ procs = {} /\ dead = {} /\ generation = 0
    /\ ready = FALSE /\ stopping = FALSE
    /\ model = NoModel /\ mode = "auto" /\ active = "cpu" /\ save = FALSE
    /\ pref = [m \in Catalog |-> "auto"]
    /\ selected \in Catalog \union {NoModel}
    /\ load = [gen |-> 0, out |-> "none"]
    /\ job = [running |-> FALSE, activate |-> FALSE, model |-> NoModel, ok |-> FALSE]
    /\ cmp = NoComparison
    /\ generating = FALSE /\ served = [t \in Requesters |-> 0] /\ tainted = {}
    /\ closing = FALSE /\ cancelled = FALSE
    /\ loadCancelled = FALSE /\ compareCancelled = FALSE

Next ==
    \/ Monitor \/ Job \/ Compare \/ Main \/ Terminated
    \/ \E w \in Workers : Accept(w) \/ Worker(w)
    \/ \E t \in Requesters : Request(t)
    \/ \E t \in Threads : StopBegin(t) \/ StopEnd(t) \/ SpawnOk(t) \/ SpawnFail(t)
    \/ \E g \in 1..MaxGen : ChildExit(g)

Spec == Init /\ [][Next]_vars

(***************************************************************************)
(* Fairness: every thread keeps running and gets the mutex in the end; a   *)
(* request ends within its deadlines and a load within its 120 seconds.    *)
(* Nothing makes a client send a request, a signal arrive or a child exit. *)
(***************************************************************************)
Progress(t) ==
    \/ StopBegin(t) \/ StopEnd(t) \/ SpawnOk(t) \/ SpawnFail(t)
    \/ t \in Requesters /\ Request(t)
    \/ t \in Workers /\ Worker(t)
    \/ t = "monitor" /\ Monitor
    \/ t = "job" /\ Job
    \/ t = "compare" /\ Compare
    \/ t = "main" /\ (closing \/ pc["main"] # "run") /\ Main

Fairness ==
    /\ \A t \in Threads : SF_vars(Progress(t))
    /\ SF_vars(PollReady \/ PollTimeout \/ PollMismatch)

FairSpec == Spec /\ Fairness

-----------------------------------------------------------------------------
(* Properties.                                                             *)

Labels == {"idle", "accepted", "off", "stop", "nap", "spawn", "check", "poll", "exit",
           "poll_cancelled", "poll_mismatch", "poll_reaped", "poll_restarted",
           "work", "job_started", "job_tail",
           "admitted", "talk", "answered", "abandoned", "req_stopped", "req_restarted",
           "measured", "begin", "slot", "cmp_started", "wait", "repeat", "due", "restore",
           "cmp_restored", "rewait", "finish",
           "removed", "stopped", "exec_started", "exec_restored",
           "boot", "booted", "run", "join_monitor", "drain", "join_compare", "join_job",
           "final", "done"}
\* Where stop_child and start_child_mode return to.
Backs     == {"none", "spawn", "poll_cancelled", "poll_mismatch", "poll_reaped",
              "req_stopped", "removed", "stopped", "final"}
CallBacks == {"none", "poll_restarted", "job_started", "req_restarted", "cmp_started",
              "cmp_restored", "exec_started", "exec_restored", "booted"}

LoadOperations == [gen : 0..MaxGen + 1, out : Outcomes]
Jobs == [running : BOOLEAN, activate : BOOLEAN, model : Catalog \union {NoModel},
         ok : BOOLEAN]
Comparisons == [running : BOOLEAN, model : Models \union {NoModel}, prev : Modes,
                slot : 1..2, rep : Nat, ok : BOOLEAN]

SchedOK ==
    /\ mutex \in Threads \union {"none"}
    /\ pc \in [Threads -> Labels]
    /\ frame \in [Threads -> [back : Backs, target : 0..MaxGen]]
    /\ call \in [Threads -> [model : Models \union {NoModel}, mode : Modes,
                             back : CallBacks]]
ChildOK ==
    /\ pid \in 0..MaxGen /\ generation \in 0..MaxGen
    /\ procs \in SUBSET (1..MaxGen) /\ dead \in SUBSET (1..MaxGen)
    /\ ready \in BOOLEAN /\ stopping \in BOOLEAN
BackendOK ==
    /\ model \in Models \union {NoModel} /\ mode \in Modes
    /\ active \in {"cpu", "gpu"} /\ save \in BOOLEAN
    /\ pref \in [Catalog -> Modes] /\ selected \in Catalog \union {NoModel}
RequestOK ==
    /\ generating \in BOOLEAN
    /\ served \in [Requesters -> 0..MaxGen]
    /\ tainted \in SUBSET (0..MaxGen)
FlagsOK ==
    /\ closing \in BOOLEAN /\ cancelled \in BOOLEAN
    /\ loadCancelled \in BOOLEAN /\ compareCancelled \in BOOLEAN

\* Every variable has its type; a new child's pid is its generation.
TypeOK ==
    /\ SchedOK /\ ChildOK /\ BackendOK /\ RequestOK /\ FlagsOK
    /\ load \in LoadOperations /\ job \in Jobs /\ cmp \in Comparisons

\* docs/MODEL-LIFECYCLE.md: the app stops and reaps its old child before it
\* spawns the replacement, and never keeps two resident models.  Whatever the
\* threads do during stop_child's naps, the only child not yet reaped is the
\* one app.child.pid names.
OneResident == dead \subseteq procs /\ procs \subseteq {pid} \ {0}

\* `generating' admits one request at a time to the child, whether it comes
\* from generate, from completions or from the comparison.
RequestExclusive ==
    /\ generating <=> \E t \in Requesters : served[t] # 0
    /\ \A s, t \in Requesters : served[s] # 0 /\ served[t] # 0 => s = t

\* The exclusive operations of geist-app: no comparison beside a job, no
\* request beside a job that will replace its child, and none but its own
\* beside a comparison.
ExclusiveUse ==
    /\ ~(cmp.running /\ job.running)
    /\ ~(generating /\ job.running /\ job.activate)
    /\ cmp.running => \A w \in Workers : served[w] = 0

\* docs/RUNTIME-ACTIVITY.md: cancelling synchronous inference reaps the process
\* and reloads it before another request can run.  No request talks to a child
\* on which an earlier one was abandoned.
FreshAfterAbandon ==
    \A t \in Requesters : pc[t] = "talk" => served[t] \notin tainted

\* Shutdown leaves no child behind and no thread that could start one
\* (main joins monitor, workers, comparison and job before its stop_child).
NoOrphan ==
    pc["main"] = "done" =>
        /\ procs = {} /\ pid = 0
        /\ \A t \in Threads \ {"main"} : pc[t] \in {"idle", "off", "exit"}

\* A live child loses its readiness only when no request is talking to it:
\* stop, remove, select, execution, comparison and shutdown wait for it.  The one
\* exception is a stop_child that still naps over an earlier child.
ReadyUntilServed ==
    [][ready /\ ~ready' /\ pid \in procs \ dead =>
         \/ \A t \in Requesters : ~(pc[t] \in {"admitted", "talk"} /\ served[t] = pid)
         \/ \E t \in Threads : pc[t] = "nap" /\ pc'[t] # "nap" /\ frame[t].target # pid]_vars

\* An acknowledged cancel of a load is not forgotten while that load goes on,
\* although start_child_mode clears the flag: only what the user asks for next,
\* or the comparison that restores the user's model, withdraws it.  (While
\* `generating', the flag is a leftover: a cancel would be the request's.)
CancelKept ==
    [][loadCancelled /\ ~loadCancelled' /\ load.out = "running" /\ ~generating =>
         \/ load'.out # "running" \/ load'.gen # load.gen
         \/ \E w \in Workers : pc[w] = "accepted" /\ pc'[w] # "accepted"
         \/ pc["compare"] # pc'["compare"]]_vars

\* routes.c:503: "the choice is saved only once the new one has started (jobs.c): a
\* failed or cancelled switch keeps the working model".  The saved choice becomes the
\* model that runs, or is the user's own while nothing runs and no job prepares a
\* model; only a removal takes it away.  A switch that fails, or is cancelled, once
\* the old child is gone saves nothing.
SelectionFollowsStart ==
    [][selected' # selected =>
         \/ pid # 0 /\ selected' = model
         \/ pid = 0 /\ ~job.running
         \/ selected' = NoModel /\ \E w \in Workers : Holds(w, "removed")]_vars

\* Quitting ends: every thread is joined and the child is reaped.
Shutdown == closing ~> pc["main"] = "done"

\* No request keeps the model busy for ever.
RequestEnds == generating ~> ~generating

\* The comparison ends, whatever happens to its children.
CompareEnds == cmp.running ~> ~cmp.running

\* docs/RUNTIME-ACTIVITY.md gives each operation one terminal outcome.  One that
\* a job or a child carries gets it, unless the app shuts down, or /app/stop or
\* /app/remove takes the child away: these two leave it without.
Carried   == load.out = "running" /\ (job.running \/ pid # 0)
TakenAway == pid = 0 /\ \E w \in Workers : Holds(w, "stopped") \/ Holds(w, "removed")
LoadEnds  == Carried ~> (load.out # "running" \/ closing \/ TakenAway)

(***************************************************************************)
(* The promise.  A request that is being replaced by a restart sits inside *)
(* stop_child or start_child_mode: it is the abandoned one.                *)
(***************************************************************************)
At(label) == \E t \in Requesters : pc[t] = label
Stage ==
    CASE ~generating /\ pc["compare"] = "due" -> "due"
      [] ~generating /\ pc["compare"] # "due" -> "none"
      [] generating /\ At("admitted") -> "admitted"
      [] generating /\ At("talk")     -> "talk"
      [] generating /\ At("answered") -> "answered"
      [] OTHER -> "abandoned"

\* The child that may still answer.
Partner ==
    LET sent == {t \in Requesters : pc[t] \in {"talk", "answered"}}
    IN  IF sent = {} THEN 0 ELSE served[CHOOSE t \in sent : TRUE]

Service == INSTANCE ModelService
           WITH resident <- pid, spawned <- generation, request <- Stage,
                partner <- Partner, spoiled <- tainted, closing <- closing

\* child.c, chat.c, observe.c: whatever the threads do with the child, clients
\* see the service of ModelService.
KeepsService == Service!Spec

-----------------------------------------------------------------------------
(* Statements of the comments and the docs that the code does not keep.    *)

\* child.c, poll_child: "A replacement's verification may already have failed
\* or be active. Reaping the previous generation must not overwrite that newer
\* outcome".  What the monitor learns of a child is never recorded as the
\* outcome of an operation whose child has not been started yet.
NewerOutcomeKept ==
    [][load.out = "running" /\ load.gen > generation =>
         /\ load'.out # "completed"
         /\ load'.out = "failed" => mutex # "monitor"]_vars

\* compare.c: "Comparison must not rewrite the user's saved processor
\* preference."
ComparisonKeepsPreference == [][cmp.running => pref' = pref]_vars
=============================================================================
