# geist-serve: a verification development

geist-serve is two programs. **geistd** (`src/src/geistd.c`) loads one GGUF
model and serves sessions and chats over a socket, one connection at a time.
**geist-app** (`src/src/app/`) is the local application: an HTTP server with a
small pool of workers, a monitor thread, a model job and a processor
comparison, which together own *one* geistd child process. This directory holds
TLA+ models of them, the configurations that check the models with TLC, and
proofs checked by TLAPS.

## 1. Inventory

### Components, their state and how they interact

| Component | Source | State | Operations | Interacts by |
|---|---|---|---|---|
| child supervision | `app/child.c` | `app.child`, `app.backend`, `generation`, `stopping`, the backend preference files | `start_child`, `start_child_mode`, `stop_child`, `poll_child` | fork/kill/waitpid, `app.mutex`, which `stop_child` releases while it naps |
| model job | `app/jobs.c` | `app.job`, `.part` and model files, receipts, `selected` | `begin_job`, `model_job`, `download_model` | own thread; ends by starting the child |
| comparison | `app/compare.c` | `app.compare` | `comparison_start`, `comparison_main`, `comparison_ready` | own thread; restarts the child per processor and sends it requests |
| requests | `app/chat.c`, `app/observe.c` | `app.child.generating`, `app.observe`, the request activity | `generate`, `completions`, `observation_begin`, `observation_end` | HTTP workers; the child's socket |
| monitor | `app/observe.c` | – | `monitor_main` | polls the child every 100 ms |
| routes | `app/routes.c`, `app/status.c` | – | select, download, setup, remove, stop, execution, compare, cancel, quit | HTTP workers under `app.mutex` |
| main thread | `app/main.c` | `app.workers`, `closing`, `interrupted` | boot, accept loop, shutdown | creates and joins the threads |
| activity record | `app/activity.c` | `app.activity` | `activity_begin/step/progress/end` | called under `app.mutex` |
| performance journal | `app/performance.c` | queue of 64, up to 8192 records, a file | submit, writer, clear, export, compaction | own thread, own mutex |
| daemon client | `app/daemon.c` | `held`: mirror of the child's chat | `app_daemon_chat` | the child's socket |
| preferences, connection | `app/prefs.c`, `app/connection.c` | small files written by rename | save/read, `app_home`, `app_key` | file system |
| telemetry | `app/memory.c`, `app/resources.c`, `app/platform.c` | sample windows | sampling | operating system |
| session table | `geistd.c` | `sess[]`, `chats[]` | hello, open, prefill, peek, step, generate, pin, unpin, reset, close, chat_* | the engine (external); sequential |
| lifecycle memory | `lifecycle.c`, `resource_sampler.c` | two sequence-locked snapshots | `lifecycle_phase/read`, `memory_write/read`, `resource_sampler_capture` | memory shared by the two processes |
| parsing | `gguf.c`, `json.c`, `net.c`, `model.c`, `app/request.c`, `app/catalog.c`, `app/compat.c`, `app/core.c` | – | pure functions | – |

### What is hard

* `stop_child` releases `app.mutex` up to twenty times while it waits for the
  child. It is called by the monitor, the job, the comparison, any worker and
  main, so that several threads can be inside it together, over the same child
  or over each other's.
* A critical section that contains a start is therefore not atomic: the guards
  that its beginning evaluated (nothing generating, no job, no comparison) must
  still hold where it ends.
* Requests are admitted in one section, served without the mutex, and ended in
  another; cancellation, disconnection, deadlines and the child's death all race
  the answer.
* Outcomes arrive late: the monitor learns of a child's end or readiness when a
  newer operation may already have begun.
* Shutdown must stop four kinds of threads in an order in which none can start
  another child.
* geistd believes in a history that mirrors the engine's KV cache; geist-app
  believes in a mirror of geistd's chat. Both must survive failures of either
  side.
* The shared memory is read while it is written.

`PROJECT.json` lists the hazards at their lines, with the properties that cover
them.

### What makes each component correct

* Supervision: never two children resident; no child left behind; a request has
  the child to itself; no request meets a child on which one was abandoned; a
  live child is not taken from under a request; each load has one outcome.
* Model job: the selection that is saved is one that has run; nothing is
  started that was not verified; no good file is lost, no bad one stays.
* Session table: history equals KV cache; prefill makes the context what the
  request says; eviction takes the least recently used.
* Lifecycle memory: no torn snapshot; the reader may miss but not invent one.
* Journal: cleared and excluded records stay away; each record is counted once.
* Chat: an answer continues the request's conversation and no other.

## 2. Plan

| # | Module | Composes / refines | Theorems worth proving | State |
|---|---|---|---|---|
| 1 | `Supervisor` | routes, job, comparison, requests, monitor, main over one child; implements `ModelService` | types, one resident child, exclusion, fresh child, nothing left behind, what a step may not take away, refinement | done |
| 2 | `Sessions` | geistd's session table; implements `Contexts` | history = KV cache, contexts fit, refinement | done |
| 3 | `Lifecycle` | geistd's main, sampler and geist-app over shared memory; implements `Reports` | no torn read, none that goes back, refinement | done |
| 4 | `PerfJournal` | requests, queue, writer, settings, deletion and the journal's files under crashes; implements `History` | what was deleted or excluded stays away, every record counted, compaction safe, refinement | done |
| 5 | `HeldChat` | app mirror and daemon chat; implements `ChatService` | refinement | done |
| 6 | `ModelFile` | download, verify, receipt and start, against other programs and kills | only verified content is trusted | done |
| 7 | `Files` | home directory, key, connection file | atomic replacement | not written (section 11) |

What would come next: the other operations of the activity record. `ModelFile` has
properties and no refinement: what a user may rely on is that what runs was verified,
except after the edits of `raced`, and an abstract module would repeat those edits
step by step, since other programs write the very files it would hide.

## 3. Supervisor: the model and the code

One variable per field the properties depend on; the comment beside each names
the field. `mutex` is the thread that holds `app.mutex` *between* steps: a
critical section that calls nothing that unlocks is one step, one that calls
`stop_child` or `start_child_mode` is cut at those calls. `frame[t]` is the
activation of `stop_child` by thread `t` (where it returns, and which child it
set out to stop, which only the properties read); `call[t]` that of
`start_child_mode`. `pc[t]` is the place of each thread:

| Thread | Places | Code |
|---|---|---|
| any | `stop`, `nap`, `spawn` | `stop_child` before and during its naps; `start_child_mode` after its `stop_child` |
| monitor | `check`, `poll`, `poll_*`, `exit` | `monitor_main`, the branches of `poll_child` |
| job | `off`, `work`, `job_started`, `job_tail` | `model_job` |
| comparison | `off`, `begin`, `slot`, `cmp_started`, `wait`, `check`, `repeat`, `due`, request places, `measured`, `restore`, `cmp_restored`, `rewait`, `finish` | `comparison_main`, `comparison_ready` |
| worker | `idle`, `accepted`, request places, `removed`, `stopped`, `exec_*` | `handle`, `generate`, `completions`, `execution_response` |
| requests | `admitted`, `talk`, `answered`, `abandoned`, `req_stopped`, `req_restarted` | between `observation_begin` and the end of `observation_end` |
| main | `boot`, `booted`, `run`, `join_monitor`, `drain`, `join_compare`, `join_job`, `final`, `done` | `main` |

Actions and handlers correspond by the `map` of `PROJECT.json`.

Abstractions:

* Processes are named by the generation that spawned them and process IDs are
  never reused. `procs` holds the children not yet reaped, `dead` those of them
  that have exited; `waitpid` finds `pid \in dead`, or an error if it was reaped.
* The twenty naps are one place: a nap after which the child still runs and
  which is not the last changes nothing. `StopEnd` may happen while the child
  lives: that is SIGKILL after the last nap.
* Time: a request's deadlines, the 120 seconds of a load and the comparison's
  60-second waits may end at any step.
* The socket path is read without the mutex; `Connect` reads whatever child is
  current at that moment, or none.
* A successful handshake may name the expected processor or another one; the
  engine behind it is not modelled.
* `served[t]` and `tainted` are history variables: which child a thread's
  request is for, and on which children a request was abandoned. No guard reads
  them, except that `Answer` needs the child it talks to.
* 498/499 and `request_cancelled` are one abandonment. Messages, notices,
  performance records, the download and request activities, lifecycle samples,
  preview consent, preferences and catalog import are left out.
* `begin_job`'s refusal of an unsupported model file and `start_child_mode`'s
  refusal of an unsupported GPU do not occur for the models of `Catalog` as their
  callers use them. A monitor thread that cannot be created is not modelled.
* `job_tail` forgets the job's model, so that finished jobs are one state.
* Main starts the monitor in the step that starts the job.

Bound: `MaxGen` children; a spawn beyond it fails, as a spawn may at any time.

### Runs

| Run | Instance | Checks | Shows |
|---|---|---|---|
| `SupervisorWorkers` | 2 workers, 1 GPU model, 3 children | `TypeOK`, `ExclusiveUse`, `RequestExclusive`, `FreshAfterAbandon`, `ReadyUntilServed`, `CancelKept`, `KeepsService` | requests against requests, stops, switches, restarts and a whole comparison |
| `SupervisorModels` | 1 worker, 2 models and `--model`, 3 children | `OneResident`, `SelectionFollowsStart` | select, download, setup, remove, stop, `quit-if-idle` |
| `SupervisorLive` | 1 worker, 1 GPU model, 2 children | `NoOrphan`, `RequestEnds`, `LoadEnds` | requests and loads under select, stop, remove, the cancel of an activity and `quit` |
| `SupervisorLiveCompare` | 1 worker, 1 GPU model, 3 children | `CompareEnds`, `Shutdown` | the comparison on both processors, its cancel, requests and `quit` in the middle of any of it |
| `NewerOutcomeKept`, `ComparisonKeepsPreference` | small | one property each, violated | section 9 |

`ReadyUntilServed` and `CancelKept` say when a ready child and the cancellation of
a load may be taken away, and their exceptions are what the code admits. A child
that serves a request may still be stopped by a thread that has been napping in
`stop_child` since before that child was spawned: `/app/stop` naps over one child,
the monitor reaps it, its replacement is started, becomes ready and serves, and
the nap ends. The cancellation of a load that goes on is withdrawn only where a
newer load takes its place, where a worker's accepted operation starts another
child, or in a step of the comparison.

`ModelService` is what clients may rely on, whatever the threads do: a child is
started only where none is in memory (`Spawn`), it may vanish at any moment
(`Vanish`), one request is open at a time (`Admit`), none begins once the app closes,
but for one that was decided on before (`Decide`), it is sent to a child on which
none was abandoned (`Connect`), or to none (`Fail`), it is answered by that child and
only while that is in memory (`Answer`), and when it was abandoned it ends only after
the child it spoiled is gone, or while the app closes (`End`). `KeepsService` is the
refinement: `resident` is `pid`, `spawned` is `generation`, `spoiled` is `tainted`.
`Decide` is `compare.c:74`, which looks at `closing` without the mutex; the comparison
takes the mutex and admits its request in a later step (`compare.c:79-80`), without a
second look;
`Stage` and `Partner` read the request from the one thread that has it, which may sit
inside `stop_child` or `start_child_mode` on its way to a restart.

`SelectionFollowsStart` covers a switch at every point, also after the old child is
gone: from then on nothing is saved until a child of the new model runs, or the job
is over and the user chooses again.

`Ops` names the operations that clients may call in a run: `SupervisorWorkers` leaves
the cancel of a comparison and `quit` to the live runs, downloads and removal to
`SupervisorModels`. Of the live runs, the one has what can hold up a load or a request,
the other what can hold up a comparison; `Shutdown` is in the second, where main joins
a comparison in any of its waits (a job polls the same flag as a request does, and
`NoOrphan`, in the first, has the joins over a job). Its two workers are symmetric: a worker is told from another only by
its name, the run's properties are safety properties that treat all alike, and the live
runs, where symmetry would not be sound, have one worker.

Why the bounds are enough: a second worker is what it takes for two requests to
compete or for an operation to arrive during another's naps; the comparison and
the job are further threads. Two children show a replacement during a stop, three
a replacement of the replacement, or a comparison with both processors after a
load. One GPU and one CPU model, and a `--model` file, reach each branch of
`start_child`. `Repeats` is 1 where the code has 4: the second repeat repeats the
first. The safety properties that matter most are proved for every value of these
(section 10).

Fairness (`FairSpec`): strong fairness of every thread, because each waits for
the mutex, which POSIX does not hand out in order, and gets it again and again;
and of the monitor's verdict on a child that is loading, because its 120 seconds
end. A request ends because its reads have deadlines (600 s prefill, 120 s
between tokens, one hour in all: `app/daemon.c`). No fairness is assumed of
clients, signals or children.

## 4. Sessions: the model and the code

`Sessions` is the session table of geistd, which serves one connection at a
time and one request after the other; requests of one connection interleave
with those of the next, and a `generate` streams token by token. An entry of
`table` is a `struct sess` (`hist`, `pinned`, `used`; identifier 0 is a slot
that is not live) together with the engine's own state behind `x->s`: the
tokens in its KV cache (`kv`) and its pinned prefix. The engine is external. Its
calls change `kv`: `prefill_tokens` appends, or fails with a part appended;
a cache holds `CTX_CAP` tokens; `reset` truncates to the pinned prefix, or fails
if `ResetMayFail`; `pin_prefix`
truncates; `decode_step` appends one token. Each action is a branch of `handle`
with the operation it calls; every request that names a live session notes the
time, as `sess_find` does. A request refused on a live session is `Touch`.

`Contexts` is what a client may rely on: an identifier names a context, which
is what the last successful prefill asked for and the tokens decoded since; a
failure or a cut leaves a prefix of it; no operation on one identifier changes
another's context, except that an open may evict. `Sessions` implements it under
the mapping `context` (the cache of the entry with that identifier) and `reply`,
a history variable that records the last prefill.

Abstractions: tokens are model values and `random_id` never repeats one; the
hello token is right or wrong; sampling, logits, tokenization and frames are left
out; an `open` that also names a session, and the chats that live beside the
sessions, are not modelled. Bounds: `MaxId` sessions are opened, the clock stops
at `MaxTime`. `CtxCap` is 4096 in the code and 3 here.

| Run | Instance | Checks | Shows |
|---|---|---|---|
| `SessionTable` | 2 slots, 3 sessions, 1 token, `ResetMayFail` | `Fits`, `RecentSurvive` | every order of the operations and of the engine's failures |
| `SessionPromise` | the same with 2 tokens, sessions idle at once, resets that succeed | `HistoryIsCache`, `KeepsPromise` | history and cache; the refinement |

Three sessions in two slots give both kinds of eviction; requests of up to three
tokens over two of them give every relation between a request, a history and a
pinned prefix, including a request that is too long. The requests and the
tokens are symmetric.

## 5. Lifecycle: the model and the code

`Lifecycle` is the memory that one geistd shares with geist-app: `word["phase"]`
(`process`, `started_ns`, `phase_ns[]`) and `word["memory"]` (a sample), each
under its sequence number. The words are C atomics with sequential consistency,
so that an interleaving of single loads and stores is what the machine does;
each is an action. `pc["main"]` follows main (`inherit`, `process`, `started`, then
for each phase `phase`, `set`, `end`, with `start` and `create` in between for
`resource_sampler_start`, `serve`, `stop`, `join`, `close`); `cap[t]` is the place
of main or of the sampler's thread in `resource_sampler_capture`. `Die` is a
crash, a kill or a return from main at any step; it leaves the memory as it is.
`rd` is the read that geist-app makes under `app.mutex`, `seen` the snapshots it
keeps. `rd.calm` is a history variable: no write has disturbed the read.

Abstractions: a sample's words all hold its number, a phase's word is 0 or 1. The
loads that a sequence number is tested with (generation, process) are one step
with it: the process is written before either number changes. Each child has
memory of its own, so that the generation always agrees. `GEIST_RESOURCE_SAMPLING=0`
is the case without captures. `NPhases` is 5 and `NFields` 5 in the code, 3 and 2
here: two words are what it takes to tear a sample, and three phases have one
before the sampler starts, one after, and the one that may fail. `MaxSamples` = 3
lets both threads publish and one overtake a read of another's.

`Reports` is what geist-app may rely on: reports are made one after the other, and a
snapshot of a kind is taken in one moment and shows every report of that kind made so
far, and nothing else; ready is what a snapshot of the whole start says, or a geistd
that reports nothing. `Lifecycle` implements it (`ShowsReports`): `made` is half the
lock's number, rounded down, so that a report is made by the store that ends its
write; `shown` is what the reader keeps, which it takes over in the step that looks at
the number for the second time. The number of reports made at that moment is the one
the read words belong to, however many writes it overlapped before it was retried.

The run `Lifecycle` checks `Untorn`, `NotMissed`, `ReadyShowsAll`, `NoUseAfterUnmap`,
`ShowsReports` and `Unmaps`. `Forward` (no snapshot is replaced by an older one) is a
theorem; TLC checks it as a part of `ShowsReports`, whose reports only grow. Fairness (`FairSpec`) is that of geistd's two
threads once main has left its accept loop; nothing is assumed of the reader.

## 6. PerfJournal: the model and the code

`PerfJournal` is the performance history. Its lock `p.disk` is held by one `job`
at a time (`init`, `writer`, `settings`, `clear`), and `at` is the file operation
it has reached; whoever holds only `p.mutex` is one step. `records` is the
memory, `queue` what waits for the writer, `popped` what the writer holds.
`saved`, `prev`, `cur` and `cache` are the files, `temps` the temporary ones.
`Stage` and `Rename` are `atomic_file` for each of them; `Replaced` is what its
caller does next. `perf_init` is `Start` (temporary files are removed), `ReadSettings`,
`LoadPrev`, `LoadCur` with the compaction it may begin, and `Seal`. `Crash` is a kill
between any two file operations; `MaxFaults` of them may fail on their own: a write, a
rename, a sync, an unlink of a segment or of a temporary file, the reading of the
settings, or of a segment, which then ends after any of its lines. History variables:
`cleared` and `acked` (what an acknowledged deletion covered), `excluded` (requests that
met an opt-out),
`legacy` (imported measurements), `committed` (appended with success and dropped
since by no bound and no compaction without them), `unread` (a start could not read
the tombstone of the last deletion, and no later one has found it), `stuck` (temporary
files this process has tried in vain to remove).

Abstractions: a record is the number of its request; requests are one at a time,
so lists and files are in the order of the numbers and a set stands for each. A
segment is full after `SegmentLines` lines instead of 10 MiB. A kill is one of the
process: what was written is not lost with the operating system. `aged` is how far
records are older than 30 days; none is older than 90. The removal of the temporary
files at a start is one step, and one fault stands for any of them that stay, as it
does for a write that fails and leaves its file. Old measurements
(`migrate_measurements`) are counted, not named: `Measurements` is how many
preferences of the kind there are, each imported while its record is not in memory. A
performance directory that cannot be opened, a writer thread that cannot
be created, the error flag, the views computed from the memory, `export.jsonl` and
what makes a record valid are left out.

`History` is what the user may rely on, whatever files, queues and copies there are: a
record enters once, when its request ends, unless it was deleted or excluded before; it
may be lost at any moment and then never returns; an acknowledged deletion leaves
nothing and bars what has begun; and nothing is imported after it until its tombstone
is lost (`Recall` is a start that no longer finds it, or finds it again).
`PerfJournal` implements it (`KeepsHistory`): `held` is
every place where a record may be: memory, queue, the writer's hands, the files and the
copy that a compaction works on; `barred` is what was deleted or
excluded, `open` the request in flight. That a record that is lost does not return
is what a compaction, a restart or a late writer could break; a crash is a loss.

The run `PerfJournal` (two records, of requests or of two old measurements, memory of 2,
queue of 1, segments of one line, three starts, two calls of settings or deletion, one
failing operation) checks the properties of the module; `ClearedStaysCleared`, a theorem,
is a part of `KeepsHistory`, whose held and barred records never meet. Two records
overflow the queue and fill both segments, and a compaction splits them; two starts put
a crash between them, and the third is what a start that failed to read leads to; the
two calls are an opt-out, a shorter time (which turns the history on again), or a
deletion, in any order. A third record, which makes room in memory and lets a rotation
drop lines, is beyond what TLC finishes beside two calls and a failure: with `MaxRecords`
equal to `MaxSeq` the run never reaches the bound of the memory. The theorems hold for
any numbers, `SpecTypeOK` with that bound.

## 7. HeldChat: the model and the code

`HeldChat` is `app_daemon_chat` (`pc`, `attempt`, `keep`, `held`), geistd's chats
(`chats`: open with eviction, rewind, send, close), other clients of geistd that
open chats, and the death and restart of geistd. `observation_end` is `End`: after
a failure geistd is restarted or left stopped. `ChatService` is the promise: a
service without memory, which generates at most one answer for a request, from
exactly its messages and options. The mapping is `asked <- request`,
`used <- from`, where `from` is what geistd's chat held when it began to generate.

Abstractions: the conversation of geist-runtime is external and is the sequence
of messages it was sent or has said; a message is a model value. A reply that is
lost is an operation that took effect and failed. `--chats 0`, the thinking text
that geistd keeps out of a conversation, the statistics and the deadlines are left
out; a deadline is a failure at any step.

The run `HeldChat` has two messages, two option sets, requests of up to two
messages, two chats, three identifiers, two starts, two seconds: the held chat can
agree, be longer, be shorter, differ in its first message or only in options, and
be evicted before the request, between its attempts or on both.

## 8. ModelFile: the model and the code

`ModelFile` is how one model's file comes to be trusted. `at` is the place of
`model_job` between two system calls: `fetch` (download or resumption), `stamp`
(the first stamp and the receipt), `hash`, `check` (the second stamp and the
verdict), `unlink`, `recheck` (`.part` is opened and stamped again), `rename`,
`place` (the destination must be the inode kept open), `restamp` (its new stamp,
which is an `lstat` of its own), `save` (the receipt), `tail` (the child is started). `Remove` and its two steps are
`/app/remove`. `Edit` is another program: it deletes, replaces, or changes in place
either file at any moment, right content or wrong. `Crash` and `Restart` keep the
two files and the receipt.

Abstractions: a file is absent, short, or has the model's size with the right or
wrong content; its stamp is the number of its last change, which assumes that the
file system's change time tells two changes apart, as `model_stamp`'s comment does.
A rename is a change (the change time moves), which is why the code takes a new
stamp. `lstat` fails only where nothing is. A `.part` longer than the model, which
`download_model` refuses, does not occur. A hash that reads while the file changes
may have any value. The child's own opening of the path is the step that starts it.
History variables: `looked` (the change the job first looked at), `calm` (nothing
disturbed the job), `raced`.

`raced` holds the two exceptions of `ReceiptHonest` and `StartsVerified`. First, the
inode that the job keeps open may be edited in place after its last look at `.part`
and before it takes the stamp under the new name (`jobs.c:229-236`): the code compares
the inode, not the content. Second, the comparison and the stamp are two `lstat`s of
the same path (`jobs.c:234-236` and `:145`): whatever replaces the target between them
is stamped in its stead, whichever inode it is. Both get a receipt that they did not
earn, and the child may be started from them. The comment at `jobs.c:139-142` excludes
code that runs as the same user from what the receipt attests; without the exceptions
TLC finds both at once.

The run `ModelFile` has three jobs and two edits: a download, a second job that
uses the receipt and a third after whatever the edits, a cancel or a kill left
behind; the second edit may undo or follow the first. The theorems have no bounds.

## 9. Where the code and its documentation differ

Two are `violation` runs; `PROJECT.json` quotes the text.

* `NewerOutcomeKept`: the handshake branch of `poll_child` lacks the guard that
  the reap branch has against ending a newer load operation.
* `ComparisonKeepsPreference`: a restart after an abandoned comparison request
  saves the comparison's processor as the user's preference.

Others came up while modelling and have no run:

* Two threads can be inside `stop_child` together, and the second then stops the
  first one's replacement, although `child.c:278-279` says that the waiting thread
  still owns the child (the exception of `ReadyUntilServed`).
* Stopping or removing a model that is loading leaves its load operation without an
  outcome until the next load (`routes.c:318-332` and `:434-454` call `stop_child`, and
  nobody `activity_end`), although `docs/RUNTIME-ACTIVITY.md:9-10` gives each operation
  exactly one. `LoadEnds` is checked with both operations in the run and names them as
  its exceptions (`TakenAway`); without the exception TLC finds the load that either
  leaves running.
* `compact_history` replaces the previous segment first, often by nothing. Records
  that stood there and now belong to the current one are in no file until the second
  replacement: a crash between the two loses them, although
  `docs/PERFORMANCE-PROFILES.md:128-129` calls committed journals authoritative. The
  comment at `performance.c:855-856` promises only the current segment, which
  `CurrentSurvives` confirms.
* A start that cannot read `settings.json` takes the history for turned off and the
  tombstone for absent (`performance.c:456-463`). If the user then turns it on,
  `perf_settings` saves the settings without the tombstone (`:765`), and the next start
  imports the old measurements that were deleted, although
  `docs/PERFORMANCE-PROFILES.md:139` says that the tombstone prevents it: a deletion, a
  start that fails to read, a change of the settings, a start. `LegacyGone` and
  `KeepsHistory` have this as their exception (`unread`), and hold otherwise.
* A start that cannot read a segment, or not to its end (`performance.c:373-390`), goes
  on with what it has, and the next compaction writes both segments from that memory:
  what could not be read is then gone, although `docs/PERFORMANCE-PROFILES.md:125` says
  that completed valid records are retained. `CurrentSurvives` speaks of `committed`
  records, which a compaction without them leaves.
* A temporary file that cannot be removed, by `atomic_file` itself
  (`performance.c:269-270`) or at a start (`:437`), makes every later replacement of its
  file fail until a start removes it; `docs/PERFORMANCE-PROFILES.md:128` has them removed
  on restart. It is the exception of `StagingFree` (`stuck`).
* After an append that wrote only part of its line (a full disk), the next append of
  the same process continues that line: its record counts as persisted and cannot be
  read. `performance.c:470-471` seals such a tail only at the next start.
* `docs/PERFORMANCE-PROFILES.md:151` lists `POST /app/performance/export`, which
  `routes.c` does not have.
* `app_key` creates `api-key` exclusively and then writes it: a kill in between leaves
  an empty file that no later start accepts (`connection.c:84-110`). A kill between
  rename and symlink in `app_home` leaves no link at the old path, and no later
  start makes it (`connection.c:51-59`).
* The operation `reset`, and the error path of `prefill`, cut geistd's history
  whatever the engine's reset answers, while another line of `prefill` treats that as
  an error: with `ResetMayFail`, `HistoryIsCache` would not hold. Whether the engine's
  reset can fail is beyond this repository, so `SessionPromise` and the theorems about
  `HistoryIsCache` and `KeepsPromise` assume that it does not; `Fits` and
  `RecentSurvive` are checked and proved without that assumption.
* `--idle` evicts lazily: `sess_evict_idle` runs when another session is opened, so
  that an overdue session may still answer.

## 10. Proofs

TLAPS checks all of them. Every safety and action property of a passing run, every
refinement included, is a theorem; what is only model-checked is liveness (at the
end of this section).

`Supervisor_proofs`, `SupervisorRequests_proofs` and `SupervisorSteps_proofs`, each over
the one before, prove for every set of workers and models and every bound:

| Theorem | Property |
|---|---|
| `TypesAreKept` | `TypeOK` |
| `OneResidentChild` | `OneResident` |
| `OneRequestAtATime` | `RequestExclusive` |
| `OperationsExclude` | `ExclusiveUse` |
| `FreshChild` | `FreshAfterAbandon` |
| `NothingLeftBehind` | `NoOrphan` |
| `ServedStaysReady` | `ReadyUntilServed` |
| `CancelIsKept` | `CancelKept` |
| `SelectionFollows` | `SelectionFollowsStart` |
| `ServiceIsKept` | `KeepsService`, the refinement |

They assume `ConstantsAssumption` and `ThreadsAssumption` (the models, modes and
thread names are what they are called and distinct), which TLC evaluates.

The argument, first layer (`IInv`): `OneResident` alone is not inductive, since
a spawn adds a child. What makes it safe is that the spawning thread has held
the mutex since its own `stop_child` returned, which left no child. `Framed`
states that, together with what keeps it true: a thread is inside `stop_child`
exactly when it has somewhere to return to. `Started` says which threads exist,
so that a thread created anew is not in the middle of anything.

Second layer (`RInv`, inductive given `IInv`): `Marked` ties `served` to the
places of a request, including those where it sits inside `stop_child` or
`start_child_mode` on its way to a restart; `Fresh` says that the current child
is one on which a request was abandoned only while that request is still
restarting it, or while the app is closing and the comparison has no request due, so
that one decided on before the app closes still finds a fresh child; `Counted` that generations only grow;
`Joined` follows main's joins. Each layer has one lemma per action and, under
it, one step per conjunct.

Third layer (`LInv`, inductive given the other two): what a step of `stop_child` or
`start_child_mode` may assume was decided several steps earlier. `HeldBy` says which
places are reached only with the mutex; `Quiet` that `stop_child` is entered without a
request or for a child that is not ready; `Naps` that the child it naps over is not
ready while it is still the current one; `JobCall` that the job starts its own model
and finds that one started; `Cancels` that the cancel of a load is also the cancel of
the job that would start it; `SwitchFailed` and `BootUncancelled` what is true where a
second start follows a first. TLC checked `LInv` over both instances before it was
proved. It is kept not action by action but by kind of step (`Kinds`): most steps only
move a thread (`Moves`), those that stop a child are the same step (`Enters`), and
`stop_child`, `start_child_mode`, the handshake, the reaping and the job's two ends
each have a lemma.

The refinement needs no more than the first two layers. `View` says that the one
thread with a request decides `Stage` and `Partner`; a step `Behind` the request
leaves both, so that it is a step of the service if it stops or starts a child or
begins to close, and else changes nothing; `RequestServes`, `AdmitServes` and
`CompareServes` take what remains. That an abandoned request has got rid of the child it spoiled when it
ends is `Fresh`; that it is answered by the child it was sent to is `OneResident`.

`Sessions_proofs` proves, from `SessionsAssumption`, for every number of sessions,
vocabulary, set of requests and context length:

| Theorem | Property | Resets |
|---|---|---|
| `HistoryIsTheCache` | `HistoryIsCache` | assumed to succeed (`~ResetMayFail`) |
| `PromiseIsKept` | `KeepsPromise` | assumed to succeed |
| `ContextFits` | `Fits` | may fail |
| `RecentSurvives` | `RecentSurvive` | may fail |

With resets that succeed, the inductive invariant `SInv` says of every entry that history and cache are the
same, the pinned prefixes too, and that the context is shorter than `CTX_CAP`:
the equality needs the bound, because `hist_push` refuses in silence what does
not fit while the engine has it already. The refinement needs two facts more:
`Named` (an identifier names at most one entry, and none is given out twice) and
`Busy` (the session that a `generate` streams from stays).

With resets that may fail, history and cache part, and `BInv` is what is left: the
history is within the context and no longer than the cache, and both pinned prefixes
are the same. `RecentSurvives` takes the table's types from it; the rest is that an
eviction by time takes every session that is overdue, hence all that were used before
it, and that one for room takes a session used no later than any other. That there is
one needs the smallest element of a set of numbers (`Smallest`), which is taken from
the well-foundedness of strict inclusion among finite sets, since the library's
induction theorems cannot be instantiated here.

`Lifecycle_proofs` proves, from `LifecycleAssumption`, for every number of phases,
of words in a sample and of samples:

| Theorem | Property |
|---|---|
| `SnapshotsUntorn` | `Untorn` |
| `SnapshotsForward` | `Forward` |
| `NoReadMissed` | `NotMissed` |
| `ReadyIsShown` | `ReadyShowsAll` |
| `UnmappedUnused` | `NoUseAfterUnmap` |
| `ReportsAreShown` | `ShowsReports`, the refinement |

The inductive invariant `LInv` has two halves. Of geistd: where its threads are
(`Places`), that the try-lock admits one writer (`OneWriter`), and that a number is
odd exactly while the words under it may differ (`Published`, `Reported`, `Order`).
Of the reader: while the number has not changed since it was loaded, neither have
the words loaded so far (`Loaded`); what was seen is never ahead of the memory
(`Remembered`); the read before readiness meets nobody who writes (`Ready`).
`WriterStep` joins the halves: it is all that the reader needs to know of a step
of geistd, namely that numbers and words only grow and that words change only
under an odd number. Each action of geistd is shown to be such a step, and the
reader's half is preserved by any such step.

The refinement adds a layer to it, `Counted`: a lock's number is twice the reports of
its kind, and one more while a report is being written. It is what tells a report that
is made from one that has begun, and with `Loaded` and an unchanged number it makes the
words that were read those of the last report. A step of geistd is then one report or
none, and a step of the reader one snapshot or none.

`PerfJournal_proofs` proves, for every value of the constants:

| Theorem | Property |
|---|---|
| `SpecClearedStaysCleared` | `ClearedStaysCleared` |
| `SpecLegacyGone` | `LegacyGone` |
| `SpecOptOutExcludes` | `OptOutExcludes` |
| `SpecAccounted` | `Accounted` |
| `SpecStagingFree` | `StagingFree` |
| `SpecCurrentSurvives` | `CurrentSurvives` |
| `SpecKeepsHistory` | `KeepsHistory`, the refinement |
| `SpecTypeOK` | `TypeOK` |

The inductive invariant `IInv`: records are numbered in the order they are begun
(`Numbered`), which step belongs to which job (`Steps`), no deleted or excluded
record is anywhere it could return from, the copy being compacted and the request in
flight included (`Absent`), a deletion that has unlinked files has unlinked their
records (`Deleting`), and the tombstone is saved before a deletion is acknowledged and
unsaved only after a start that could not read it (`Tombstone`). `Accounted`, `StagingFree` and `CurrentSurvives` each
have a layer of their own over it. So has `TypeOK`, which is more than types: that
memory and queue stay within their sizes (`Bounded`), and that each call of settings
or deletion begins at most one epoch (`Epochs`).

The refinement rests on `IInv` and on one invariant more (`Asked`: a request is in
flight only while the server runs, so that none is during the import, and a tombstone
is `unread` only after a deletion). Most steps
move a record between places or drop it: `NothingEnters` shows that none brings in a record
that was nowhere, so that each is `Lose` or nothing. What is left are the steps that
`History` names. That `Clear` leaves nothing (`ForgetsAll`) is where the argument
has to be made: it empties memory and queue, `Deleting` says that the files are
unlinked by then, and `Steps` that neither the writer nor a compaction holds a record.

`HeldChat_proofs` proves, from `ChatAssumption`:

| Theorem | Property |
|---|---|
| `SpecImplements` | `AnswersRequest`, the refinement |
| `SpecRetryHidesEviction` | `RetryHidesEviction` |
| `SpecSendsOnlyTheRest` | `SendsOnlyTheRest` |
| `SpecTypeOK` | `TypeOK` |

The inductive invariant says that the app's memory and the chat in geistd agree
wherever a request may still be served from them (`Agree`, broken only from the
moment an answer begins until its request has ended or geistd was restarted), that
identifiers are given once (`Unique`), that what is kept is the start of the request
(`Started`), and that the second attempt has opened a chat of its own (`Second`).
`TypeOK` has a layer of its own: no conversation is longer than a request and its
answer (`Sizes`), and every eviction of a held chat has used up an identifier of its
own, before that of a held chat that still stands (`Evicted`).

`ModelFile_proofs` proves, for any number of jobs and edits:

| Theorem | Property |
|---|---|
| `SpecTypeOK` | `TypeOK` |
| `SpecReceiptHonest` | `ReceiptHonest` |
| `SpecRetryPossible` | `RetryPossible` |
| `SpecStartsVerified` | `StartsVerified` |
| `SpecKeepsGood` | `KeepsGood` |

The inductive invariant follows the content along the job: while the stamp is
still `before`, the verdict on `match` is the truth (`Hashed`); so `.part` is right
at the second look (`Chosen`); so the inode kept open is (`Held`), the file in place
if it is that inode (`Placed`), and the file whose stamp is `after` (`Saved`), which
is what the receipt becomes (`Received`); between the last two it is right or one of
the exceptions (`Compared`). A file that is edited gets a stamp that
no variable holds yet, so each of these only loses its antecedent.

Only model-checked: `Shutdown`, `RequestEnds`, `LoadEnds`, `CompareEnds` and `Unmaps`.
They are liveness properties under fairness, which is out of the prover's reach. The
two `violation` runs of section 9 have counterexamples instead.

## 11. Not modelled

`PROJECT.json` lists every component with its state. Left out, and why:

* Parsing, formatting, the catalog, the clients, the web and desktop shells and the
  packaging: they keep no state the others rely on; TLC would restate them.
* Telemetry (`memory.c`, `resources.c`, `platform.c`): figures read from the operating
  system, with no decision that another part depends on. The hash of a file is in
  `ModelFile`.
* The home directory, the key and `connection.json`: one thread, once, at the
  start, before any other; section 9 says what a kill leaves.
* The preferences other than the processor, the selection and the receipts: values that
  are written by one atomic replacement and read once.
* The request and download operations of the activity record: one thread begins and
  ends each; only the load operation is ended by others, and that one is modelled.
* Sampling, logits, tokenization and the frames of geistd's protocol.
