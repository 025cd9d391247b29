---------------------------- MODULE PerfJournal ----------------------------
(***************************************************************************)
(* The performance history of geist-app (performance.c): requests submit   *)
(* records to a bounded memory and a bounded queue; one writer thread      *)
(* appends them to a journal of two segments, compacts the journal and     *)
(* refreshes a derived cache; the user turns the history on and off,       *)
(* chooses how long it is kept, and deletes it.  Every file operation may  *)
(* fail and is a step of its own, but for the removal of temporary files   *)
(* at a start, and the application may be killed between any two.          *)
(*                                                                         *)
(* p.disk is held by one `job' at a time, at the step `at'.  A section     *)
(* under p.mutex alone is one step.  Records are numbered in the order in  *)
(* which they are begun, which is the order of every list and file: one    *)
(* request runs at a time, and the import comes before the first.          *)
(***************************************************************************)
EXTENDS Naturals, FiniteSets

CONSTANTS
    MaxSeq,         \* bound: records begun
    MaxRecords,     \* PERF_RECORDS, what the memory holds
    QueueCap,       \* PERF_QUEUE
    SegmentLines,   \* SEGMENT_BYTES, counted in lines
    Measurements,   \* old measurements that perf_import may be called with at a start
    Choices,        \* the settings the user may choose, of those the route admits
    MaxStarts,      \* bound: starts of the application
    MaxCalls,       \* bound: calls of perf_settings and perf_clear
    MaxFaults       \* bound: file operations that fail

ASSUME JournalAssumption ==
    /\ {MaxSeq, MaxRecords, QueueCap, SegmentLines, MaxStarts, MaxCalls} \subseteq Nat \ {0}
    /\ {Measurements, MaxFaults} \subseteq Nat
    /\ Choices \subseteq [enabled : BOOLEAN, days : {30, 90}]

Numbers == 1..MaxSeq
Files   == {"settings", "prev", "cur", "cache"}     \* those atomic_file replaces
Short   == 30
Long    == 90

VARIABLES
    enabled, days, epoch, deleted,  \* p.enabled, p.days, p.epoch, p.legacy_deleted
    records, queue,                 \* p.records and p.queue
    persisted, dropped,             \* the counters shown to the user
    saved,      \* settings.json
    prev, cur,  \* observations.1.jsonl and observations.jsonl: the records of their
                \* valid lines, their length, and whether the last line is unfinished
    cache,      \* the records profiles.json was computed from
    temps,      \* the temporary files that exist
    job, at,    \* who holds p.disk, and how far it is; "down" when nothing runs
    staged,     \* the temporary file of `at' is written, not yet renamed
    ok,         \* the result so far of the settings or clear call
    want,       \* the settings being saved
    popped,     \* the record the writer took, or 0
    copy,       \* the records being compacted, or shown by the cache being written
    begun,      \* the request in flight: its record's number, epoch and enabled; or NoRequest
    serving,    \* the server accepts requests
    closing,    \* p.closing
    sequence, aged,     \* records begun so far; those up to `aged' are older than 30 days
    starts, calls, faults,  \* as many as the bounds allow
    accepted,           \* records loaded, or accepted by perf_submit, since the last reset
    cleared, acked,     \* records before the last acknowledged perf_clear, whether there was one
    excluded,           \* records of requests that met an opt-out
    legacy,             \* records that perf_import made
    committed,          \* records appended with success, and not dropped since by a bound,
                        \* or by a compaction of a memory that they are not in
    unread,             \* the tombstone of the last acknowledged deletion is not known: a
                        \* start could not read it, and no later one has found it
    stuck               \* temporary files that could not be removed since the start

policy   == <<enabled, days, epoch, deleted>>
counters == <<persisted, dropped, accepted>>
journal  == <<prev, cur>>
files    == <<saved, prev, cur, cache, temps>>
holder   == <<job, at, staged, ok, want, popped, copy>>
requests == <<begun, serving, closing, sequence, aged>>
bounds   == <<starts, calls, faults>>
intact   == <<starts, calls>>
failed   == <<unread, stuck>>
ghosts   == <<cleared, acked, excluded, legacy, committed, unread, stuck>>
vars     == <<policy, records, queue, counters, files, holder, requests, bounds, ghosts>>

NoRequest == [n |-> 0, epoch |-> 0, on |-> FALSE]
NewFile   == [lines |-> {}, size |-> 0, torn |-> FALSE]

\* The n smallest, and the n largest, of a set of numbers.
First(S, n)  == {r \in S : Cardinality({s \in S : s <= r}) <= n}
Newest(S, n) == {r \in S : Cardinality({s \in S : s >= r}) <= n}

Readable == prev.lines \union cur.lines
Up       == at # "down"

\* A file operation fails.
Fault == faults < MaxFaults /\ faults' = faults + 1

\* Older than the days kept.
Expired(S, d) == {r \in S : d = Short /\ r <= aged}

-----------------------------------------------------------------------------
(* Requests.                                                               *)

\* perf_begin.
Begin ==
    /\ serving /\ ~closing /\ begun = NoRequest /\ sequence < MaxSeq
    /\ sequence' = sequence + 1
    /\ begun' = [n |-> sequence + 1, epoch |-> epoch, on |-> enabled]
    /\ excluded' = IF enabled THEN excluded ELSE excluded \union {sequence + 1}
    /\ UNCHANGED <<policy, records, queue, counters, files, holder, serving, closing, aged,
                   bounds, cleared, acked, legacy, committed, failed>>

\* Mutant: a full queue is not counted.
AcceptUncounted(n) ==
    /\ records' = Newest((records \ Expired(records, days)) \union {n}, MaxRecords)
    /\ accepted' = accepted + 1
    /\ queue' = IF Cardinality(queue) < QueueCap THEN queue \union {n} ELSE queue
    /\ UNCHANGED dropped

\* Mutant: the queue takes one record more than it has room for.
AcceptOneMore(n) ==
    /\ records' = Newest((records \ Expired(records, days)) \union {n}, MaxRecords)
    /\ accepted' = accepted + 1
    /\ IF Cardinality(queue) <= QueueCap
       THEN queue' = queue \union {n} /\ UNCHANGED dropped
       ELSE dropped' = dropped + 1 /\ UNCHANGED queue

\* perf_submit from its checks on: the memory retains the record, and the
\* queue takes it or the record is counted as dropped.
Accept(n) ==
    /\ records' = Newest((records \ Expired(records, days)) \union {n}, MaxRecords)
    /\ accepted' = accepted + 1
    /\ IF Cardinality(queue) < QueueCap
       THEN queue' = queue \union {n} /\ UNCHANGED dropped
       ELSE dropped' = dropped + 1 /\ UNCHANGED queue

Submittable(r) ==
    /\ r.on /\ enabled /\ r.epoch = epoch
    /\ r.n \notin Expired({r.n}, days) /\ r.n \notin records

\* perf_submit; a record that is not valid is ignored.
Submit ==
    /\ begun # NoRequest
    /\ \/ Submittable(begun) /\ Accept(begun.n)
       \/ UNCHANGED <<records, queue, accepted, dropped>>
    /\ begun' = NoRequest
    /\ UNCHANGED <<policy, persisted, files, holder, serving, closing, sequence, aged,
                   bounds, ghosts>>

\* migrate_measurements: perf_import of an old measurement that is not older
\* than the days, whose identifier is always the same.
Import ==
    /\ at # "down" /\ job # "init" /\ ~serving
    /\ enabled /\ ~deleted /\ sequence < MaxSeq
    /\ Cardinality(legacy \intersect records) < Measurements
    /\ sequence' = sequence + 1
    /\ legacy' = legacy \union {sequence + 1}
    /\ Accept(sequence + 1)
    /\ UNCHANGED <<policy, persisted, files, holder, begun, serving, closing, aged, bounds,
                   cleared, acked, excluded, committed, failed>>

\* The server starts.
Serve ==
    /\ at # "down" /\ job # "init" /\ ~serving
    /\ serving' = TRUE
    /\ UNCHANGED <<policy, records, queue, counters, files, holder, begun, closing, sequence,
                   aged, bounds, ghosts>>

\* Time passes: what there is becomes old while nobody holds p.disk.
Age ==
    /\ aged < sequence /\ at \in {"free", "down"}
    /\ aged' = sequence
    /\ UNCHANGED <<policy, records, queue, counters, files, holder, begun, serving, closing,
                   sequence, bounds, ghosts>>

\* perf_export, for the user: the memory drops what is too old.
Export ==
    /\ serving /\ ~closing
    /\ records' = records \ Expired(records, days)
    /\ UNCHANGED <<policy, queue, counters, files, holder, requests, bounds, ghosts>>

-----------------------------------------------------------------------------
(* Compaction and atomic replacement.                                      *)

\* The variables of the job go with it.
Unlock == job' = "none" /\ at' = "free" /\ ok' = FALSE /\ want' = saved

\* compact_history returns to its caller.
CompactEnds(done) ==
    \/ /\ job = "init" /\ at' = "seal" /\ copy' = {}
       /\ UNCHANGED <<job, ok, want>>
    \/ /\ job = "writer" /\ popped # 0
       /\ \/ done /\ at' = "cache" /\ copy' = records
          \/ ~done /\ at' = "count" /\ copy' = {}
       /\ UNCHANGED <<job, ok, want>>
    \/ job \in {"writer", "settings"} /\ popped = 0 /\ Unlock /\ copy' = {}

\* compact_history up to its first file: a copy of the memory without what is
\* too old.  It may be short of memory, or the copy too long for two segments.
Compact(j, r, d, safe) ==
    /\ job' = j
    /\ LET kept == r \ Expired(r, d) IN
       /\ records' = kept
       /\ \/ /\ Cardinality(kept) <= 2 * SegmentLines
             /\ copy' = kept /\ at' = "prev" /\ committed' = safe \intersect kept
          \/ copy' = {} /\ at' = "uncompacted" /\ committed' = safe

CompactFails ==
    /\ at = "uncompacted"
    /\ CompactEnds(FALSE)
    /\ UNCHANGED <<policy, records, queue, counters, files, staged, popped,
                   requests, bounds, ghosts>>

\* Mutant: a previous segment that could not be replaced is ignored.
ReplacedRegardless(done) ==
    \/ /\ at = "settings" /\ at' = (IF job = "clear" THEN "unlink_cur" ELSE "memory")
       /\ ok' = done
       /\ UNCHANGED <<job, want, copy>>
    \/ at = "prev" /\ at' = "cur" /\ UNCHANGED <<job, ok, want, copy>>
    \/ at = "cur" /\ CompactEnds(done)
    \/ /\ at = "cache" /\ at' = "count" /\ copy' = {}
       /\ UNCHANGED <<job, ok, want>>

\* What follows atomic_file.
Replaced(done) ==
    \/ /\ at = "settings" /\ at' = (IF job = "clear" THEN "unlink_cur" ELSE "memory")
       /\ ok' = done
       /\ UNCHANGED <<job, want, copy>>
    \/ /\ at = "prev" /\ done /\ at' = "cur"
       /\ UNCHANGED <<job, ok, want, copy>>
    \/ at = "prev" /\ ~done /\ CompactEnds(FALSE)
    \/ at = "cur" /\ CompactEnds(done)
    \/ /\ at = "cache" /\ at' = "count" /\ copy' = {}
       /\ UNCHANGED <<job, ok, want>>

\* The temporary file is left behind.
Remains == temps' = temps \union {at} /\ stuck' = stuck \union {at}

\* atomic_file: the temporary file, which must not exist, is written and synced.
\* When that fails it is removed, unless this fails as well.
Stage ==
    /\ at \in Files /\ ~staged
    /\ \/ /\ at \notin temps
          /\ temps' = temps \union {at}
          /\ staged' = TRUE
          /\ UNCHANGED <<job, at, ok, want, copy, faults, stuck>>
       \/ at \in temps /\ Replaced(FALSE) /\ UNCHANGED <<staged, temps, faults, stuck>>
       \/ /\ Fault /\ Replaced(FALSE) /\ UNCHANGED staged
          /\ UNCHANGED <<temps, stuck>> \/ Remains
    /\ UNCHANGED <<policy, records, queue, counters, saved, journal, cache, popped,
                   requests, intact, cleared, acked, excluded, legacy, committed, unread>>

\* The newest lines go to the current segment, those before to the previous.
OldPart == First(copy, IF Cardinality(copy) > SegmentLines
                       THEN Cardinality(copy) - SegmentLines ELSE 0)
Segment(S) == [lines |-> S, size |-> Cardinality(S), torn |-> FALSE]

\* atomic_file: the rename, and the sync of the directory.
Rename ==
    /\ staged
    /\ staged' = FALSE
    /\ \/ /\ temps' = temps \ {at} /\ UNCHANGED stuck
          /\ saved' = IF at = "settings" THEN want ELSE saved
          /\ prev' = IF at = "prev" THEN Segment(OldPart) ELSE prev
          /\ cur' = IF at = "cur" THEN Segment(copy \ OldPart) ELSE cur
          /\ cache' = IF at = "cache" THEN copy ELSE cache
          /\ \/ Replaced(TRUE) /\ UNCHANGED faults
             \/ Replaced(FALSE) /\ Fault
       \/ /\ Fault /\ Replaced(FALSE) /\ UNCHANGED <<saved, prev, cur, cache>>
          /\ (temps' = temps \ {at} /\ UNCHANGED stuck) \/ Remains
    /\ UNCHANGED <<policy, records, queue, counters, popped, requests, intact, cleared, acked,
                   excluded, legacy, committed, unread>>

-----------------------------------------------------------------------------
(* The writer.                                                             *)

\* The oldest record of the queue, taken under p.disk.
Take ==
    /\ at = "free"
    /\ \E r \in queue : /\ \A q \in queue : r <= q
                       /\ popped' = r /\ queue' = queue \ {r}
    /\ job' = "writer" /\ at' = "append"
    /\ UNCHANGED <<policy, records, counters, files, staged, ok, want, copy, requests,
                   bounds, ghosts>>

\* append, when the segment is full: rename it, and create the next.
Rotate ==
    /\ at = "append" /\ cur.size >= SegmentLines
    /\ \/ /\ prev' = cur /\ cur' = NewFile
          /\ committed' = committed \ (prev.lines \ cur.lines)
          /\ \/ at' = "write" /\ UNCHANGED faults
             \/ at' = "count" /\ Fault
       \/ Fault /\ at' = "count" /\ UNCHANGED <<prev, cur, committed>>
    /\ UNCHANGED <<policy, records, queue, counters, saved, cache, temps, job, staged, ok, want,
                   popped, copy, requests, intact, cleared, acked, excluded, legacy, failed>>

\* The line reaches the file.  After an unfinished line it is part of that line.
Appended == [lines |-> IF cur.torn THEN cur.lines ELSE cur.lines \union {popped},
             size |-> cur.size + 1, torn |-> FALSE]

\* append: write and sync.  Compaction follows once a day, then the cache.
Write ==
    /\ at = "write" \/ (at = "append" /\ cur.size < SegmentLines)
    /\ \/ /\ cur' = Appended
          /\ ok' = TRUE
          /\ UNCHANGED faults
          /\ LET safe == committed \union (cur'.lines \intersect {popped}) IN
             \/ Compact(job, records, days, safe)
             \/ /\ at' = "cache" /\ copy' = records /\ committed' = safe
                /\ UNCHANGED <<job, records>>
       \/ /\ Fault
          /\ cur' \in {cur, [cur EXCEPT !.torn = TRUE], Appended}
          /\ at' = "count"
          /\ UNCHANGED <<job, ok, copy, records, committed>>
    /\ UNCHANGED <<policy, queue, counters, saved, prev, cache, temps, staged, want, popped,
                   requests, intact, cleared, acked, excluded, legacy, failed>>

\* The writer counts the record, as ok (stored) tells.
Count ==
    /\ at = "count"
    /\ IF ok THEN persisted' = persisted + 1 /\ UNCHANGED dropped
             ELSE dropped' = dropped + 1 /\ UNCHANGED persisted
    /\ popped' = 0
    /\ Unlock
    /\ UNCHANGED <<policy, records, queue, accepted, files, staged, copy, requests,
                   bounds, ghosts>>

\* The writer's wait times out with nothing queued, a day after the last compaction.
Daily ==
    /\ at = "free" /\ queue = {} /\ ~closing
    /\ Compact("writer", records, days, committed)
    /\ UNCHANGED <<policy, queue, counters, files, staged, ok, want, popped, requests, bounds,
                   cleared, acked, excluded, legacy, failed>>

-----------------------------------------------------------------------------
(* Settings and deletion, by the worker that serves the user.              *)

\* Mutant: the settings are saved without the tombstone.
SettingsWithoutTombstone ==
    /\ serving /\ ~closing /\ at = "free" /\ calls < MaxCalls
    /\ calls' = calls + 1
    /\ \E c \in Choices :
         want' = [enabled |-> c.enabled, days |-> c.days, deleted |-> FALSE]
    /\ job' = "settings" /\ at' = "settings" /\ ok' = TRUE
    /\ UNCHANGED <<policy, records, queue, counters, files, staged, popped, copy, requests,
                   starts, faults, ghosts>>

\* perf_settings takes p.disk.
Settings ==
    /\ serving /\ ~closing /\ at = "free" /\ calls < MaxCalls
    /\ calls' = calls + 1
    /\ \E c \in Choices :
         want' = [enabled |-> c.enabled, days |-> c.days, deleted |-> deleted]
    /\ job' = "settings" /\ at' = "settings" /\ ok' = TRUE
    /\ UNCHANGED <<policy, records, queue, counters, files, staged, popped, copy, requests,
                   starts, faults, ghosts>>

\* Mutant: an opt-out that could not be saved has no effect.
OptOutWhenSaved ==
    /\ at = "memory"
    /\ IF ok
       THEN enabled' = want.enabled /\ days' = want.days /\ epoch' = epoch + 1
       ELSE UNCHANGED <<enabled, days, epoch>>
    /\ excluded' = IF want.enabled THEN excluded ELSE excluded \union ({begun.n} \ {0})
    /\ IF ok
       THEN Compact(job, records, want.days, committed) /\ UNCHANGED <<ok, want>>
       ELSE Unlock /\ UNCHANGED <<records, copy, committed>>
    /\ UNCHANGED <<deleted, queue, counters, files, staged, popped, requests, bounds,
                   cleared, acked, legacy, failed>>

\* perf_settings after the file: an opt-out holds even when it is not saved.
SettingsApply ==
    /\ at = "memory"
    /\ IF ok \/ ~want.enabled
       THEN enabled' = want.enabled /\ days' = want.days /\ epoch' = epoch + 1
       ELSE UNCHANGED <<enabled, days, epoch>>
    /\ excluded' = IF want.enabled THEN excluded ELSE excluded \union ({begun.n} \ {0})
    /\ IF ok
       THEN Compact(job, records, want.days, committed) /\ UNCHANGED <<ok, want>>
       ELSE Unlock /\ UNCHANGED <<records, copy, committed>>
    /\ UNCHANGED <<deleted, queue, counters, files, staged, popped, requests, bounds,
                   cleared, acked, legacy, failed>>

\* perf_clear takes p.disk; the settings get the tombstone.
Clear ==
    /\ serving /\ ~closing /\ at = "free" /\ calls < MaxCalls
    /\ calls' = calls + 1
    /\ want' = [enabled |-> enabled, days |-> days, deleted |-> TRUE]
    /\ job' = "clear" /\ at' = "settings" /\ ok' = TRUE
    /\ committed' = {}
    /\ UNCHANGED <<policy, records, queue, counters, files, staged, popped, copy, requests,
                   starts, faults, cleared, acked, excluded, legacy, failed>>

\* perf_clear unlinks the files one by one, past failures.
Unlink ==
    /\ \/ /\ at = "unlink_cur" /\ at' = "unlink_prev"
          /\ (cur' = NewFile /\ UNCHANGED <<ok, faults>>) \/ (Fault /\ ok' = FALSE /\ UNCHANGED cur)
          /\ UNCHANGED <<prev, cache>>
       \/ /\ at = "unlink_prev" /\ at' = "unlink_cache"
          /\ (prev' = NewFile /\ UNCHANGED <<ok, faults>>) \/ (Fault /\ ok' = FALSE /\ UNCHANGED prev)
          /\ UNCHANGED <<cur, cache>>
       \/ /\ at = "unlink_cache" /\ at' = "forget"
          /\ (cache' = {} /\ UNCHANGED <<ok, faults>>) \/ (Fault /\ ok' = FALSE /\ UNCHANGED cache)
          /\ UNCHANGED <<cur, prev>>
    /\ UNCHANGED <<policy, records, queue, counters, saved, temps, job, staged, want, popped,
                   copy, requests, intact, ghosts>>

\* Mutant: a deletion does not begin a new epoch.
ForgetWithoutEpoch ==
    /\ at = "forget"
    /\ deleted' = TRUE
    /\ records' = {} /\ queue' = {}
    /\ persisted' = 0 /\ dropped' = 0 /\ accepted' = 0
    /\ Unlock
    /\ IF ok THEN cleared' = 1..sequence /\ acked' = TRUE /\ unread' = FALSE
             ELSE UNCHANGED <<cleared, acked, unread>>
    /\ UNCHANGED <<enabled, days, epoch, files, staged, popped, copy, requests, bounds,
                   excluded, legacy, committed, stuck>>

\* perf_clear forgets what is in memory and answers.
Forget ==
    /\ at = "forget"
    /\ deleted' = TRUE /\ epoch' = epoch + 1
    /\ records' = {} /\ queue' = {}
    /\ persisted' = 0 /\ dropped' = 0 /\ accepted' = 0
    /\ Unlock
    /\ IF ok THEN cleared' = 1..sequence /\ acked' = TRUE /\ unread' = FALSE
             ELSE UNCHANGED <<cleared, acked, unread>>
    /\ UNCHANGED <<enabled, days, files, staged, popped, copy, requests, bounds,
                   excluded, legacy, committed, stuck>>

-----------------------------------------------------------------------------
(* The life of the application.                                            *)

\* Everything in memory is gone.
Gone ==
    /\ at' = "down" /\ job' = "none" /\ staged' = FALSE /\ ok' = FALSE /\ want' = saved
    /\ popped' = 0 /\ copy' = {} /\ records' = {} /\ queue' = {}
    /\ begun' = NoRequest /\ serving' = FALSE /\ closing' = FALSE
    /\ enabled' = FALSE /\ days' = Long /\ epoch' = 0 /\ deleted' = FALSE
    /\ persisted' = 0 /\ dropped' = 0 /\ accepted' = 0

Crash ==
    /\ Up /\ Gone
    /\ UNCHANGED <<files, sequence, aged, bounds, ghosts>>

\* perf_close, when the workers have ended.
Close ==
    /\ serving /\ ~closing /\ begun = NoRequest /\ job \notin {"settings", "clear"}
    /\ closing' = TRUE
    /\ UNCHANGED <<policy, records, queue, counters, files, holder, begun, serving, sequence,
                   aged, bounds, ghosts>>

\* The writer ends and perf_close has joined it.
Exit ==
    /\ closing /\ at = "free" /\ queue = {}
    /\ Gone
    /\ UNCHANGED <<files, sequence, aged, bounds, ghosts>>

\* Mutant: the previous segment's temporary file is not in the list.
StartWithStaging ==
    /\ at = "down" /\ starts < MaxStarts
    /\ starts' = starts + 1
    /\ job' = "init" /\ at' = "read" /\ epoch' = 1
    /\ temps' = temps \intersect {"prev"} /\ stuck' = {}
    /\ UNCHANGED <<enabled, days, deleted, records, queue, counters, saved, journal, cache,
                   staged, ok, want, popped, copy, requests, calls, faults, cleared, acked,
                   excluded, legacy, committed, unread>>

\* perf_init: temporary files are removed; it goes on past one that cannot be.
Start ==
    /\ at = "down" /\ starts < MaxStarts
    /\ starts' = starts + 1
    /\ job' = "init" /\ at' = "read" /\ epoch' = 1
    /\ \/ temps' = {} /\ UNCHANGED faults
       \/ temps' \in SUBSET temps /\ Fault
    /\ stuck' = temps'
    /\ UNCHANGED <<enabled, days, deleted, records, queue, counters, saved, journal, cache,
                   staged, ok, want, popped, copy, requests, calls, cleared, acked, excluded,
                   legacy, committed, unread>>

\* perf_init: the settings.  Those that cannot be read turn the history off, and
\* the tombstone that may stand in them does not count.
ReadSettings ==
    /\ at = "read" /\ at' = "load_prev"
    /\ \/ /\ enabled' = saved.enabled /\ days' = saved.days /\ deleted' = saved.deleted
          /\ unread' = (unread /\ ~saved.deleted)
          /\ UNCHANGED faults
       \/ /\ Fault
          /\ enabled' = FALSE /\ days' = Long /\ deleted' = FALSE
          /\ unread' = acked
    /\ UNCHANGED <<epoch, records, queue, counters, files, job, staged, ok, want, popped, copy,
                   requests, intact, cleared, acked, excluded, legacy, committed, stuck>>

\* load: the lines of a segment that are read, up to the failure if it fails.
Read(lines, S) ==
    \/ lines = S /\ UNCHANGED faults
    \/ Fault /\ \E n \in 0..Cardinality(S) : lines = First(S, n)

\* load: what is not known is counted, and retained unless it is too old.
Load(lines) == records \union (lines \ Expired(lines, days))
Loaded(lines) ==
    /\ persisted' = persisted + Cardinality(lines \ records)
    /\ accepted' = accepted + Cardinality(lines \ records)

\* perf_init: the previous segment is loaded.  `copy' holds what was read.
LoadPrev ==
    /\ at = "load_prev" /\ at' = "load_cur"
    /\ \E lines \in SUBSET prev.lines :
         /\ Read(lines, prev.lines)
         /\ records' = Newest(Load(lines), MaxRecords) /\ copy' = lines
         /\ Loaded(lines)
    /\ UNCHANGED <<policy, queue, dropped, files, job, staged, ok, want, popped, requests, intact,
                   ghosts>>

\* perf_init: then the current one, and the compaction if anything was too old.
LoadCur ==
    /\ at = "load_cur"
    /\ \E lines \in SUBSET cur.lines :
         /\ Read(lines, cur.lines)
         /\ Loaded(lines)
         /\ IF Expired(copy \union lines, days) # {}
            THEN Compact("init", Newest(Load(lines), MaxRecords), days, committed)
            ELSE /\ records' = Newest(Load(lines), MaxRecords) /\ copy' = {} /\ at' = "seal"
                 /\ UNCHANGED <<job, committed>>
    /\ UNCHANGED <<policy, queue, dropped, files, staged, ok, want, popped, requests, intact,
                   cleared, acked, excluded, legacy, failed>>

\* perf_init: an unfinished last line is ended, and the writer created.
Seal ==
    /\ at = "seal"
    /\ \/ ~cur.torn /\ UNCHANGED <<cur, faults>>
       \/ /\ cur.torn /\ UNCHANGED faults
          /\ cur' = [lines |-> cur.lines, size |-> cur.size + 1, torn |-> FALSE]
       \/ cur.torn /\ Fault /\ UNCHANGED cur
    /\ Unlock
    /\ UNCHANGED <<policy, records, queue, counters, saved, prev, cache, temps, staged,
                   popped, copy, requests, intact, ghosts>>

Init ==
    /\ at = "down" /\ job = "none" /\ staged = FALSE /\ ok = FALSE
    /\ saved = [enabled |-> TRUE, days |-> Long, deleted |-> FALSE] /\ want = saved
    /\ popped = 0 /\ copy = {} /\ records = {} /\ queue = {}
    /\ begun = NoRequest /\ serving = FALSE /\ closing = FALSE
    /\ enabled = FALSE /\ days = Long /\ epoch = 0 /\ deleted = FALSE
    /\ persisted = 0 /\ dropped = 0 /\ accepted = 0
    /\ prev = NewFile /\ cur = NewFile /\ cache = {} /\ temps = {}
    /\ sequence = 0 /\ aged = 0 /\ starts = 0 /\ calls = 0 /\ faults = 0
    /\ cleared = {} /\ acked = FALSE /\ excluded = {} /\ legacy = {} /\ committed = {}
    /\ unread = FALSE /\ stuck = {}

Next ==
    \/ Begin \/ Submit \/ Import \/ Serve \/ Age \/ Export
    \/ Stage \/ Rename \/ CompactFails
    \/ Take \/ Rotate \/ Write \/ Count \/ Daily
    \/ Settings \/ SettingsApply \/ Clear \/ Unlink \/ Forget
    \/ Start \/ ReadSettings \/ LoadPrev \/ LoadCur \/ Seal \/ Close \/ Exit \/ Crash

Spec == Init /\ [][Next]_vars

-----------------------------------------------------------------------------
(* Properties.                                                             *)

TypeOK ==
    /\ {enabled, deleted, staged, ok, serving, closing, acked, unread} \subseteq BOOLEAN
    /\ days \in {Short, Long} /\ epoch \in 0..MaxCalls + 1
    /\ {persisted, dropped, accepted} \subseteq Nat
    /\ {records, queue, cache, copy, prev.lines, cur.lines} \subseteq SUBSET Numbers
    /\ popped \in Numbers \union {0} /\ begun.n \in Numbers \union {0}
    /\ stuck \subseteq Files /\ temps \subseteq Files /\ job \in {"none", "init", "writer", "settings", "clear"}
    /\ Cardinality(records) <= MaxRecords /\ Cardinality(queue) <= QueueCap

\* Every place where a record may be.
Kept == records \union queue \union Readable \union cache \union ({popped} \ {0})

\* perf_clear, once it has answered with success: nothing begun before it is
\* kept anywhere, whatever was queued, in flight or being written meanwhile,
\* and nothing returns after a crash or a restart.
ClearedStaysCleared == cleared \intersect Kept = {}

\* docs/PERFORMANCE-PROFILES.md: a deletion tombstone prevents legacy values from
\* returning, across settings changes and restarts.  It does unless it was lost: a
\* start that cannot read the settings takes them for none, and the next change of
\* the settings saves them without the tombstone.
LegacyGone == [][legacy' # legacy => ~acked \/ unread]_vars

\* The queue, the memory, the segments, the cache and the copies between them are
\* one history: what has gone from all of them never comes back, a request that
\* ends late enters only what it may, and an acknowledged deletion leaves nothing
\* and, until its tombstone is lost, lets nothing be imported.
History == INSTANCE History WITH held    <- Kept \union copy,
                                 barred  <- cleared \union excluded,
                                 open    <- begun.n,
                                 last    <- sequence,
                                 deleted <- acked /\ ~unread
KeepsHistory == History!Spec

\* Opt-out also excludes a request that was still running, even if it could not
\* be saved and the history is turned on again before the request ends.
OptOutExcludes == excluded \intersect Kept = {}

\* Each accepted record is counted once: it waits, is being written, was stored
\* or was dropped, across deletions that find the writer at work.
Accounted ==
    accepted = persisted + dropped + Cardinality(queue) + (IF popped # 0 THEN 1 ELSE 0)

\* atomic_file's O_EXCL: no replacement meets a temporary file that a killed
\* process, or a replacement that failed, has left; but for one that this process
\* has tried in vain to remove.
StagingFree == at \in Files /\ ~staged /\ at \in temps => at \in stuck

\* compact_history: "Previous first, current second": what is safe in the
\* current segment stays readable through every step, interrupted or not.
CurrentSurvives == [][cur.lines \intersect committed' \subseteq Readable']_vars

=============================================================================
