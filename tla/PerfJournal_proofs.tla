------------------------- MODULE PerfJournal_proofs ------------------------
(***************************************************************************)
(* For every size of the memory, the queue and the segments, and any       *)
(* number of calls, failures and restarts: what the user deleted or        *)
(* excluded is nowhere, each record is counted once, no temporary file but *)
(* one that could not be removed is in the way, and the current segment    *)
(* survives compaction.                                                    *)
(***************************************************************************)
EXTENDS PerfJournal, FiniteSetTheorems, TLAPS

\* Every place a record may be or come from.
Everywhere == Kept \union copy

Segments == [lines : SUBSET Nat, size : Nat, torn : BOOLEAN]

Numbered ==
    /\ sequence \in Nat /\ epoch \in Nat
    /\ begun.n \in Nat /\ begun.epoch \in Nat
    /\ begun.n <= sequence /\ begun.epoch <= epoch
    /\ begun.n = 0 => begun = NoRequest
    /\ prev \in Segments /\ cur \in Segments
    /\ Everywhere \union cleared \union excluded \union legacy \subseteq 1..sequence

\* Which job is at which step, and what it has in hand there.
Steps ==
    /\ at \in Files \union {"free", "down", "append", "write", "count", "uncompacted",
                            "read", "load_prev", "load_cur", "seal",
                            "memory", "unlink_cur", "unlink_prev", "unlink_cache", "forget"}
    /\ job = "none" <=> at \in {"free", "down"}
    /\ at \in {"append", "write", "count", "cache"} => job = "writer" /\ popped # 0
    /\ at \in {"prev", "cur", "uncompacted"} => job \in {"init", "writer", "settings"}
    /\ at \in {"read", "load_prev", "load_cur", "seal"} => job = "init"
    /\ at = "memory" => job = "settings"
    /\ at = "settings" => job \in {"settings", "clear"}
    /\ at \in {"unlink_cur", "unlink_prev", "unlink_cache", "forget"} => job = "clear"
    /\ job # "writer" => popped = 0
    /\ at \notin {"prev", "cur", "cache", "load_cur"} => copy = {}
    /\ at = "down" => begun = NoRequest /\ ~serving

\* What was deleted or excluded is nowhere, and the request in flight, if it
\* is one of them, is of an earlier epoch.
Absent ==
    /\ cleared \intersect Everywhere = {}
    /\ excluded \intersect Everywhere = {}
    /\ begun.n \notin Everywhere
    /\ begun.n \in cleared => begun.epoch < epoch
    /\ begun.n \in excluded => ~begun.on \/ begun.epoch < epoch

\* How far a deletion that has not failed is.
Deleting ==
    /\ ok /\ at \in {"unlink_prev", "unlink_cache", "forget"} => cur.lines = {}
    /\ ok /\ at \in {"unlink_cache", "forget"} => prev.lines = {}
    /\ ok /\ at = "forget" => cache = {}

\* The tombstone of a deletion, in the file, in memory once it was read, and in
\* the next file; unless a start could not read it.
Tombstone ==
    /\ acked /\ ~unread => /\ saved.deleted
                           /\ at \notin {"down", "read"} => deleted
                           /\ at = "settings" => want.deleted
    /\ job = "clear" /\ at = "settings" => want.deleted
    /\ job = "clear" /\ at # "settings" /\ ok => saved.deleted

IInv == Numbered /\ Steps /\ Absent /\ Deleting /\ Tombstone

-----------------------------------------------------------------------------
(* Sets.                                                                   *)

LEMMA Subsets ==
    ASSUME NEW S, NEW n, NEW d
    PROVE  First(S, n) \subseteq S /\ Newest(S, n) \subseteq S /\ Expired(S, d) \subseteq S
BY DEF First, Newest, Expired

LEMMA StepsKeeps == ASSUME IInv, [Next]_vars PROVE Steps'
<1>1. CASE Begin \/ Submit \/ Import \/ Serve \/ Export \/ UNCHANGED vars
  <2>1. UNCHANGED <<at, job, popped, copy>>
    BY <1>1 DEF Begin, Submit, Import, Serve, Export, vars, holder
  <2>2. at = "down" => begun' = NoRequest /\ ~serving'
    BY <1>1 DEF IInv, Steps, Begin, Submit, Import, Serve, Export, vars, requests
  <2> QED BY <2>1, <2>2 DEF IInv, Steps
<1>2. CASE Age \/ Close
  <2>1. UNCHANGED <<at, job, popped, copy>>
    BY <1>2 DEF Age, Close, vars, holder
  <2>2. UNCHANGED <<begun, serving>>
    BY <1>2 DEF Age, Close
  <2> QED BY <2>1, <2>2 DEF IInv, Steps
<1>3. ASSUME CompactEnds(TRUE) \/ CompactEnds(FALSE), UNCHANGED popped,
             at \in {"prev", "cur", "uncompacted"}
      PROVE  Steps'
  <2>1. popped' = popped /\ Steps
    BY <1>3 DEF IInv
  <2>2. CASE job = "init" /\ at' = "seal" /\ copy' = {} /\ UNCHANGED job
    BY <2>1, <2>2 DEF Steps
  <2>3. CASE job = "writer" /\ popped # 0 /\ at' = "cache" /\ UNCHANGED job
    BY <2>1, <2>3 DEF Steps, Files
  <2>4. CASE job = "writer" /\ popped # 0 /\ at' = "count" /\ copy' = {} /\ UNCHANGED job
    BY <2>1, <2>4 DEF Steps
  <2>5. CASE popped = 0 /\ job' = "none" /\ at' = "free" /\ copy' = {}
    BY <2>1, <2>5 DEF Steps
  <2> QED BY <1>3, <2>2, <2>3, <2>4, <2>5 DEF CompactEnds, Unlock
<1>4. ASSUME Replaced(TRUE) \/ Replaced(FALSE), UNCHANGED popped
      PROVE  Steps'
  BY <1>3, <1>4 DEF IInv, Steps, Replaced, Files
<1>5. CASE Stage
  <2>1. CASE UNCHANGED <<at, job, popped, copy>>
    <3>1. UNCHANGED <<begun, serving>>
      BY <1>5 DEF Stage, requests
    <3> QED BY <2>1, <3>1 DEF IInv, Steps
  <2> QED BY <1>4, <1>5, <2>1 DEF Stage
<1>6. CASE Rename \/ CompactFails
  BY <1>3, <1>4, <1>6 DEF Rename, CompactFails
<1>7. CASE Take
  <2>1. /\ at = "free" /\ job' = "writer" /\ at' = "append" /\ UNCHANGED copy
        /\ popped' \in queue
    BY <1>7 DEF Take
  <2>2. popped' # 0
    BY <2>1 DEF IInv, Numbered, Everywhere, Kept
  <2> QED BY <2>1, <2>2 DEF IInv, Steps
<1>8. CASE Rotate
  BY <1>8 DEF IInv, Steps, Rotate, Fault
<1>9. ASSUME NEW j \in {"init", "writer", "settings"}, NEW r, NEW d, NEW safe,
             Compact(j, r, d, safe), popped' = popped, j # "writer" => popped = 0
      PROVE  Steps'
  BY <1>9 DEF IInv, Steps, Compact, Files
<1>10. CASE Write
  <2>1. job = "writer" /\ popped' = popped /\ popped # 0
    BY <1>10 DEF Write, IInv, Steps
  <2>2. CASE \E safe : Compact(job, records, days, safe)
    BY <1>9, <2>1, <2>2
  <2>3. CASE at' = "cache" /\ UNCHANGED job
    BY <2>1, <2>3 DEF Steps, Files
  <2>4. CASE at' = "count" /\ UNCHANGED <<job, copy>>
    <3>1. copy = {}
      BY <1>10 DEF Write, IInv, Steps
    <3> QED BY <2>1, <2>4, <3>1 DEF Steps
  <2> QED BY <1>10, <2>2, <2>3, <2>4 DEF Write
<1>11. CASE Count
  BY <1>11 DEF IInv, Steps, Count, Unlock
<1>12. CASE Daily
  BY <1>9, <1>12 DEF Daily
<1>13. CASE Settings \/ Clear
  BY <1>13 DEF IInv, Steps, Settings, Clear, Files
<1>14. CASE SettingsApply
  <2>1. job = "settings" /\ popped' = popped /\ popped = 0 /\ copy = {}
    BY <1>14 DEF IInv, Steps, SettingsApply
  <2>2. CASE Compact(job, records, want.days, committed)
    BY <1>9, <2>1, <2>2
  <2>3. CASE Unlock /\ UNCHANGED copy
    BY <2>1, <2>3 DEF Steps, Unlock
  <2> QED BY <1>14, <2>2, <2>3 DEF SettingsApply
<1>15. CASE Unlink \/ Forget
  BY <1>15 DEF IInv, Steps, Unlink, Forget, Unlock
<1>16. CASE Crash \/ Exit
  BY <1>16 DEF Steps, Crash, Exit, Gone
<1>17. CASE Start \/ ReadSettings \/ LoadPrev
  BY <1>17 DEF IInv, Steps, Start, ReadSettings, LoadPrev
<1>18. CASE Seal
  BY <1>18 DEF IInv, Steps, Seal, Unlock
<1>19. CASE LoadCur
  <2>1. job = "init" /\ popped' = popped /\ popped = 0
    BY <1>19 DEF IInv, Steps, LoadCur
  <2>2. CASE \E r : Compact("init", r, days, committed)
    BY <1>9, <2>1, <2>2
  <2>3. CASE UNCHANGED job /\ at' = "seal" /\ copy' = {}
    BY <2>1, <2>3 DEF Steps
  <2> QED BY <1>19, <2>2, <2>3 DEF LoadCur
<1> QED BY <1>1, <1>2, <1>5, <1>6, <1>7, <1>8, <1>10, <1>11, <1>12, <1>13, <1>14, <1>15,
           <1>16, <1>17, <1>18, <1>19 DEF Next

-----------------------------------------------------------------------------
(* Where the records are.                                                  *)

\* The copy is kept, dropped, or that of the memory for the cache.
LEMMA CopyMoves ==
    ASSUME NEW done, Replaced(done) \/ CompactEnds(done)
    PROVE  copy' = copy \/ copy' = {} \/ copy' = records
BY DEF Replaced, CompactEnds

\* Nothing enters but by perf_submit and perf_import.
LEMMA NothingEnters ==
    ASSUME IInv, [Next]_vars, ~Submit, ~Import
    PROVE  Everywhere' \subseteq Everywhere
<1> DEFINE E == records \union queue \union prev.lines \union cur.lines \union cache
                \union ({popped} \ {0}) \union copy
<1>e. Everywhere = E /\ Everywhere' = E'
  BY DEF Everywhere, Kept, Readable
<1>s. prev \in Segments /\ cur \in Segments
  BY DEF IInv, Numbered
<1> SUFFICES E' \subseteq E
  BY <1>e
<1>1. CASE UNCHANGED <<records, queue, prev, cur, cache, popped, copy>>
  BY <1>1
<1>2. CASE Begin \/ Serve \/ Age \/ Settings \/ Clear \/ Close \/ UNCHANGED vars
  BY <1>1, <1>2 DEF Begin, Serve, Age, Settings, Clear, Close, vars, files, journal, holder
<1>3. CASE Export
  BY <1>3, Subsets DEF Export, files, holder
<1>4. CASE Stage
  <2>1. UNCHANGED <<records, queue, prev, cur, cache, popped>>
    BY <1>4 DEF Stage, journal
  <2>2. copy' = copy \/ copy' = {} \/ copy' = records
    BY <1>4, CopyMoves DEF Stage
  <2> QED BY <2>1, <2>2
<1>5. CASE Rename
  <2>1. UNCHANGED <<records, queue, popped>>
    BY <1>5 DEF Rename
  <2>2. copy' = copy \/ copy' = {} \/ copy' = records
    BY <1>5, CopyMoves DEF Rename
  <2>3. OldPart \subseteq copy
    BY Subsets DEF OldPart
  <2>4. prev' = prev \/ prev' = Segment(OldPart)
    BY <1>5 DEF Rename
  <2>5. cur' = cur \/ cur' = Segment(copy \ OldPart)
    BY <1>5 DEF Rename
  <2>7. Segment(OldPart).lines = OldPart /\ Segment(copy \ OldPart).lines = copy \ OldPart
    BY DEF Segment
  <2>8. prev'.lines \subseteq copy \union prev.lines /\ cur'.lines \subseteq copy \union cur.lines
    BY <2>3, <2>4, <2>5, <2>7
  <2>6. cache' \subseteq copy \union cache
    BY <1>5 DEF Rename
  <2> QED BY <2>1, <2>2, <2>6, <2>8
<1>6. CASE CompactFails
  <2>1. UNCHANGED <<records, queue, prev, cur, cache, popped>>
    BY <1>6 DEF CompactFails, files
  <2>2. copy' = copy \/ copy' = {} \/ copy' = records
    BY <1>6, CopyMoves DEF CompactFails
  <2> QED BY <2>1, <2>2
<1>7. CASE Take
  <2>1. UNCHANGED <<records, prev, cur, cache, copy>>
    BY <1>7 DEF Take, files
  <2>2. popped' \in queue /\ queue' \subseteq queue
    BY <1>7 DEF Take
  <2> QED BY <2>1, <2>2
<1>8. CASE Rotate
  <2>1. UNCHANGED <<records, queue, cache, copy, popped>>
    BY <1>8 DEF Rotate
  <2>2. (prev' = cur /\ cur' = NewFile) \/ UNCHANGED <<prev, cur>>
    BY <1>8 DEF Rotate
  <2> QED BY <2>1, <2>2 DEF NewFile
<1>9. ASSUME NEW j, NEW r, NEW d, NEW safe, Compact(j, r, d, safe)
      PROVE  records' \subseteq r /\ copy' \subseteq r
  <2>1. r \ Expired(r, d) \subseteq r
    OBVIOUS
  <2> QED BY <1>9, <2>1 DEF Compact
<1>10. CASE Write
  <2>1. UNCHANGED <<queue, prev, cache, popped>>
    BY <1>10 DEF Write
  <2>2. popped # 0
    BY <1>10 DEF Write, IInv, Steps
  <2>3. cur'.lines \subseteq cur.lines \union {popped}
    BY <1>10, <1>s DEF Write, Appended, Segments
  <2>4. (records' \subseteq records /\ copy' \subseteq records)
        \/ (records' = records /\ (copy' = records \/ copy' = copy))
    BY <1>9, <1>10 DEF Write
  <2> QED BY <2>1, <2>2, <2>3, <2>4
<1>11. CASE Count
  BY <1>11 DEF Count, files
<1>12. CASE Daily
  <2>1. UNCHANGED <<queue, prev, cur, cache, popped>>
    BY <1>12 DEF Daily, files
  <2>2. records' \subseteq records /\ copy' \subseteq records
    BY <1>9, <1>12 DEF Daily
  <2> QED BY <2>1, <2>2
<1>13. CASE SettingsApply
  <2>1. UNCHANGED <<queue, prev, cur, cache, popped>>
    BY <1>13 DEF SettingsApply, files
  <2>2. (records' \subseteq records /\ copy' \subseteq records) \/ UNCHANGED <<records, copy>>
    BY <1>9, <1>13 DEF SettingsApply
  <2> QED BY <2>1, <2>2
<1>14. CASE Unlink
  <2>1. UNCHANGED <<records, queue, popped, copy>>
    BY <1>14 DEF Unlink
  <2>2. /\ cur' = cur \/ cur' = NewFile
        /\ prev' = prev \/ prev' = NewFile
        /\ cache' = cache \/ cache' = {}
    BY <1>14 DEF Unlink
  <2> QED BY <2>1, <2>2 DEF NewFile
<1>15. CASE Forget
  BY <1>15 DEF Forget, files
<1>16. CASE Crash \/ Exit
  BY <1>16 DEF Crash, Exit, Gone, files
<1>17. CASE Start \/ ReadSettings
  BY <1>1, <1>17 DEF Start, ReadSettings, journal, files
<1>19. CASE LoadPrev
  <2>1. PICK lines \in SUBSET prev.lines :
           records' = Newest(Load(lines), MaxRecords) /\ copy' = lines
    BY <1>19 DEF LoadPrev
  <2>2. records' \subseteq records \union prev.lines
    BY <2>1, Subsets DEF Load
  <2>3. UNCHANGED <<queue, prev, cur, cache, popped>>
    BY <1>19 DEF LoadPrev, files
  <2> QED BY <2>1, <2>2, <2>3
<1>20. CASE LoadCur
  <2>1. PICK lines \in SUBSET cur.lines :
           \/ Compact("init", Newest(Load(lines), MaxRecords), days, committed)
           \/ records' = Newest(Load(lines), MaxRecords) /\ copy' = {}
    BY <1>20 DEF LoadCur
  <2>2. Newest(Load(lines), MaxRecords) \subseteq records \union cur.lines
    BY <2>1, Subsets DEF Load
  <2>3. records' \subseteq records \union cur.lines /\ copy' \subseteq records \union cur.lines
    BY <1>9, <2>1, <2>2
  <2>4. UNCHANGED <<queue, prev, cur, cache, popped>>
    BY <1>20 DEF LoadCur, files
  <2> QED BY <2>3, <2>4
<1>18. CASE Seal
  <2>1. UNCHANGED <<records, queue, prev, cache, popped, copy>>
    BY <1>18 DEF Seal
  <2>2. cur'.lines = cur.lines
    BY <1>18, <1>s DEF Seal, Segments
  <2> QED BY <2>1, <2>2
<1> QED BY <1>2, <1>3, <1>4, <1>5, <1>6, <1>7, <1>8, <1>10, <1>11, <1>12, <1>13, <1>14, <1>15,
           <1>16, <1>17, <1>18, <1>19, <1>20 DEF Next

LEMMA Enters ==
    ASSUME NEW n, Accept(n), UNCHANGED <<files, holder>>
    PROVE  Everywhere' \subseteq Everywhere \union {n}
<1>1. records' \subseteq records \union {n}
  BY Subsets DEF Accept
<1>2. queue' \subseteq queue \union {n}
  BY DEF Accept
<1>3. UNCHANGED <<prev, cur, cache, popped, copy>>
  BY DEF files, holder
<1> QED BY <1>1, <1>2, <1>3 DEF Everywhere, Kept, Readable

\* perf_submit admits a record of the current epoch only.
LEMMA SubmitEnters ==
    ASSUME Submit
    PROVE  \/ Everywhere' \subseteq Everywhere
           \/ /\ begun.on /\ begun.epoch = epoch
              /\ Everywhere' \subseteq Everywhere \union {begun.n}
<1>1. UNCHANGED <<files, holder>> /\ begun' = NoRequest
  BY DEF Submit
<1>2. CASE Submittable(begun) /\ Accept(begun.n)
  BY <1>1, <1>2, Enters DEF Submittable
<1>3. CASE UNCHANGED <<records, queue>>
  BY <1>1, <1>3 DEF files, holder, Everywhere, Kept, Readable
<1> QED BY <1>2, <1>3 DEF Submit

LEMMA ImportEnters ==
    ASSUME Import
    PROVE  /\ ~deleted /\ sequence' = sequence + 1
           /\ legacy' = legacy \union {sequence + 1}
           /\ Everywhere' \subseteq Everywhere \union {sequence + 1}
<1>1. UNCHANGED <<files, holder>>
  BY DEF Import
<1>2. /\ ~deleted /\ sequence' = sequence + 1
      /\ legacy' = legacy \union {sequence + 1}
      /\ Accept(sequence + 1)
  BY DEF Import
<1> QED BY <1>1, <1>2, Enters, Zenon

LEMMA SegmentsKeep == ASSUME IInv, [Next]_vars PROVE prev' \in Segments /\ cur' \in Segments
<1>1. /\ sequence \in Nat /\ prev \in Segments /\ cur \in Segments
      /\ copy \subseteq 1..sequence /\ popped \in Nat
  BY DEF IInv, Numbered, Everywhere, Kept
<1>2. ASSUME NEW S \in SUBSET copy PROVE Segment(S) \in Segments
  <2>1. IsFiniteSet(1..sequence)
    BY <1>1, FS_Interval
  <2>2. Cardinality(S) \in Nat
    BY <1>1, <2>1, FS_Subset, FS_CardinalityType
  <2> QED BY <1>1, <2>2 DEF Segment, Segments
<1>3. NewFile \in Segments
  BY DEF NewFile, Segments
<1>4. CASE UNCHANGED <<prev, cur>>
  BY <1>1, <1>4
<1>5. CASE Rename
  <2>1. OldPart \subseteq copy /\ copy \ OldPart \subseteq copy
    BY Subsets DEF OldPart
  <2>2. (prev' = prev \/ prev' = Segment(OldPart)) /\ (cur' = cur \/ cur' = Segment(copy \ OldPart))
    BY <1>5 DEF Rename
  <2> QED BY <1>1, <1>2, <2>1, <2>2
<1>6. CASE Rotate
  BY <1>1, <1>3, <1>6 DEF Rotate
<1>7. CASE Unlink
  BY <1>1, <1>3, <1>7 DEF Unlink
<1>8. CASE Write
  <2>1. Appended \in Segments
    BY <1>1 DEF Appended, Segments
  <2>2. [cur EXCEPT !.torn = TRUE] \in Segments
    BY <1>1 DEF Segments
  <2>3. UNCHANGED prev /\ cur' \in {cur, [cur EXCEPT !.torn = TRUE], Appended}
    BY <1>8 DEF Write
  <2> QED BY <1>1, <2>1, <2>2, <2>3
<1>9. CASE Seal
  <2>1. [lines |-> cur.lines, size |-> cur.size + 1, torn |-> FALSE] \in Segments
    BY <1>1 DEF Segments
  <2> QED BY <1>1, <1>9, <2>1 DEF Seal
<1>10. CASE Begin \/ Submit \/ Import \/ Serve \/ Age \/ Export \/ Settings \/ Clear \/ Close
           \/ UNCHANGED vars
  BY <1>4, <1>10 DEF Begin, Submit, Import, Serve, Age, Export, Settings, Clear, Close, vars, files
<1>11. CASE Stage \/ CompactFails \/ Take \/ Count \/ Daily
  BY <1>4, <1>11 DEF Stage, CompactFails, Take, Count, Daily, files, journal
<1>12. CASE SettingsApply \/ Forget \/ Start \/ ReadSettings \/ LoadPrev \/ LoadCur \/ Exit \/ Crash
  BY <1>4, <1>12
  DEF SettingsApply, Forget, Start, ReadSettings, LoadPrev, LoadCur, Exit, Crash, files, journal
<1> QED BY <1>5, <1>6, <1>7, <1>8, <1>9, <1>10, <1>11, <1>12 DEF Next

\* The numbers given so far bound every place, and the epoch only grows until
\* the application ends.
LEMMA NumberedKeeps == ASSUME IInv, [Next]_vars PROVE Numbered'
<1>1. /\ sequence \in Nat /\ epoch \in Nat /\ begun.n \in Nat /\ begun.epoch \in Nat
      /\ begun.n <= sequence /\ begun.epoch <= epoch
      /\ Everywhere \union cleared \union excluded \union legacy \subseteq 1..sequence
  BY DEF IInv, Numbered
<1>2. prev' \in Segments /\ cur' \in Segments
  BY SegmentsKeep
<1>3. NoRequest.n = 0 /\ NoRequest.epoch = 0
  BY DEF NoRequest
<1>4. CASE Begin
  <2>1. /\ sequence' = sequence + 1 /\ begun'.n = sequence + 1 /\ begun'.epoch = epoch
        /\ UNCHANGED <<epoch, cleared, legacy>> /\ excluded' \subseteq excluded \union {sequence + 1}
    BY <1>4 DEF Begin, policy
  <2>2. Everywhere' \subseteq Everywhere
    BY <1>4 DEF Begin, Everywhere, Kept, Readable, files, holder
  <2> QED BY <1>1, <1>2, <2>1, <2>2 DEF Numbered
<1>5. CASE Submit
  <2>1. /\ UNCHANGED <<sequence, epoch, cleared, excluded, legacy>> /\ begun' = NoRequest
    BY <1>5 DEF Submit, policy, ghosts
  <2>2. Everywhere' \subseteq Everywhere \union {begun.n} /\ begun # NoRequest
    BY <1>5, SubmitEnters DEF Submit
  <2>3. begun.n \in 1..sequence
    BY <1>1, <2>2 DEF IInv, Numbered
  <2> QED BY <1>1, <1>2, <1>3, <2>1, <2>2, <2>3 DEF Numbered
<1>6. CASE Import
  <2>1. UNCHANGED <<epoch, begun, cleared, excluded>>
    BY <1>6 DEF Import, policy
  <2>2. begun.n = 0 => begun = NoRequest
    BY DEF IInv, Numbered
  <2>3. /\ sequence' = sequence + 1 /\ legacy' = legacy \union {sequence + 1}
        /\ Everywhere' \subseteq Everywhere \union {sequence + 1}
    BY <1>6, ImportEnters
  <2> QED BY <1>1, <1>2, <2>1, <2>2, <2>3 DEF Numbered
<1> SUFFICES ASSUME ~Submit, ~Import, ~Begin PROVE Numbered'
  BY <1>4, <1>5, <1>6
<1>7. Everywhere' \subseteq Everywhere
  BY NothingEnters
<1>8. begun.n = 0 => begun = NoRequest
  BY DEF IInv, Numbered
<1>9. CASE UNCHANGED <<sequence, epoch, begun, cleared, excluded, legacy>>
  BY <1>1, <1>2, <1>7, <1>8, <1>9 DEF Numbered
<1>10. CASE Serve \/ Age \/ Export \/ Settings \/ Clear \/ Close \/ UNCHANGED vars
  BY <1>9, <1>10 DEF Serve, Age, Export, Settings, Clear, Close, vars, requests, ghosts, policy
<1>11. CASE Stage \/ CompactFails \/ Take \/ Rename \/ Count \/ Daily
  BY <1>9, <1>11 DEF Stage, CompactFails, Take, Rename, Count, Daily, requests, ghosts, policy
<1>12. CASE Rotate \/ Write \/ Unlink \/ Seal \/ ReadSettings \/ LoadPrev \/ LoadCur
  BY <1>9, <1>12
  DEF Rotate, Write, Unlink, Seal, ReadSettings, LoadPrev, LoadCur, requests, ghosts, policy
<1>13. CASE SettingsApply
  <2>1. /\ UNCHANGED <<sequence, begun, cleared, legacy>> /\ epoch' \in {epoch, epoch + 1}
        /\ excluded' \subseteq excluded \union ({begun.n} \ {0})
    BY <1>13 DEF SettingsApply, requests
  <2> QED BY <1>1, <1>2, <1>7, <1>8, <2>1 DEF Numbered
<1>14. CASE Forget
  <2>1. /\ UNCHANGED <<sequence, begun, excluded, legacy>> /\ epoch' = epoch + 1
        /\ cleared' = cleared \/ cleared' = 1..sequence
    BY <1>14 DEF Forget, requests
  <2> QED BY <1>1, <1>2, <1>7, <1>8, <2>1 DEF Numbered
<1>15. CASE Crash \/ Exit
  <2>1. /\ UNCHANGED <<sequence, cleared, excluded, legacy>> /\ epoch' = 0 /\ begun' = NoRequest
    BY <1>15 DEF Crash, Exit, Gone, ghosts
  <2> QED BY <1>1, <1>2, <1>3, <1>7, <2>1 DEF Numbered
<1>16. CASE Start
  <2>1. /\ UNCHANGED <<sequence, begun, cleared, excluded, legacy>> /\ epoch' = 1
        /\ begun = NoRequest
    BY <1>16 DEF Start, requests, IInv, Steps
  <2> QED BY <1>1, <1>2, <1>3, <1>7, <2>1 DEF Numbered
<1> QED BY <1>10, <1>11, <1>12, <1>13, <1>14, <1>15, <1>16 DEF Next

\* An acknowledged deletion leaves nothing, in the files or between them.
LEMMA ForgetsAll ==
    ASSUME IInv, Forget, ok
    PROVE  Everywhere' = {}
<1>1. /\ at = "forget" /\ records' = {} /\ queue' = {}
      /\ UNCHANGED <<prev, cur, cache, popped, copy>>
  BY DEF Forget, files
<1>2. copy = {} /\ popped = 0
  BY <1>1 DEF IInv, Steps
<1>3. cur.lines = {} /\ prev.lines = {} /\ cache = {}
  BY <1>1 DEF IInv, Deleting
<1> QED BY <1>1, <1>2, <1>3 DEF Everywhere, Kept, Readable

LEMMA AbsentKeeps == ASSUME IInv, [Next]_vars PROVE Absent'
<1>1. /\ sequence \in Nat /\ epoch \in Nat /\ begun.n \in Nat /\ begun.epoch \in Nat
      /\ begun.n <= sequence /\ begun.epoch <= epoch
      /\ Everywhere \union cleared \union excluded \union legacy \subseteq 1..sequence
  BY DEF IInv, Numbered
<1>2. Absent
  BY DEF IInv
<1>3. NoRequest.n = 0 /\ NoRequest.epoch = 0
  BY DEF NoRequest
<1>z. 0 \notin Everywhere' /\ 0 \notin cleared' /\ 0 \notin excluded'
  BY NumberedKeeps DEF Numbered
<1>4. CASE Begin
  <2>1. /\ begun'.n = sequence + 1 /\ begun'.on = enabled /\ UNCHANGED <<epoch, cleared>>
        /\ excluded' = IF enabled THEN excluded ELSE excluded \union {sequence + 1}
    BY <1>4 DEF Begin, policy
  <2>2. Everywhere' \subseteq Everywhere
    BY <1>4 DEF Begin, Everywhere, Kept, Readable, files, holder
  <2>3. sequence + 1 \notin Everywhere \union cleared \union excluded
    BY <1>1
  <2>4. cleared' \intersect Everywhere' = {} /\ excluded' \intersect Everywhere' = {}
        /\ begun'.n \notin Everywhere'
    BY <1>2, <2>1, <2>2, <2>3 DEF Absent
  <2>5. begun'.n \notin cleared' /\ (begun'.n \in excluded' => ~begun'.on)
    BY <2>1, <2>3
  <2> QED BY <2>4, <2>5 DEF Absent
<1>5. CASE Submit
  <2>1. /\ UNCHANGED <<epoch, cleared, excluded>> /\ begun' = NoRequest
    BY <1>5 DEF Submit, policy, ghosts
  <2>2. cleared \intersect Everywhere' = {} /\ excluded \intersect Everywhere' = {}
    BY <1>1, <1>2, <1>5, SubmitEnters DEF Absent
  <2> QED BY <1>3, <1>z, <2>1, <2>2 DEF Absent
<1>6. CASE Import
  <2>1. UNCHANGED <<epoch, begun, cleared, excluded>>
    BY <1>6 DEF Import, policy
  <2>2. Everywhere' \subseteq Everywhere \union {sequence + 1}
    BY <1>6, ImportEnters
  <2>3. sequence + 1 \notin cleared \union excluded /\ sequence + 1 # begun.n
    BY <1>1
  <2> QED BY <1>2, <2>1, <2>2, <2>3 DEF Absent
<1> SUFFICES ASSUME ~Submit, ~Import, ~Begin PROVE Absent'
  BY <1>4, <1>5, <1>6
<1>7. Everywhere' \subseteq Everywhere
  BY NothingEnters
<1>8. CASE UNCHANGED <<epoch, begun, cleared, excluded>>
  BY <1>2, <1>7, <1>8 DEF Absent
<1>9. CASE Serve \/ Age \/ Export \/ Settings \/ Clear \/ Close \/ UNCHANGED vars
  BY <1>8, <1>9 DEF Serve, Age, Export, Settings, Clear, Close, vars, requests, ghosts, policy
<1>10. CASE Stage \/ CompactFails \/ Take \/ Rename \/ Count \/ Daily
  BY <1>8, <1>10 DEF Stage, CompactFails, Take, Rename, Count, Daily, requests, ghosts, policy
<1>11. CASE Rotate \/ Write \/ Unlink \/ Seal \/ ReadSettings \/ LoadPrev \/ LoadCur
  BY <1>8, <1>11
  DEF Rotate, Write, Unlink, Seal, ReadSettings, LoadPrev, LoadCur, requests, ghosts, policy
<1>12. CASE SettingsApply
  <2>1. UNCHANGED <<begun, cleared>> /\ epoch' \in {epoch, epoch + 1}
    BY <1>12 DEF SettingsApply, requests
  <2>2. excluded' = excluded \/ (excluded' = excluded \union ({begun.n} \ {0}) /\ epoch' = epoch + 1)
    BY <1>12 DEF SettingsApply
  <2>3. cleared' \intersect Everywhere' = {} /\ excluded' \intersect Everywhere' = {}
        /\ begun'.n \notin Everywhere'
    BY <1>2, <1>7, <2>1, <2>2 DEF Absent
  <2>4. begun'.n \in cleared' => begun'.epoch < epoch'
    BY <1>1, <1>2, <2>1 DEF Absent
  <2>5. begun'.n \in excluded' => ~begun'.on \/ begun'.epoch < epoch'
    BY <1>1, <1>2, <2>1, <2>2 DEF Absent
  <2> QED BY <2>3, <2>4, <2>5 DEF Absent
<1>13. CASE Forget
  <2>1. /\ UNCHANGED <<begun, excluded>> /\ epoch' = epoch + 1
        /\ cleared' = cleared \/ (ok /\ cleared' = 1..sequence)
    BY <1>13 DEF Forget, requests
  <2>2. ok => Everywhere' = {}
    BY <1>13, ForgetsAll
  <2>3. cleared' \intersect Everywhere' = {} /\ excluded' \intersect Everywhere' = {}
        /\ begun'.n \notin Everywhere'
    BY <1>2, <1>7, <2>1, <2>2 DEF Absent
  <2>4. begun'.epoch < epoch'
    BY <1>1, <2>1
  <2> QED BY <2>3, <2>4 DEF Absent
<1>14. CASE Crash \/ Exit
  <2>1. UNCHANGED <<cleared, excluded>> /\ begun' = NoRequest
    BY <1>14 DEF Crash, Exit, Gone, ghosts
  <2> QED BY <1>2, <1>3, <1>7, <1>z, <2>1 DEF Absent
<1>15. CASE Start
  <2>1. UNCHANGED <<begun, cleared, excluded>> /\ begun = NoRequest
    BY <1>15 DEF Start, requests, IInv, Steps
  <2> QED BY <1>2, <1>3, <1>7, <1>z, <2>1 DEF Absent
<1> QED BY <1>9, <1>10, <1>11, <1>12, <1>13, <1>14, <1>15 DEF Next

\* Only perf_clear's own steps take it to an unlinked file.
LEMMA DeletingKeeps == ASSUME IInv, [Next]_vars PROVE Deleting'
<1> DEFINE Past == {"unlink_prev", "unlink_cache", "forget"}
<1>1. ASSUME at' \notin Past PROVE Deleting'
  BY <1>1 DEF Deleting
<1>2. CASE UNCHANGED <<at, ok, cur, prev, cache>>
  BY <1>2 DEF IInv, Deleting
<1>3. CASE Begin \/ Submit \/ Import \/ Serve \/ Age \/ Export \/ Close \/ UNCHANGED vars
  BY <1>2, <1>3 DEF Begin, Submit, Import, Serve, Age, Export, Close, vars, files, holder, journal
<1>4. ASSUME NEW done, Replaced(done) \/ CompactEnds(done) PROVE at' \notin Past
  BY <1>4 DEF Replaced, CompactEnds, Unlock
<1>5. ASSUME NEW j, NEW r, NEW d, NEW safe, Compact(j, r, d, safe) PROVE at' \notin Past
  BY <1>5 DEF Compact
<1>6. CASE Stage
  <2>1. CASE UNCHANGED at
    BY <1>1, <1>6, <2>1 DEF Stage, Files
  <2> QED BY <1>1, <1>4, <1>6, <2>1 DEF Stage
<1>7. CASE Rename \/ CompactFails
  BY <1>1, <1>4, <1>7 DEF Rename, CompactFails
<1>8. CASE Take \/ Rotate \/ Count \/ Settings \/ Clear \/ Forget \/ Exit \/ Crash \/ Seal
  BY <1>1, <1>8 DEF Take, Rotate, Count, Settings, Clear, Forget, Exit, Crash, Seal, Unlock, Gone
<1>9. CASE Write
  <2>1. at' = "cache" \/ at' = "count" \/ (\E safe : Compact(job, records, days, safe))
    BY <1>9 DEF Write
  <2> QED BY <1>1, <1>5, <2>1
<1>10. CASE Daily \/ Start \/ ReadSettings \/ LoadPrev \/ LoadCur
  BY <1>1, <1>5, <1>10 DEF Daily, Start, ReadSettings, LoadPrev, LoadCur
<1>11. CASE SettingsApply
  BY <1>1, <1>5, <1>11 DEF SettingsApply, Unlock
<1>12. CASE Unlink
  <2>1. CASE at = "unlink_cur" /\ at' = "unlink_prev"
    BY <1>12, <2>1 DEF Unlink, Deleting, NewFile
  <2>2. CASE at = "unlink_prev" /\ at' = "unlink_cache"
    BY <1>12, <2>2 DEF Unlink, IInv, Deleting, NewFile
  <2>3. CASE at = "unlink_cache" /\ at' = "forget"
    BY <1>12, <2>3 DEF Unlink, IInv, Deleting, NewFile
  <2> QED BY <1>12, <2>1, <2>2, <2>3 DEF Unlink
<1> QED BY <1>3, <1>6, <1>7, <1>8, <1>9, <1>10, <1>11, <1>12 DEF Next

\* Settings that are saved later carry the tombstone, so no start loses it.
LEMMA TombstoneKeeps == ASSUME IInv, [Next]_vars PROVE Tombstone'
<1>1. Tombstone /\ Steps
  BY DEF IInv
<1>2. CASE UNCHANGED <<acked, unread, saved, at, deleted, want, job, ok>>
  BY <1>1, <1>2 DEF Tombstone
<1>3. CASE Begin \/ Submit \/ Serve \/ Export \/ Close \/ UNCHANGED vars
  BY <1>2, <1>3 DEF Begin, Submit, Serve, Export, Close, vars, files, holder, ghosts, failed, policy
<1>4. CASE Import
  <2>1. UNCHANGED <<policy, files, holder, acked, failed>>
    BY <1>4 DEF Import
  <2> QED BY <1>2, <2>1 DEF files, holder, policy, failed
<1>5. CASE Age
  BY <1>2, <1>5 DEF Age, files, holder, policy, ghosts
<1> DEFINE Same == UNCHANGED <<acked, unread, saved, deleted>>
<1>6. ASSUME Same, at \notin {"down", "read"}, at' # "settings",
             job = "clear" => job' # "clear" \/ ~ok', job # "clear" => job' # "clear"
      PROVE  Tombstone'
  BY <1>1, <1>6 DEF Tombstone
<1>7. ASSUME NEW done, CompactEnds(done) PROVE at' # "settings" /\ job' \in {job, "none"}
  BY <1>7 DEF CompactEnds, Unlock
<1>8. ASSUME NEW done, Replaced(done), at # "settings"
      PROVE  at' # "settings" /\ job' \in {job, "none"}
  <2>1. CASE \E d : CompactEnds(d)
    BY <1>7, <2>1
  <2> QED BY <1>8, <2>1 DEF Replaced
<1>9. ASSUME NEW done, Replaced(done), at = "settings"
      PROVE  at' \in {"unlink_cur", "memory"} /\ ok' = done /\ job' = job
  BY <1>9 DEF Replaced
<1>10. at \in Files \ {"settings"} \/ at = "uncompacted"
         => job # "clear" /\ at \notin {"down", "read"}
  BY <1>1 DEF Steps, Files
<1>11. CASE Stage
  <2>1. Same /\ at \in Files /\ at \notin {"down", "read"}
    BY <1>11 DEF Stage, journal, policy, Files
  <2>2. CASE UNCHANGED <<job, at, ok, want>>
    BY <1>2, <2>1, <2>2
  <2>3. CASE Replaced(FALSE) /\ at = "settings"
    BY <1>6, <1>9, <2>1, <2>3
  <2>4. CASE Replaced(FALSE) /\ at # "settings"
    BY <1>6, <1>8, <1>10, <2>1, <2>4
  <2> QED BY <1>11, <2>2, <2>3, <2>4 DEF Stage
<1>12. CASE Rename
  <2>1. /\ UNCHANGED <<acked, unread, deleted>>
        /\ saved' = saved \/ (at = "settings" /\ saved' = want)
    BY <1>12 DEF Rename, policy
  <2>2. Replaced(FALSE) \/ (Replaced(TRUE) /\ (at = "settings" => saved' = want))
    BY <1>12 DEF Rename
  <2>3. at \in Files
    BY <2>2, <1>1 DEF Replaced, Files
  <2>4. CASE at = "settings"
    <3>1. at' \in {"unlink_cur", "memory"} /\ job' = job
          /\ (ok' = FALSE \/ saved' = want)
      BY <1>9, <2>2, <2>4
    <3>2. acked /\ ~unread => saved'.deleted
      BY <1>1, <2>1, <2>4 DEF Tombstone
    <3>3. job' = "clear" /\ ok' => saved'.deleted
      BY <1>1, <2>4, <3>1 DEF Tombstone
    <3> QED BY <1>1, <2>1, <2>4, <3>1, <3>2, <3>3 DEF Tombstone
  <2>5. CASE at # "settings"
    BY <1>6, <1>8, <1>10, <2>1, <2>2, <2>3, <2>5
  <2> QED BY <2>4, <2>5
<1>13. CASE CompactFails
  <2>1. Same /\ CompactEnds(FALSE) /\ at = "uncompacted"
    BY <1>13 DEF CompactFails, files, ghosts, policy
  <2> QED BY <1>6, <1>7, <1>10, <2>1
<1>14. CASE Take \/ Rotate \/ Count
  <2>1. Same /\ at \notin {"down", "read"} /\ at' # "settings" /\ job # "clear" /\ job' # "clear"
    BY <1>1, <1>14 DEF Take, Rotate, Count, Unlock, files, ghosts, failed, policy, Steps
  <2> QED BY <1>6, <2>1
<1>15. ASSUME NEW j, NEW r, NEW d, NEW safe, Compact(j, r, d, safe)
       PROVE  at' # "settings" /\ job' = j
  BY <1>15 DEF Compact
<1>16. CASE Write
  <2>1. Same /\ at \notin {"down", "read"} /\ job = "writer"
    BY <1>1, <1>16 DEF Write, policy, failed, Steps
  <2>2. at' # "settings" /\ job' = job
    BY <1>15, <1>16 DEF Write
  <2> QED BY <1>6, <2>1, <2>2
<1>17. CASE Daily
  <2>1. Same /\ at \notin {"down", "read"} /\ job = "none"
    BY <1>1, <1>17 DEF Daily, policy, files, failed, Steps
  <2>2. at' # "settings" /\ job' = "writer"
    BY <1>15, <1>17 DEF Daily
  <2> QED BY <1>6, <2>1, <2>2
<1>18. CASE Settings
  <2>1. Same /\ at = "free" /\ job' = "settings" /\ want'.deleted = deleted
    BY <1>18 DEF Settings, policy, files, ghosts
  <2> QED BY <1>1, <2>1 DEF Tombstone
<1>19. CASE SettingsApply
  <2>1. Same /\ at \notin {"down", "read"} /\ job = "settings"
    BY <1>1, <1>19 DEF SettingsApply, files, failed, Steps
  <2>2. at' # "settings" /\ job' # "clear"
    BY <1>15, <1>19, <2>1 DEF SettingsApply, Unlock
  <2> QED BY <1>6, <2>1, <2>2
<1>20. CASE Clear
  <2>1. Same /\ at = "free" /\ at' = "settings" /\ want'.deleted = TRUE
    BY <1>20 DEF Clear, policy, files, failed
  <2> QED BY <1>1, <2>1 DEF Tombstone
<1>21. CASE Unlink
  <2>1. Same /\ UNCHANGED <<job, want>> /\ (ok' => ok) /\ job = "clear"
        /\ at \notin {"down", "read", "settings"} /\ at' # "settings"
    BY <1>1, <1>21 DEF Unlink, policy, ghosts, Steps
  <2> QED BY <1>1, <2>1 DEF Tombstone
<1>22. CASE Forget
  <2>1. /\ UNCHANGED saved /\ deleted' = TRUE /\ at' = "free" /\ job' = "none"
        /\ at = "forget" /\ job = "clear"
        /\ UNCHANGED <<acked, unread>> \/ ok
    BY <1>1, <1>22 DEF Forget, files, Unlock, Steps
  <2>2. ok => saved.deleted
    BY <1>1, <2>1 DEF Tombstone
  <2> QED BY <1>1, <2>1, <2>2 DEF Tombstone
<1>23. CASE Exit \/ Crash
  <2>1. UNCHANGED <<saved, acked, unread>> /\ at' = "down" /\ job' = "none"
    BY <1>23 DEF Exit, Crash, Gone, files, ghosts
  <2> QED BY <1>1, <2>1 DEF Tombstone
<1>24. CASE Start
  <2>1. UNCHANGED <<saved, acked, unread>> /\ at' = "read" /\ job' = "init"
    BY <1>24 DEF Start
  <2> QED BY <1>1, <2>1 DEF Tombstone
<1>26. CASE ReadSettings
  <2>1. UNCHANGED <<saved, acked>> /\ at' = "load_prev" /\ job' = "init"
    BY <1>1, <1>26 DEF ReadSettings, files, Steps
  <2>2. acked /\ ~unread' => deleted' = saved.deleted /\ (~unread \/ saved.deleted)
    BY <1>26 DEF ReadSettings
  <2> QED BY <1>1, <2>1, <2>2 DEF Tombstone
<1>27. CASE LoadPrev \/ LoadCur
  <2>1. Same /\ at \notin {"down", "read"} /\ job = "init"
    BY <1>1, <1>27 DEF LoadPrev, LoadCur, policy, files, ghosts, failed, Steps
  <2>2. at' # "settings" /\ job' = "init"
    BY <1>15, <1>27, <2>1 DEF LoadPrev, LoadCur
  <2> QED BY <1>6, <2>1, <2>2
<1>25. CASE Seal
  <2>1. Same /\ at \notin {"down", "read"} /\ at' # "settings" /\ job' # "clear"
    BY <1>25 DEF Seal, Unlock, ghosts, policy
  <2> QED BY <1>6, <2>1
<1> QED BY <1>3, <1>4, <1>5, <1>11, <1>12, <1>13, <1>14, <1>16, <1>17, <1>18, <1>19, <1>20,
           <1>21, <1>22, <1>23, <1>24, <1>25, <1>26, <1>27 DEF Next

-----------------------------------------------------------------------------
(* Theorems.                                                               *)

LEMMA InitIInv == Init => IInv
<1> SUFFICES ASSUME Init PROVE IInv
  OBVIOUS
<1>1. NewFile \in Segments /\ NewFile.lines = {}
  BY DEF NewFile, Segments
<1>2. /\ prev = NewFile /\ cur = NewFile /\ at = "down" /\ job = "none" /\ popped = 0
      /\ records = {} /\ queue = {} /\ cache = {} /\ copy = {} /\ ok = FALSE
      /\ begun = NoRequest /\ ~serving /\ sequence = 0 /\ epoch = 0
      /\ cleared = {} /\ excluded = {} /\ legacy = {} /\ acked = FALSE
  BY DEF Init
<1>3. Everywhere = {}
  BY <1>1, <1>2 DEF Everywhere, Kept, Readable
<1>4. Numbered
  BY <1>1, <1>2, <1>3 DEF Numbered, NoRequest
<1>5. Steps
  BY <1>2 DEF Steps
<1>6. Absent
  BY <1>2, <1>3 DEF Absent
<1>7. Deleting /\ Tombstone
  BY <1>2 DEF Deleting, Tombstone
<1> QED BY <1>4, <1>5, <1>6, <1>7 DEF IInv

\* The inductive invariant holds in every reachable state.
THEOREM SpecIInv == Spec => []IInv
<1>1. IInv /\ [Next]_vars => IInv'
  <2> SUFFICES ASSUME IInv, [Next]_vars PROVE IInv'
    OBVIOUS
  <2> QED BY NumberedKeeps, StepsKeeps, AbsentKeeps, DeletingKeeps, TombstoneKeeps DEF IInv
<1> QED BY <1>1, InitIInv, PTL DEF Spec

\* What the user deleted stays deleted: perf_clear's epoch, its unlinks and the
\* lock they hold leave nothing of what was begun before it, through any
\* sequence of failures, crashes and restarts.
THEOREM SpecClearedStaysCleared == Spec => []ClearedStaysCleared
<1>1. IInv => ClearedStaysCleared
  BY DEF IInv, Absent, ClearedStaysCleared, Everywhere
<1> QED BY <1>1, SpecIInv, PTL

\* The tombstone of perf_clear is in every settings.json written later, so
\* perf_import makes no record once a deletion has been acknowledged; until a
\* start cannot read the settings, and again when a later one finds it in them.
THEOREM SpecLegacyGone == Spec => LegacyGone
<1>1. IInv /\ [Next]_vars => [legacy' # legacy => ~acked \/ unread]_vars
  <2> SUFFICES ASSUME IInv, [Next]_vars, legacy' # legacy PROVE ~acked \/ unread
    OBVIOUS
  <2>1. CASE Import
    <3>1. ~deleted /\ at # "down" /\ job # "init"
      BY <2>1 DEF Import
    <3>2. at # "read"
      BY <3>1 DEF IInv, Steps
    <3> QED BY <3>1, <3>2 DEF IInv, Tombstone
  <2>2. CASE Begin \/ Submit \/ Serve \/ Age \/ Export \/ Stage \/ Rename \/ CompactFails \/ Take
    BY <2>2 DEF Begin, Submit, Serve, Age, Export, Stage, Rename, CompactFails, Take, ghosts
  <2>3. CASE Rotate \/ Write \/ Count \/ Daily \/ Settings \/ SettingsApply \/ Clear \/ Unlink \/ Forget
    BY <2>3 DEF Rotate, Write, Count, Daily, Settings, SettingsApply, Clear, Unlink, Forget, ghosts
  <2>4. CASE Start \/ ReadSettings \/ LoadPrev \/ LoadCur \/ Seal \/ Close \/ Exit \/ Crash
    BY <2>4 DEF Start, ReadSettings, LoadPrev, LoadCur, Seal, Close, Exit, Crash, ghosts
  <2>5. CASE UNCHANGED vars
    BY <2>5 DEF vars, ghosts
  <2> QED BY <2>1, <2>2, <2>3, <2>4, <2>5 DEF Next
<1> QED BY <1>1, SpecIInv, PTL DEF Spec, LegacyGone

\* perf_settings begins an epoch with every opt-out, saved or not: the request
\* in flight leaves no record.
THEOREM SpecOptOutExcludes == Spec => []OptOutExcludes
<1>1. IInv => OptOutExcludes
  BY DEF IInv, Absent, OptOutExcludes, Everywhere
<1> QED BY <1>1, SpecIInv, PTL

-----------------------------------------------------------------------------
(* The journal implements History.                                         *)

\* Requests run only while the server does, hence after the import; the server
\* only after perf_init; and a tombstone is lost only after a deletion.
Asked ==
    /\ ~serving => begun = NoRequest
    /\ job = "init" => ~serving
    /\ acked \in BOOLEAN /\ unread \in BOOLEAN
    /\ unread => acked

\* A start that finds no tombstone, or cannot read the settings, loses no more
\* than a deletion that was acknowledged.
LEMMA Recalls ==
    ASSUME Asked, ReadSettings
    PROVE  UNCHANGED acked /\ unread' \in BOOLEAN /\ (unread' => acked)
<1>1. UNCHANGED acked /\ acked \in BOOLEAN /\ unread \in BOOLEAN /\ (unread => acked)
  BY DEF ReadSettings, Asked
<1>2. unread' = (unread /\ ~saved.deleted) \/ unread' = acked
  BY Zenon DEF ReadSettings
<1>3. CASE unread' = (unread /\ ~saved.deleted)
  <2>1. (unread /\ ~saved.deleted) \in BOOLEAN /\ ((unread /\ ~saved.deleted) => unread)
    BY Zenon
  <2> QED BY <1>1, <1>3, <2>1, Zenon
<1>4. CASE unread' = acked
  BY <1>1, <1>4
<1> QED BY <1>1, <1>2, <1>3, <1>4, Zenon

LEMMA AskedKeeps == ASSUME IInv, Asked, [Next]_vars PROVE Asked'
<1>0. Steps
  BY DEF IInv
<1>1. CASE Begin \/ Submit \/ Import \/ Serve \/ Age \/ Export
  <2>1. UNCHANGED <<job, acked, unread>>
    BY <1>1 DEF Begin, Submit, Import, Serve, Age, Export, holder, ghosts, failed
  <2> QED BY <1>1, <2>1 DEF Asked, Begin, Submit, Import, Serve, Age, Export, requests
<1>2. CASE Crash \/ Exit
  BY <1>2 DEF Asked, Crash, Exit, Gone, ghosts
<1>3. ASSUME UNCHANGED <<begun, serving, acked, unread>>, job' = "init" => job = "init"
      PROVE  Asked'
  BY <1>3 DEF Asked
<1>4. ASSUME NEW done, Replaced(done) \/ CompactEnds(done) PROVE job' \in {job, "none"}
  BY <1>4 DEF Replaced, CompactEnds, Unlock
<1>5. CASE Stage \/ Rename \/ CompactFails
  <2>1. UNCHANGED <<begun, serving, acked, unread>>
    BY <1>5 DEF Stage, Rename, CompactFails, requests, ghosts
  <2>2. job' \in {job, "none"}
    BY <1>4, <1>5 DEF Stage, Rename, CompactFails
  <2> QED BY <1>3, <2>1, <2>2
<1>6. CASE Take \/ Rotate \/ Count \/ Settings \/ Clear \/ Unlink \/ Seal \/ Close \/ UNCHANGED vars
  <2>1. UNCHANGED <<begun, serving, acked, unread>>
    BY <1>6 DEF Take, Rotate, Count, Settings, Clear, Unlink, Seal, Close, vars, requests, ghosts, failed
  <2>2. job' = "init" => job = "init"
    BY <1>6 DEF Take, Rotate, Count, Settings, Clear, Unlink, Seal, Close, vars, Unlock, holder
  <2> QED BY <1>3, <2>1, <2>2
<1>7. ASSUME NEW j, NEW r, NEW d, NEW safe, Compact(j, r, d, safe) PROVE job' = j
  BY <1>7 DEF Compact
<1>8. CASE Write \/ Daily \/ SettingsApply
  <2>1. UNCHANGED <<begun, serving, acked, unread>>
    BY <1>8 DEF Write, Daily, SettingsApply, requests, failed
  <2>2. job' \in {job, "writer", "none"}
    BY <1>7, <1>8 DEF Write, Daily, SettingsApply, Unlock
  <2> QED BY <1>3, <2>1, <2>2
<1>9. CASE Forget
  BY <1>9 DEF Forget, Unlock, requests, Asked
<1>10. CASE Start
  <2>1. UNCHANGED <<begun, serving, acked, unread>> /\ ~serving
    BY <1>0, <1>10 DEF Start, requests, Steps
  <2> QED BY <2>1 DEF Asked
<1>11. CASE ReadSettings
  <2>1. UNCHANGED <<begun, serving, acked, job>>
    BY <1>11 DEF ReadSettings, requests
  <2>2. unread' \in BOOLEAN /\ (unread' => acked)
    BY <1>11, Recalls
  <2> QED BY <2>1, <2>2 DEF Asked
<1>12. CASE LoadPrev \/ LoadCur
  <2>1. UNCHANGED <<begun, serving, acked, unread>> /\ job = "init"
    BY <1>0, <1>12 DEF LoadPrev, LoadCur, requests, ghosts, failed, Steps
  <2> QED BY <1>3, <2>1
<1> QED BY <1>1, <1>2, <1>5, <1>6, <1>8, <1>9, <1>10, <1>11, <1>12 DEF Next

Barred == cleared \union excluded
Promise == <<Everywhere, Barred, begun.n, sequence, acked /\ ~unread>>

\* A step in which nothing enters and nothing else of the promise changes, but
\* that the request in flight may end.
LEMMA Loses ==
    ASSUME Everywhere' \subseteq Everywhere, begun'.n \in {begun.n, 0},
           UNCHANGED <<cleared, excluded, sequence, acked, unread>>
    PROVE  [History!Next]_Promise
BY DEF History!Next, History!Lose, Everywhere, Barred

LEMMA StepKeepsHistory ==
    ASSUME IInv, Asked, [Next]_vars
    PROVE  [History!Next]_Promise
<1>0. NoRequest.n = 0 /\ Absent /\ begun.n \in Nat /\ sequence \in Nat
  BY DEF NoRequest, IInv, Numbered
<1>1. CASE Begin
  <2>1. /\ begun.n = 0 /\ begun'.n = sequence + 1 /\ sequence' = sequence + 1
        /\ UNCHANGED <<cleared, acked, unread>>
        /\ excluded' = excluded \/ excluded' = excluded \union {sequence + 1}
    BY <1>0, <1>1 DEF Begin, failed
  <2>2. Everywhere' = Everywhere
    BY <1>1 DEF Begin, Everywhere, Kept, Readable, files, holder
  <2>3. Barred' \in {Barred, Barred \union {sequence + 1}}
    BY <2>1 DEF Barred
  <2>4. History!Begin
    BY <2>1, <2>2, <2>3 DEF History!Begin, Everywhere, Barred
  <2> QED BY <2>4 DEF History!Next
<1>2. CASE Submit
  <2>1. /\ UNCHANGED <<cleared, excluded, acked, unread, sequence>>
        /\ begun'.n = 0 /\ begun # NoRequest
    BY <1>0, <1>2 DEF Submit, ghosts
  <2>2. CASE Everywhere' \subseteq Everywhere
    BY <2>1, <2>2, Loses
  <2>3. CASE /\ begun.on /\ begun.epoch = epoch
             /\ Everywhere' \subseteq Everywhere \union {begun.n}
    <3>1. begun.n \notin Barred
      BY <1>0, <2>3 DEF Absent, Barred, IInv, Numbered
    <3>2. begun.n # 0 /\ Barred' = Barred
      BY <2>1 DEF IInv, Numbered, Barred
    <3>3. History!Enter
      BY <2>1, <2>3, <3>1, <3>2 DEF History!Enter, Everywhere, Barred
    <3> QED BY <3>3 DEF History!Next
  <2> QED BY <1>2, <2>2, <2>3, SubmitEnters
<1>3. CASE Import
  <2>1. UNCHANGED <<begun, cleared, excluded, acked, unread>> /\ begun.n = 0
    BY <1>0, <1>3 DEF Import, Asked, failed
  <2>2. /\ ~deleted /\ sequence' = sequence + 1
        /\ Everywhere' \subseteq Everywhere \union {sequence + 1}
    BY <1>3, ImportEnters
  <2>3. at \notin {"down", "read"}
    BY <1>3 DEF Import, IInv, Steps
  <2>4. ~(acked /\ ~unread)
    BY <2>2, <2>3 DEF IInv, Tombstone
  <2>5. Barred' = Barred /\ begun'.n = begun.n
    BY <2>1 DEF Barred
  <2>6. History!Import
    BY <2>1, <2>2, <2>4, <2>5 DEF History!Import, Everywhere, Barred
  <2> QED BY <2>6 DEF History!Next
<1> SUFFICES ASSUME ~Begin, ~Submit, ~Import
             PROVE  [History!Next]_Promise
  BY <1>1, <1>2, <1>3
<1>4. Everywhere' \subseteq Everywhere
  BY NothingEnters
<1>5. CASE UNCHANGED <<begun, cleared, excluded, sequence, acked, unread>>
  BY <1>4, <1>5, Loses
<1>6. CASE Serve \/ Age \/ Export \/ Settings \/ Clear \/ Close \/ UNCHANGED vars
  BY <1>5, <1>6 DEF Serve, Age, Export, Settings, Clear, Close, vars, requests, ghosts, failed
<1>7. CASE Stage \/ CompactFails \/ Take \/ Rename \/ Count \/ Daily
  BY <1>5, <1>7 DEF Stage, CompactFails, Take, Rename, Count, Daily, requests, ghosts, failed
<1>8. CASE Rotate \/ Write \/ Unlink \/ Seal \/ Start \/ LoadPrev \/ LoadCur
  BY <1>5, <1>8
  DEF Rotate, Write, Unlink, Seal, Start, LoadPrev, LoadCur, requests, ghosts, failed
<1>12. CASE ReadSettings
  <2>1. UNCHANGED <<begun, cleared, excluded, sequence, acked>> /\ begun = NoRequest
    BY <1>12 DEF ReadSettings, requests, Asked, IInv, Steps
  <2>2. UNCHANGED <<records, queue, prev, cur, cache, popped, copy>>
    BY <1>12 DEF ReadSettings, files
  <2>3. Everywhere' = Everywhere /\ Barred' = Barred
    BY <2>1, <2>2 DEF Everywhere, Kept, Readable, Barred
  <2>4. CASE UNCHANGED unread
    BY <1>5, <2>1, <2>4
  <2>5. CASE unread' # unread
    <3>0. (unread' => acked) /\ unread' \in BOOLEAN /\ acked' = acked
      BY <1>12, Recalls
    <3>1. (acked /\ ~unread)' = ~(acked /\ ~unread)
      <4>1. unread \in BOOLEAN /\ acked \in BOOLEAN /\ (unread => acked)
        BY DEF Asked
      <4>2. acked /\ (unread' <=> ~unread)
        BY <2>5, <3>0, <4>1
      <4> QED BY <3>0, <4>2
    <3>2. History!Recall
      BY <1>0, <2>1, <2>3, <3>1 DEF History!Recall, Everywhere, Barred
    <3> QED BY <3>2 DEF History!Next
  <2> QED BY <2>4, <2>5
<1>9. CASE Crash \/ Exit
  <2>1. UNCHANGED <<cleared, excluded, sequence, acked, unread>> /\ begun'.n = 0
    BY <1>0, <1>9 DEF Crash, Exit, Gone, ghosts
  <2> QED BY <1>4, <2>1, Loses
<1>10. CASE SettingsApply
  <2>1. UNCHANGED <<begun, cleared, sequence, acked, unread>>
    BY <1>10 DEF SettingsApply, requests, failed
  <2>2. CASE excluded' = excluded
    BY <1>5, <2>1, <2>2
  <2>3. CASE excluded' # excluded
    <3>1. excluded' = excluded \union {begun.n} /\ begun.n # 0
      BY <1>10, <2>3 DEF SettingsApply
    <3>2. Barred' = Barred \union {begun.n}
      BY <2>1, <3>1 DEF Barred
    <3>3. History!Exclude
      BY <1>4, <2>1, <3>1, <3>2 DEF History!Exclude, Everywhere, Barred
    <3> QED BY <3>3 DEF History!Next
  <2> QED BY <2>2, <2>3
<1>11. CASE Forget
  <2>1. UNCHANGED <<begun, excluded, sequence>>
    BY <1>11 DEF Forget, requests
  <2>2. CASE ~ok
    BY <1>5, <1>11, <2>1, <2>2 DEF Forget
  <2>3. CASE ok
    <3>1. cleared' = 1..sequence /\ acked' = TRUE /\ unread' = FALSE
      BY <1>11, <2>3 DEF Forget
    <3>2. Barred' = 1..sequence
      BY <2>1, <3>1 DEF Barred, IInv, Numbered
    <3>3. Everywhere' = {}
      BY <1>11, <2>3, ForgetsAll
    <3>4. History!Clear
      BY <2>1, <3>1, <3>2, <3>3 DEF History!Clear, Everywhere, Barred
    <3> QED BY <3>4 DEF History!Next
  <2> QED BY <2>2, <2>3
<1> QED BY <1>6, <1>7, <1>8, <1>9, <1>10, <1>11, <1>12 DEF Next

LEMMA InitHistory == Init => History!Init /\ Asked
<1> SUFFICES ASSUME Init PROVE History!Init /\ Asked
  OBVIOUS
<1>1. NewFile.lines = {} /\ NoRequest.n = 0
  BY DEF NewFile, NoRequest
<1> QED BY <1>1 DEF Init, History!Init, Asked, Kept, Readable

\* The memory, the queue, the two segments, the cache and the copies between them
\* are one history for the user: a record enters once and never returns, and an
\* acknowledged deletion leaves nothing, through failures, crashes and restarts;
\* what perf_import is kept from ends with a start that cannot read the settings.
THEOREM SpecKeepsHistory == Spec => KeepsHistory
<1>1. IInv /\ Asked /\ [Next]_vars => Asked'
  BY AskedKeeps
<1>2. IInv /\ Asked /\ [Next]_vars
        => [History!Next]_<<Kept \union copy, cleared \union excluded, begun.n, sequence,
                            acked /\ ~unread>>
  BY StepKeepsHistory DEF Promise, Everywhere, Barred
<1> QED BY <1>1, <1>2, InitHistory, SpecIInv, PTL DEF Spec, KeepsHistory, History!Spec, History!vars

-----------------------------------------------------------------------------
(* Temporary files.                                                        *)

\* While the application runs, there is that of the step being made, and those
\* that could not be removed.
Staging ==
    /\ staged => at \in Files
    /\ Up => temps \subseteq stuck \union (IF staged THEN {at} ELSE {})

LEMMA StagingKeeps == ASSUME IInv, Staging, [Next]_vars PROVE Staging'
<1>1. CASE UNCHANGED <<temps, stuck, staged, at>>
  BY <1>1 DEF Staging, Up
<1>2. CASE Begin \/ Submit \/ Import \/ Serve \/ Age \/ Export \/ Close \/ UNCHANGED vars
  BY <1>1, <1>2
  DEF Begin, Submit, Import, Serve, Age, Export, Close, vars, files, holder, ghosts, failed
<1>3. ASSUME ~staged, Up, UNCHANGED <<temps, stuck, staged>> PROVE Staging'
  BY <1>3 DEF Staging
<1>4. ASSUME at \notin Files, Up, UNCHANGED <<temps, stuck, staged>> PROVE Staging'
  BY <1>3, <1>4 DEF Staging
<1>5. CASE Stage
  <2>1. at \in Files /\ ~staged /\ Up
    BY <1>5 DEF Stage, Files, Up
  <2>2. CASE UNCHANGED <<staged, temps, stuck>>
    BY <1>3, <2>1, <2>2
  <2>3. CASE temps' = temps \union {at} /\ staged' = TRUE /\ UNCHANGED <<at, stuck>>
    BY <2>1, <2>3 DEF Staging
  <2>4. CASE Remains /\ UNCHANGED staged
    BY <2>1, <2>4 DEF Staging, Remains
  <2> QED BY <1>5, <2>2, <2>3, <2>4 DEF Stage
<1>6. CASE Rename
  <2>1. /\ staged /\ staged' = FALSE
        /\ (temps' = temps \ {at} /\ stuck' = stuck) \/ Remains
    BY <1>6 DEF Rename
  <2>2. at \in Files /\ Up
    BY <2>1 DEF Staging, Files, Up
  <2> QED BY <2>1, <2>2 DEF Staging, Remains
<1>7. CASE CompactFails \/ Take \/ Rotate \/ Count \/ Daily
  <2>1. at \notin Files /\ Up /\ UNCHANGED <<temps, stuck, staged>>
    BY <1>7 DEF CompactFails, Take, Rotate, Count, Daily, files, Files, Up, ghosts, failed
  <2> QED BY <1>4, <2>1
<1>8. CASE Write \/ Settings \/ SettingsApply \/ Clear \/ Unlink \/ Forget \/ Seal
  <2>1. at \notin Files /\ Up /\ UNCHANGED <<temps, stuck, staged>>
    BY <1>8
    DEF Write, Settings, SettingsApply, Clear, Unlink, Forget, Seal, files, Files, Up, ghosts, failed
  <2> QED BY <1>4, <2>1
<1>9. CASE Exit \/ Crash
  BY <1>9 DEF Exit, Crash, Gone, Staging, Up
<1>10. CASE Start
  <2>1. at = "down" /\ stuck' = temps' /\ staged' = staged
    BY <1>10 DEF Start
  <2> QED BY <2>1 DEF Staging, Files
<1>11. CASE ReadSettings \/ LoadPrev \/ LoadCur
  <2>1. at \notin Files /\ Up /\ UNCHANGED <<temps, stuck, staged>>
    BY <1>11 DEF ReadSettings, LoadPrev, LoadCur, files, Files, Up, ghosts, failed
  <2> QED BY <1>4, <2>1
<1> QED BY <1>2, <1>5, <1>6, <1>7, <1>8, <1>9, <1>10, <1>11 DEF Next

\* atomic_file creates with O_EXCL: for one process and one holder of p.disk the
\* file it creates does not exist, since perf_init removes what a crash left and
\* atomic_file what it does not rename; but for one that could not be removed.
THEOREM SpecStagingFree == Spec => []StagingFree
<1>1. Init => Staging
  BY DEF Init, Staging, Up
<1>2. IInv /\ Staging /\ [Next]_vars => Staging'
  BY StagingKeeps
<1>3. Staging => StagingFree
  BY DEF Staging, StagingFree, Up, Files
<1> QED BY <1>1, <1>2, <1>3, SpecIInv, PTL DEF Spec

-----------------------------------------------------------------------------
(* The counters.                                                           *)

Account ==
    /\ IsFiniteSet(queue)
    /\ {accepted, persisted, dropped} \subseteq Nat
    /\ at = "down" => queue = {}
    /\ Accounted

LEMMA AccountKeeps == ASSUME IInv, Account, [Next]_vars PROVE Account'
<1>1. /\ IsFiniteSet(queue) /\ accepted \in Nat /\ persisted \in Nat /\ dropped \in Nat
      /\ Cardinality(queue) \in Nat
      /\ accepted = persisted + dropped + Cardinality(queue) + (IF popped # 0 THEN 1 ELSE 0)
  BY FS_CardinalityType DEF Account, Accounted
<1>2. ASSUME UNCHANGED <<queue, accepted, persisted, dropped, popped>>, at' = "down" => at = "down"
      PROVE  Account'
  BY <1>1, <1>2 DEF Account, Accounted
<1>3. ASSUME NEW n, Accept(n), n \notin Everywhere, UNCHANGED <<persisted, popped, at>>, Up
      PROVE  Account'
  <2>1. n \notin queue
    BY <1>3 DEF Everywhere, Kept
  <2>2. IsFiniteSet(queue \union {n}) /\ Cardinality(queue \union {n}) = Cardinality(queue) + 1
    BY <1>1, <2>1, FS_AddElement
  <2>3. CASE queue' = queue \union {n} /\ accepted' = accepted + 1 /\ UNCHANGED dropped
    BY <1>1, <1>3, <2>2, <2>3 DEF Account, Accounted, Up
  <2>4. CASE UNCHANGED queue /\ accepted' = accepted + 1 /\ dropped' = dropped + 1
    BY <1>1, <1>3, <2>4 DEF Account, Accounted, Up
  <2> QED BY <1>3, <2>3, <2>4 DEF Accept
<1>4. CASE Submit
  <2>1. UNCHANGED <<persisted, popped, at>>
    BY <1>4 DEF Submit, holder
  <2>2. Up
    BY <1>4 DEF Submit, IInv, Steps, Up
  <2>3. CASE Accept(begun.n)
    BY <1>3, <2>1, <2>2, <2>3 DEF IInv, Absent
  <2>4. CASE UNCHANGED <<queue, accepted, dropped>>
    BY <1>2, <2>1, <2>4
  <2> QED BY <1>4, <2>3, <2>4 DEF Submit
<1>5. CASE Import
  <2>1. UNCHANGED <<persisted, popped, at>> /\ Up
    BY <1>5 DEF Import, holder, Up
  <2>2. Accept(sequence + 1)
    BY <1>5 DEF Import
  <2>3. sequence + 1 \notin Everywhere
    BY DEF IInv, Numbered
  <2> QED BY <1>3, <2>1, <2>2, <2>3
<1>6. CASE Begin \/ Serve \/ Age \/ Export \/ Close \/ Settings \/ Clear \/ UNCHANGED vars
  BY <1>2, <1>6 DEF Begin, Serve, Age, Export, Close, Settings, Clear, vars, holder, counters
<1>7. ASSUME NEW done, Replaced(done) \/ CompactEnds(done) PROVE at' # "down"
  BY <1>7 DEF Replaced, CompactEnds, Unlock
<1>8. CASE Stage
  <2>1. UNCHANGED <<queue, accepted, persisted, dropped, popped>>
    BY <1>8 DEF Stage, counters
  <2> QED BY <1>2, <1>7, <1>8, <2>1 DEF Stage
<1>9. CASE Rename \/ CompactFails
  <2>1. UNCHANGED <<queue, accepted, persisted, dropped, popped>>
    BY <1>9 DEF Rename, CompactFails, counters
  <2>2. at' # "down"
    BY <1>7, <1>9 DEF Rename, CompactFails
  <2> QED BY <1>2, <2>1, <2>2
<1>10. CASE Take
  <2>1. PICK r \in queue : popped' = r /\ queue' = queue \ {r}
    BY <1>10 DEF Take
  <2>2. UNCHANGED <<accepted, persisted, dropped>> /\ at' = "append" /\ job = "none"
    BY <1>10 DEF Take, counters, IInv, Steps
  <2>3. popped = 0 /\ r # 0
    BY <2>2 DEF IInv, Steps, Numbered, Everywhere, Kept
  <2>4. IsFiniteSet(queue \ {r}) /\ Cardinality(queue \ {r}) = Cardinality(queue) - 1
    BY <1>1, FS_RemoveElement
  <2> QED BY <1>1, <2>1, <2>2, <2>3, <2>4 DEF Account, Accounted
<1>11. ASSUME NEW j, NEW r, NEW d, NEW safe, Compact(j, r, d, safe) PROVE at' # "down"
  BY <1>11 DEF Compact
<1>12. CASE Rotate \/ Write
  <2>1. UNCHANGED <<queue, accepted, persisted, dropped, popped>>
    BY <1>12 DEF Rotate, Write, counters
  <2>2. at' # "down"
    BY <1>11, <1>12 DEF Rotate, Write
  <2> QED BY <1>2, <2>1, <2>2
<1>13. CASE Count
  <2>1. /\ UNCHANGED <<queue, accepted>> /\ popped' = 0 /\ at' = "free"
        /\ \/ persisted' = persisted + 1 /\ UNCHANGED dropped
           \/ dropped' = dropped + 1 /\ UNCHANGED persisted
    BY <1>13 DEF Count, Unlock
  <2>2. popped # 0
    BY <1>13 DEF Count, IInv, Steps
  <2> QED BY <1>1, <2>1, <2>2 DEF Account, Accounted
<1>14. CASE Daily \/ SettingsApply
  <2>1. UNCHANGED <<queue, accepted, persisted, dropped, popped>>
    BY <1>14 DEF Daily, SettingsApply, counters
  <2>2. at' # "down"
    BY <1>11, <1>14 DEF Daily, SettingsApply, Unlock
  <2> QED BY <1>2, <2>1, <2>2
<1>15. CASE Unlink \/ Seal
  <2>1. UNCHANGED <<queue, accepted, persisted, dropped, popped>> /\ at' # "down"
    BY <1>15 DEF Unlink, Seal, Unlock, counters
  <2> QED BY <1>2, <2>1
<1>16. Cardinality({}) = 0 /\ IsFiniteSet({})
  BY FS_EmptySet
<1>17. CASE Forget
  <2>1. queue' = {} /\ persisted' = 0 /\ dropped' = 0 /\ accepted' = 0 /\ popped' = popped
    BY <1>17 DEF Forget
  <2>2. popped = 0
    BY <1>17 DEF Forget, IInv, Steps
  <2> QED BY <1>16, <2>1, <2>2 DEF Account, Accounted
<1>18. CASE Exit \/ Crash
  <2>1. queue' = {} /\ persisted' = 0 /\ dropped' = 0 /\ accepted' = 0 /\ popped' = 0
    BY <1>18 DEF Exit, Crash, Gone
  <2> QED BY <1>16, <2>1 DEF Account, Accounted
<1>19. CASE Start \/ ReadSettings
  <2>1. UNCHANGED <<queue, accepted, persisted, dropped, popped>> /\ at' # "down"
    BY <1>19 DEF Start, ReadSettings, counters
  <2> QED BY <1>2, <2>1
<1>20. ASSUME NEW lines, lines \subseteq Everywhere, Loaded(lines),
              UNCHANGED <<queue, dropped, popped>>, at' # "down"
       PROVE  Account'
  <2>1. Everywhere \subseteq 1..sequence /\ sequence \in Nat
    BY DEF IInv, Numbered
  <2>2. IsFiniteSet(lines \ records)
    <3>1. IsFiniteSet(1..sequence)
      BY <2>1, FS_Interval
    <3>2. lines \ records \subseteq 1..sequence
      BY <1>20, <2>1
    <3> QED BY <3>1, <3>2, FS_Subset
  <2>3. Cardinality(lines \ records) \in Nat
    BY <2>2, FS_CardinalityType
  <2>4. /\ accepted' = accepted + Cardinality(lines \ records)
        /\ persisted' = persisted + Cardinality(lines \ records)
    BY <1>20 DEF Loaded
  <2> QED BY <1>1, <1>20, <2>3, <2>4 DEF Account, Accounted
<1>21. CASE LoadPrev
  <2>1. PICK lines \in SUBSET prev.lines : Loaded(lines)
    BY <1>21 DEF LoadPrev
  <2>2. UNCHANGED <<queue, dropped, popped>> /\ at' # "down" /\ lines \subseteq Everywhere
    BY <1>21, <2>1 DEF LoadPrev, Everywhere, Kept, Readable
  <2> QED BY <1>20, <2>1, <2>2
<1>22. CASE LoadCur
  <2>1. PICK lines \in SUBSET cur.lines : Loaded(lines)
    BY <1>22 DEF LoadCur
  <2>2. UNCHANGED <<queue, dropped, popped>> /\ at' # "down" /\ lines \subseteq Everywhere
    BY <1>11, <1>22, <2>1 DEF LoadCur, Everywhere, Kept, Readable
  <2> QED BY <1>20, <2>1, <2>2
<1> QED BY <1>4, <1>5, <1>6, <1>8, <1>9, <1>10, <1>12, <1>13, <1>14, <1>15, <1>17, <1>18, <1>19,
           <1>21, <1>22 DEF Next

\* A record that perf_submit took is waiting, with the writer, stored or
\* counted as dropped, whatever failed on its way.
THEOREM SpecAccounted == Spec => []Accounted
<1>1. Init => Account
  BY FS_EmptySet DEF Init, Account, Accounted
<1>2. IInv /\ Account /\ [Next]_vars => Account'
  BY AccountKeeps
<1>3. Account => Accounted
  BY DEF Account
<1> QED BY <1>1, <1>2, <1>3, SpecIInv, PTL DEF Spec

-----------------------------------------------------------------------------
(* Compaction.                                                             *)

\* The copy holds what is safe, and its older part is in place before the
\* current segment is replaced; a deletion has nothing to keep.
Copied ==
    /\ at \in {"prev", "cur"} => committed \subseteq copy
    /\ at = "cur" => OldPart \subseteq prev.lines
    /\ job = "clear" => committed = {}

LEMMA CopiedKeeps == ASSUME IInv, Copied, [Next]_vars PROVE Copied'
<1>1. CASE UNCHANGED <<at, job, copy, prev, committed>>
  BY <1>1 DEF Copied, OldPart, First
<1>2. CASE Begin \/ Submit \/ Import \/ Serve \/ Age \/ Export \/ Close \/ UNCHANGED vars
  BY <1>1, <1>2 DEF Begin, Submit, Import, Serve, Age, Export, Close, vars, files, holder, ghosts
<1>3. ASSUME at' \notin {"prev", "cur"}, job' # "clear" PROVE Copied'
  BY <1>3 DEF Copied
<1>4. ASSUME at' \notin {"prev", "cur"}, job' = job, committed' = committed PROVE Copied'
  BY <1>4 DEF Copied
<1>5. ASSUME NEW done, CompactEnds(done) PROVE at' \notin {"prev", "cur"} /\ job' # "clear"
  BY <1>5 DEF CompactEnds, Unlock
<1>6. ASSUME Replaced(FALSE), UNCHANGED committed PROVE Copied'
  <2>1. CASE \E d : CompactEnds(d)
    BY <1>3, <1>5, <2>1
  <2>2. CASE at' \notin {"prev", "cur"} /\ job' = job
    BY <1>4, <1>6, <2>2
  <2> QED BY <1>6, <2>1, <2>2 DEF Replaced
<1>7. CASE Stage
  <2>1. UNCHANGED <<prev, committed>>
    BY <1>7 DEF Stage, journal, ghosts
  <2> QED BY <1>1, <1>6, <1>7, <2>1 DEF Stage
<1>8. CASE Rename
  <2>1. UNCHANGED committed
    BY <1>8 DEF Rename, ghosts
  <2>2. CASE Replaced(FALSE)
    BY <1>6, <2>1, <2>2
  <2>3. CASE Replaced(TRUE) /\ prev' = IF at = "prev" THEN Segment(OldPart) ELSE prev
    <3>1. CASE at = "prev" /\ at' = "cur" /\ UNCHANGED <<job, copy>>
      <4>1. prev'.lines = OldPart /\ OldPart' = OldPart
        BY <2>3, <3>1 DEF Segment, OldPart, First
      <4> QED BY <2>1, <3>1, <4>1 DEF Copied
    <3>2. CASE \E d : CompactEnds(d)
      BY <1>3, <1>5, <3>2
    <3>3. CASE at' \notin {"prev", "cur"} /\ job' = job
      BY <1>4, <2>1, <3>3
    <3> QED BY <2>3, <3>1, <3>2, <3>3 DEF Replaced
  <2> QED BY <1>8, <2>2, <2>3 DEF Rename
<1>9. CASE CompactFails
  BY <1>3, <1>5, <1>9 DEF CompactFails
<1>10. CASE Take \/ Rotate \/ Count \/ Settings
  <2>1. at' \notin {"prev", "cur"} /\ job' # "clear"
    BY <1>10 DEF Take, Rotate, Count, Settings, Unlock, IInv, Steps
  <2> QED BY <1>3, <2>1
<1>11. ASSUME NEW j, j # "clear", NEW r, NEW d, NEW safe, Compact(j, r, d, safe) PROVE Copied'
  <2>1. job' # "clear" /\ at' # "cur"
    BY <1>11 DEF Compact
  <2>2. at' = "prev" => committed' \subseteq copy'
    BY <1>11 DEF Compact
  <2> QED BY <2>1, <2>2 DEF Copied
<1>12. CASE Write
  <2>1. job = "writer"
    BY <1>12 DEF Write, IInv, Steps
  <2>2. CASE \E safe : Compact(job, records, days, safe)
    BY <1>11, <2>1, <2>2
  <2>3. CASE at' \in {"cache", "count"} /\ job' = job
    BY <1>3, <2>1, <2>3
  <2> QED BY <1>12, <2>2, <2>3 DEF Write
<1>13. CASE Daily
  BY <1>11, <1>13 DEF Daily
<1>14. CASE SettingsApply
  <2>1. job = "settings"
    BY <1>14 DEF SettingsApply, IInv, Steps
  <2>2. CASE Compact(job, records, want.days, committed)
    BY <1>11, <2>1, <2>2
  <2>3. CASE Unlock
    BY <1>3, <2>3 DEF Unlock
  <2> QED BY <1>14, <2>2, <2>3 DEF SettingsApply
<1>15. CASE Clear
  BY <1>15 DEF Clear, Copied
<1>16. CASE Unlink
  <2>1. at' \notin {"prev", "cur"} /\ UNCHANGED <<job, committed>>
    BY <1>16 DEF Unlink, ghosts
  <2> QED BY <1>4, <2>1
<1>17. CASE Forget \/ Exit \/ Crash \/ Seal
  BY <1>3, <1>17 DEF Forget, Exit, Crash, Seal, Unlock, Gone
<1>18. CASE Start \/ ReadSettings \/ LoadPrev
  <2>1. at' \notin {"prev", "cur"} /\ job' = "init"
    BY <1>18 DEF Start, ReadSettings, LoadPrev, IInv, Steps
  <2> QED BY <1>3, <2>1
<1>19. CASE LoadCur
  <2>1. CASE \E r, d, safe : Compact("init", r, d, safe)
    BY <1>11, <2>1
  <2>2. CASE UNCHANGED job /\ at' = "seal"
    BY <1>3, <1>19, <2>2 DEF LoadCur, IInv, Steps
  <2> QED BY <1>19, <2>1, <2>2 DEF LoadCur
<1> QED BY <1>2, <1>7, <1>8, <1>9, <1>10, <1>12, <1>13, <1>14, <1>15, <1>16, <1>17, <1>18, <1>19
        DEF Next

LEMMA Survives ==
    ASSUME IInv, Copied, [Next]_vars
    PROVE  cur.lines \intersect committed' \subseteq Readable'
<1>1. ASSUME cur.lines \subseteq cur'.lines PROVE cur.lines \subseteq Readable'
  BY <1>1 DEF Readable
<1>2. CASE UNCHANGED cur
  BY <1>1, <1>2
<1>3. CASE Begin \/ Submit \/ Import \/ Serve \/ Age \/ Export \/ Close \/ Settings \/ Clear
          \/ UNCHANGED vars
  BY <1>2, <1>3
  DEF Begin, Submit, Import, Serve, Age, Export, Close, Settings, Clear, vars, files, journal
<1>4. CASE Stage \/ CompactFails \/ Take \/ Count \/ Daily \/ SettingsApply
  BY <1>2, <1>4 DEF Stage, CompactFails, Take, Count, Daily, SettingsApply, files, journal
<1>5. CASE Forget \/ Exit \/ Crash \/ Start \/ ReadSettings \/ LoadPrev \/ LoadCur
  BY <1>2, <1>5 DEF Forget, Exit, Crash, Start, ReadSettings, LoadPrev, LoadCur, files, journal
<1>6. CASE Rename
  <2>1. UNCHANGED committed
    BY <1>6 DEF Rename, ghosts
  <2>2. CASE at = "cur" /\ prev' = prev /\ cur' = Segment(copy \ OldPart)
    <3>1. cur'.lines = copy \ OldPart
      BY <2>2 DEF Segment
    <3>2. copy \subseteq Readable'
      BY <2>2, <3>1 DEF Readable, Copied
    <3> QED BY <2>1, <2>2, <3>2 DEF Copied
  <2> QED BY <1>2, <1>6, <2>2 DEF Rename
<1>7. CASE Rotate
  <2>1. prev' = cur \/ UNCHANGED cur
    BY <1>7 DEF Rotate
  <2> QED BY <1>2, <2>1 DEF Readable
<1>8. CASE Write
  <2>1. cur \in Segments /\ cur' \in {cur, [cur EXCEPT !.torn = TRUE], Appended}
    BY <1>8 DEF Write, IInv, Numbered
  <2>2. cur.lines \subseteq Appended.lines
    BY DEF Appended
  <2>3. [cur EXCEPT !.torn = TRUE].lines = cur.lines
    BY <2>1 DEF Segments
  <2> QED BY <1>1, <2>1, <2>2, <2>3
<1>9. CASE Unlink
  <2>1. committed' = {}
    BY <1>9 DEF Unlink, ghosts, IInv, Steps, Copied
  <2> QED BY <2>1
<1>10. CASE Seal
  BY <1>1, <1>2, <1>10 DEF Seal
<1> QED BY <1>3, <1>4, <1>5, <1>6, <1>7, <1>8, <1>9, <1>10 DEF Next

\* compact_history, "Previous first, current second": no step, and no step that
\* fails, takes a safe record of the current segment out of both.
THEOREM SpecCurrentSurvives == Spec => CurrentSurvives
<1>1. Init => Copied
  BY DEF Init, Copied
<1>2. IInv /\ Copied /\ [Next]_vars => Copied'
  BY CopiedKeeps
<1>3. IInv /\ Copied /\ [Next]_vars => [cur.lines \intersect committed' \subseteq Readable']_vars
  BY Survives
<1> QED BY <1>1, <1>2, <1>3, SpecIInv, PTL DEF Spec, CurrentSurvives

-----------------------------------------------------------------------------
(* Types and bounds.                                                       *)

Preferences == [enabled : BOOLEAN, days : {Short, Long}, deleted : BOOLEAN]

\* The settings in memory, in the file and on their way to it.
Policies ==
    /\ enabled \in BOOLEAN /\ deleted \in BOOLEAN /\ days \in {Short, Long}
    /\ saved \in Preferences /\ want \in Preferences
    /\ ok \in BOOLEAN /\ staged \in BOOLEAN
    /\ serving \in BOOLEAN /\ closing \in BOOLEAN /\ acked \in BOOLEAN /\ unread \in BOOLEAN

\* A settings or clear call that has still to begin its epoch.
Pending == job = "clear" \/ at \in {"settings", "memory"}

\* Each call begins at most one epoch.
Epochs ==
    /\ sequence <= MaxSeq
    /\ calls \in Nat /\ calls <= MaxCalls
    /\ epoch <= calls + 1
    /\ Pending => epoch <= calls
    /\ job \in {"none", "init", "writer", "settings", "clear"}
    /\ temps \subseteq Files /\ stuck \subseteq Files

\* The memory and the queue are within their sizes.
Bounded ==
    /\ IsFiniteSet(records) /\ Cardinality(records) <= MaxRecords
    /\ IsFiniteSet(queue) /\ Cardinality(queue) <= QueueCap

Typing == Policies /\ Epochs /\ Bounded

LEMMA PoliciesKeeps == ASSUME IInv, Policies, [Next]_vars PROVE Policies'
<1> USE DEF Policies
<1>1. CASE Begin \/ Submit \/ Import \/ Serve \/ Age \/ Export \/ Close \/ Daily \/ Take \/ UNCHANGED vars
  <2>1. CASE Begin \/ Submit \/ Import \/ Serve \/ Age \/ Export \/ UNCHANGED vars
    <3>1. UNCHANGED <<policy, saved, want, ok, staged, closing, acked, unread>>
      BY <2>1 DEF Begin, Submit, Import, Serve, Age, Export, vars, files, holder, requests, ghosts, failed
    <3>2. serving' \in BOOLEAN
      BY <2>1 DEF Begin, Submit, Import, Serve, Age, Export, vars, requests
    <3> QED BY <3>1, <3>2 DEF policy
  <2>2. CASE Close \/ Daily \/ Take
    <3>1. UNCHANGED <<policy, saved, want, ok, staged, serving, acked, unread>>
      BY <2>2 DEF Close, Daily, Take, files, holder, requests, ghosts, failed
    <3>2. closing' \in BOOLEAN
      BY <2>2 DEF Close, Daily, Take, requests
    <3> QED BY <3>1, <3>2 DEF policy
  <2> QED BY <1>1, <2>1, <2>2
<1>2. ASSUME NEW done \in BOOLEAN, Replaced(done) \/ CompactEnds(done),
             saved' \in {saved, want}
      PROVE  ok' \in BOOLEAN /\ want' \in Preferences /\ saved' \in Preferences
  BY <1>2 DEF Replaced, CompactEnds, Unlock
<1>3. CASE Stage
  <2>1. UNCHANGED <<enabled, deleted, days, saved, serving, closing, acked, unread>>
    BY <1>3 DEF Stage, policy, requests, ghosts, failed
  <2>2. staged' \in BOOLEAN
    BY <1>3 DEF Stage
  <2>3. ok' \in BOOLEAN /\ want' \in Preferences
    BY <1>2, <1>3, <2>1 DEF Stage
  <2> QED BY <2>1, <2>2, <2>3
<1>4. CASE Rename
  <2>1. UNCHANGED <<enabled, deleted, days, serving, closing, acked, unread>> /\ staged' = FALSE
    BY <1>4 DEF Rename, policy, requests, ghosts, failed
  <2>2. saved' \in {saved, want} /\ (Replaced(TRUE) \/ Replaced(FALSE))
    BY <1>4 DEF Rename
  <2>3. ok' \in BOOLEAN /\ want' \in Preferences /\ saved' \in Preferences
    BY <1>2, <2>2
  <2> QED BY <2>1, <2>3
<1>5. CASE CompactFails
  <2>1. UNCHANGED <<enabled, deleted, days, saved, serving, closing, acked, unread, staged>>
    BY <1>5 DEF CompactFails, policy, requests, ghosts, failed, files
  <2>2. ok' \in BOOLEAN /\ want' \in Preferences
    BY <1>2, <1>5, <2>1 DEF CompactFails
  <2> QED BY <2>1, <2>2
<1>6. CASE Rotate \/ Write
  <2>1. UNCHANGED <<enabled, deleted, days, saved, want, serving, closing, acked, unread, staged>>
    BY <1>6 DEF Rotate, Write, policy, requests, failed
  <2>2. ok' \in BOOLEAN
    BY <1>6 DEF Rotate, Write
  <2> QED BY <2>1, <2>2
<1>7. CASE Count \/ Seal
  BY <1>7 DEF Count, Seal, Unlock, policy, requests, ghosts, failed, files
<1>8. CASE Settings
  <2>1. PICK c \in Choices : want' = [enabled |-> c.enabled, days |-> c.days, deleted |-> deleted]
    BY <1>8 DEF Settings
  <2>2. c.enabled \in BOOLEAN /\ c.days \in {Short, Long}
    BY JournalAssumption DEF Short, Long
  <2>3. want' \in Preferences
    BY <2>1, <2>2 DEF Preferences
  <2>4. /\ UNCHANGED <<enabled, deleted, days, saved, serving, closing, acked, unread, staged>>
        /\ ok' = TRUE
    BY <1>8 DEF Settings, policy, requests, ghosts, failed, files
  <2> QED BY <2>3, <2>4
<1>9. CASE Clear
  <2>1. want' \in Preferences
    BY <1>9 DEF Clear, Preferences
  <2>2. /\ UNCHANGED <<enabled, deleted, days, saved, serving, closing, acked, unread, staged>>
        /\ ok' = TRUE
    BY <1>9 DEF Clear, policy, requests, failed, files
  <2> QED BY <2>1, <2>2
<1>10. CASE SettingsApply
  <2>1. UNCHANGED <<deleted, saved, serving, closing, acked, unread, staged>>
    BY <1>10 DEF SettingsApply, requests, failed, files
  <2>2. enabled' \in {enabled, want.enabled} /\ days' \in {days, want.days}
    BY <1>10 DEF SettingsApply
  <2>3. ok' \in BOOLEAN /\ want' \in {want, saved}
    BY <1>10, <2>1 DEF SettingsApply, Unlock
  <2> QED BY <2>1, <2>2, <2>3 DEF Preferences
<1>11. CASE Unlink
  BY <1>11 DEF Unlink, policy, requests, ghosts, failed
<1>12. CASE Forget
  BY <1>12 DEF Forget, Unlock, requests, files
<1>13. CASE Exit \/ Crash
  BY <1>13 DEF Exit, Crash, Gone, files, ghosts
<1>14. CASE Start \/ LoadPrev \/ LoadCur
  <2>1. UNCHANGED <<enabled, deleted, days, saved, serving, closing, acked, unread, staged>>
    BY <1>14 DEF Start, LoadPrev, LoadCur, policy, requests, ghosts, failed, files
  <2>2. UNCHANGED <<ok, want>>
    BY <1>14 DEF Start, LoadPrev, LoadCur
  <2> QED BY <2>1, <2>2
<1>15. CASE ReadSettings
  BY <1>15 DEF ReadSettings, requests, Preferences, files
<1> QED BY <1>1, <1>3, <1>4, <1>5, <1>6, <1>7, <1>8, <1>9, <1>10, <1>11, <1>12, <1>13, <1>14, <1>15
        DEF Next

LEMMA EpochsKeeps == ASSUME IInv, Epochs, [Next]_vars PROVE Epochs'
<1> DEFINE Jobs == {"none", "init", "writer", "settings", "clear"}
<1>1. /\ MaxSeq \in Nat /\ MaxCalls \in Nat /\ sequence \in Nat /\ epoch \in Nat
      /\ Steps
  BY JournalAssumption DEF IInv, Numbered
<1>2. ASSUME UNCHANGED <<epoch, calls, temps, stuck>>, Pending' => Pending, job' \in Jobs,
             sequence' = sequence
      PROVE  Epochs'
  BY <1>1, <1>2 DEF Epochs
<1>3. CASE Serve \/ Age \/ Export \/ Close \/ UNCHANGED vars
  BY <1>2, <1>3
  DEF Serve, Age, Export, Close, vars, files, holder, policy, requests, bounds, ghosts, Pending,
      Epochs
<1>4. CASE Submit \/ Count \/ Seal
  BY <1>2, <1>4
  DEF Submit, Count, Seal, Unlock, files, holder, policy, requests, bounds, intact, ghosts, Pending,
      Epochs
<1>5. CASE Begin \/ Import
  <2>1. UNCHANGED <<epoch, calls, temps, stuck, job, at>>
    BY <1>5 DEF Begin, Import, files, holder, policy, bounds, failed
  <2>2. sequence' = sequence \/ (sequence < MaxSeq /\ sequence' = sequence + 1)
    BY <1>5 DEF Begin, Import
  <2> QED BY <1>1, <2>1, <2>2 DEF Epochs, Pending
<1>6. ASSUME Replaced(TRUE) \/ Replaced(FALSE) \/ CompactEnds(FALSE)
      PROVE  (Pending' => Pending) /\ job' \in Jobs
  BY <1>1, <1>6 DEF Replaced, CompactEnds, Unlock, Pending, Steps, Epochs
<1>7. CASE Stage
  <2>1. UNCHANGED <<epoch, calls, sequence>> /\ temps' \subseteq Files /\ stuck' \subseteq Files
    BY <1>7 DEF Stage, Remains, policy, intact, requests, Epochs
  <2>2. (Pending' => Pending) /\ job' \in Jobs
    BY <1>6, <1>7 DEF Stage, Pending, Epochs
  <2> QED BY <1>1, <2>1, <2>2 DEF Epochs
<1>8. CASE Rename
  <2>1. UNCHANGED <<epoch, calls, sequence>> /\ temps' \subseteq Files /\ stuck' \subseteq Files
    <3>1. at \in Files
      BY <1>8 DEF Rename, Replaced, Files
    <3>2. UNCHANGED <<epoch, calls, sequence>>
      BY <1>8 DEF Rename, policy, intact, requests
    <3>3. temps' \subseteq Files /\ stuck' \subseteq Files
      BY <1>8, <3>1 DEF Rename, Remains, Epochs
    <3> QED BY <3>2, <3>3
  <2>2. (Pending' => Pending) /\ job' \in Jobs
    BY <1>6, <1>8 DEF Rename
  <2> QED BY <1>1, <2>1, <2>2 DEF Epochs
<1>9. CASE CompactFails
  <2>1. UNCHANGED <<epoch, calls, temps, stuck, sequence>>
    BY <1>9 DEF CompactFails, policy, bounds, requests, files, ghosts, failed
  <2>2. (Pending' => Pending) /\ job' \in Jobs
    BY <1>6, <1>9 DEF CompactFails
  <2> QED BY <1>2, <2>1, <2>2
<1>10. ASSUME NEW j \in Jobs, j # "clear", NEW r, NEW d, NEW safe, Compact(j, r, d, safe)
       PROVE  ~Pending' /\ job' \in Jobs
  BY <1>10 DEF Compact, Pending
<1>11. CASE Take \/ Rotate
  <2>1. UNCHANGED <<epoch, calls, temps, stuck, sequence>> /\ job' = "writer"
    BY <1>1, <1>11 DEF Take, Rotate, policy, bounds, intact, requests, files, ghosts, failed, Steps
  <2>2. at' \notin {"settings", "memory"}
    BY <1>11 DEF Take, Rotate
  <2> QED BY <1>2, <2>1, <2>2 DEF Pending
<1>12. CASE Write
  <2>1. UNCHANGED <<epoch, calls, temps, stuck, sequence>> /\ job = "writer"
    BY <1>1, <1>12 DEF Write, policy, intact, requests, failed, Steps
  <2>2. CASE \E safe : Compact(job, records, days, safe)
    BY <1>2, <1>10, <2>1, <2>2
  <2>3. CASE at' \in {"cache", "count"} /\ job' = job
    BY <1>2, <2>1, <2>3 DEF Pending
  <2> QED BY <1>12, <2>2, <2>3 DEF Write
<1>13. CASE Daily
  <2>1. UNCHANGED <<epoch, calls, temps, stuck, sequence>>
    BY <1>13 DEF Daily, policy, bounds, requests, files, ghosts, failed
  <2> QED BY <1>2, <1>10, <1>13, <2>1 DEF Daily
<1>14. CASE Settings \/ Clear
  <2>1. UNCHANGED <<epoch, temps, stuck, sequence>> /\ calls < MaxCalls /\ calls' = calls + 1
    BY <1>14 DEF Settings, Clear, policy, requests, files, ghosts, failed
  <2>2. job' \in Jobs
    BY <1>14 DEF Settings, Clear
  <2> QED BY <1>1, <2>1, <2>2 DEF Epochs
<1>15. CASE SettingsApply
  <2>1. UNCHANGED <<calls, temps, stuck, sequence>> /\ Pending /\ job = "settings"
    BY <1>1, <1>15 DEF SettingsApply, bounds, requests, files, failed, Pending, Steps
  <2>2. epoch' = epoch \/ epoch' = epoch + 1
    BY <1>15 DEF SettingsApply
  <2>3. ~Pending' /\ job' \in Jobs
    <3>1. CASE Compact(job, records, want.days, committed)
      BY <1>10, <2>1, <3>1
    <3>2. CASE Unlock
      BY <3>2 DEF Unlock, Pending
    <3> QED BY <1>15, <3>1, <3>2 DEF SettingsApply
  <2> QED BY <1>1, <2>1, <2>2, <2>3 DEF Epochs
<1>16. CASE Unlink
  <2>1. UNCHANGED <<epoch, calls, temps, stuck, sequence, job>> /\ job = "clear"
    BY <1>1, <1>16 DEF Unlink, policy, intact, requests, ghosts, Steps
  <2> QED BY <1>2, <2>1 DEF Pending
<1>17. CASE Forget
  <2>1. UNCHANGED <<calls, temps, stuck, sequence>> /\ Pending /\ epoch' = epoch + 1
    BY <1>1, <1>17 DEF Forget, bounds, requests, files, Pending, Steps
  <2>2. ~Pending' /\ job' \in Jobs
    BY <1>17 DEF Forget, Unlock, Pending
  <2> QED BY <1>1, <2>1, <2>2 DEF Epochs
<1>18. CASE Exit \/ Crash
  BY <1>1, <1>18 DEF Exit, Crash, Gone, bounds, files, ghosts, Pending, Epochs
<1>19. CASE Start
  <2>1. UNCHANGED <<calls, sequence>> /\ epoch' = 1 /\ temps' \subseteq Files /\ stuck' \subseteq Files
    BY <1>19 DEF Start, requests, Epochs
  <2>2. ~Pending' /\ job' \in Jobs
    BY <1>19 DEF Start, Pending
  <2> QED BY <1>1, <2>1, <2>2 DEF Epochs
<1>20. CASE ReadSettings \/ LoadPrev \/ LoadCur
  <2>1. UNCHANGED <<epoch, calls, temps, stuck, sequence>> /\ job = "init"
    BY <1>1, <1>20
    DEF ReadSettings, LoadPrev, LoadCur, policy, intact, requests, files, ghosts, failed, Steps
  <2>2. ~Pending' /\ job' \in Jobs
    <3>1. CASE LoadCur /\ \E r : Compact("init", r, days, committed)
      BY <1>10, <3>1
    <3>2. CASE UNCHANGED job /\ at' \in {"load_prev", "load_cur", "seal"}
      BY <2>1, <3>2 DEF Pending
    <3> QED BY <1>20, <3>1, <3>2 DEF ReadSettings, LoadPrev, LoadCur
  <2> QED BY <1>2, <2>1, <2>2
<1> QED BY <1>3, <1>4, <1>5, <1>7, <1>8, <1>9, <1>11, <1>12, <1>13, <1>14, <1>15, <1>16, <1>17,
           <1>18, <1>19, <1>20 DEF Next

\* A non-empty finite set of numbers has a smallest one: of the sets of those
\* up to one of its elements, one contains no other.
LEMMA Smallest ==
    ASSUME NEW T, T \subseteq Nat, IsFiniteSet(T), T # {}
    PROVE  \E m \in T : \A n \in T : m <= n
<1> DEFINE UpTo(k) == {j \in T : j <= k}
           Starts  == {UpTo(k) : k \in T}
           R       == StrictSubsetOrdering(T)
<1>1. IsWellFoundedOn(R, SUBSET T)
  BY FS_StrictSubsetOrderingWellFounded, FS_FiniteSubsetsOfFinite
<1>2. Starts \subseteq SUBSET T /\ Starts # {}
  OBVIOUS
<1> HIDE DEF R
<1>3. PICK S \in Starts : \A U \in Starts : ~ (<<U, S>> \in R)
  BY <1>1, <1>2, WFMin
<1>4. PICK m \in T : S = UpTo(m)
  BY <1>3
<1>5. ASSUME NEW n \in T, n < m PROVE FALSE
  <2>1. n \in Nat /\ m \in Nat /\ \A k \in T : k \in Nat
    OBVIOUS
  <2>2. m \in UpTo(m) /\ m \notin UpTo(n)
    BY <1>5, <2>1
  <2>3. UpTo(n) \subseteq UpTo(m)
    <3>1. \A j \in T : j <= n => j <= m
      BY <1>5, <2>1
    <3> QED BY <3>1
  <2>4. UpTo(n) \in Starts /\ UpTo(n) \in SUBSET T /\ UpTo(m) \in SUBSET T
    OBVIOUS
  <2> HIDE DEF UpTo, Starts
  <2>5. <<UpTo(n), UpTo(m)>> \in R
    BY <2>2, <2>3, <2>4 DEF R, StrictSubsetOrdering
  <2> QED BY <1>3, <1>4, <2>4, <2>5
<1> QED BY <1>5

\* Of a finite set of numbers, Newest keeps at most as many as it is asked for:
\* those from the smallest it keeps on.
LEMMA NewestBounded ==
    ASSUME NEW S, S \subseteq Nat, IsFiniteSet(S), NEW n \in Nat
    PROVE  IsFiniteSet(Newest(S, n)) /\ Cardinality(Newest(S, n)) <= n
<1> DEFINE N == Newest(S, n)
<1>1. N \subseteq S /\ IsFiniteSet(N)
  BY Subsets, FS_Subset
<1>2. CASE N = {}
  BY <1>1, <1>2, FS_EmptySet
<1>3. CASE N # {}
  <2>1. PICK m \in N : \A k \in N : m <= k
    BY <1>1, <1>3, Smallest
  <2> DEFINE From == {s \in S : s >= m}
  <2>2. Cardinality(From) <= n
    BY <2>1 DEF Newest
  <2>3. N \subseteq From /\ IsFiniteSet(From)
    <3>1. \A k \in N : k \in S /\ k >= m
      BY <1>1, <2>1
    <3>2. IsFiniteSet(From)
      BY FS_Subset
    <3> QED BY <3>1, <3>2
  <2>4. Cardinality(N) <= Cardinality(From) /\ Cardinality(N) \in Nat /\ Cardinality(From) \in Nat
    BY <1>1, <2>3, FS_Subset, FS_CardinalityType
  <2> QED BY <1>1, <2>2, <2>4
<1> QED BY <1>2, <1>3

\* What is taken from a set within a size is within it.
LEMMA StillBounded ==
    ASSUME NEW S, IsFiniteSet(S), NEW n \in Nat, Cardinality(S) <= n, NEW T, T \subseteq S
    PROVE  IsFiniteSet(T) /\ Cardinality(T) <= n
<1>1. /\ IsFiniteSet(T) /\ Cardinality(T) <= Cardinality(S)
      /\ Cardinality(T) \in Nat /\ Cardinality(S) \in Nat
  BY FS_Subset, FS_CardinalityType
<1> QED BY <1>1

LEMMA BoundedKeeps == ASSUME IInv, Bounded, [Next]_vars PROVE Bounded'
<1>1. /\ IsFiniteSet(records) /\ Cardinality(records) <= MaxRecords
      /\ IsFiniteSet(queue) /\ Cardinality(queue) <= QueueCap
      /\ MaxRecords \in Nat /\ QueueCap \in Nat
  BY JournalAssumption DEF Bounded
<1>2. ASSUME records' \subseteq records, queue' \subseteq queue
      PROVE  Bounded'
  <2>1. IsFiniteSet(records') /\ Cardinality(records') <= MaxRecords
    BY <1>1, <1>2, StillBounded
  <2>2. IsFiniteSet(queue') /\ Cardinality(queue') <= QueueCap
    BY <1>1, <1>2, StillBounded
  <2> QED BY <2>1, <2>2 DEF Bounded
<1>3. ASSUME NEW n \in Nat, Accept(n)
      PROVE  Bounded'
  <2> DEFINE all == (records \ Expired(records, days)) \union {n}
  <2>1. IsFiniteSet(all) /\ all \subseteq Nat
    <3>1. IsFiniteSet(records \ Expired(records, days))
      BY <1>1, FS_Subset
    <3>2. records \subseteq Nat
      BY DEF IInv, Numbered, Everywhere, Kept
    <3> QED BY <3>1, <3>2, FS_AddElement
  <2>2. IsFiniteSet(records') /\ Cardinality(records') <= MaxRecords
    BY <1>1, <1>3, <2>1, NewestBounded DEF Accept
  <2>3. IsFiniteSet(queue') /\ Cardinality(queue') <= QueueCap
    <3>1. CASE Cardinality(queue) < QueueCap /\ queue' = queue \union {n}
      <4>1. /\ IsFiniteSet(queue')
            /\ Cardinality(queue') \in {Cardinality(queue), Cardinality(queue) + 1}
            /\ Cardinality(queue) \in Nat
        BY <1>1, <3>1, FS_AddElement, FS_CardinalityType
      <4> QED BY <1>1, <3>1, <4>1
    <3>2. CASE queue' = queue
      BY <1>1, <3>2
    <3> QED BY <1>3, <3>1, <3>2 DEF Accept
  <2> QED BY <2>2, <2>3 DEF Bounded
<1>4. CASE Submit
  <2>1. CASE Accept(begun.n)
    BY <1>3, <2>1 DEF IInv, Numbered
  <2>2. CASE UNCHANGED <<records, queue>>
    BY <1>2, <2>2
  <2> QED BY <1>4, <2>1, <2>2 DEF Submit
<1>5. CASE Import
  <2>1. Accept(sequence + 1) /\ sequence + 1 \in Nat
    BY <1>5 DEF Import, IInv, Numbered
  <2> QED BY <1>3, <2>1
<1>6. ASSUME NEW j, NEW r, NEW d, NEW safe, Compact(j, r, d, safe)
      PROVE  records' \subseteq r
  BY <1>6 DEF Compact
<1>7. CASE Write \/ Daily \/ SettingsApply
  <2>1. records' \subseteq records
    BY <1>6, <1>7 DEF Write, Daily, SettingsApply
  <2>2. UNCHANGED queue
    BY <1>7 DEF Write, Daily, SettingsApply
  <2> QED BY <1>2, <2>1, <2>2
<1>8. CASE Begin \/ Serve \/ Age \/ Export \/ Stage \/ Rename \/ CompactFails \/ Take \/ Rotate \/ Count
  BY <1>2, <1>8 DEF Begin, Serve, Age, Export, Stage, Rename, CompactFails, Take, Rotate, Count
<1>9. CASE Settings \/ Clear \/ Unlink \/ Start \/ ReadSettings \/ Seal \/ Close \/ UNCHANGED vars
  BY <1>2, <1>9 DEF Settings, Clear, Unlink, Start, ReadSettings, Seal, Close, vars
<1>10. CASE Forget \/ Exit \/ Crash
  <2>1. records' = {} /\ queue' = {}
    BY <1>10 DEF Forget, Exit, Crash, Gone
  <2> QED BY <1>2, <2>1
<1>11. ASSUME NEW lines, lines \subseteq Readable
       PROVE  /\ IsFiniteSet(Newest(Load(lines), MaxRecords))
              /\ Cardinality(Newest(Load(lines), MaxRecords)) <= MaxRecords
  <2>1. records \union Readable \subseteq 1..sequence /\ sequence \in Nat
    BY DEF IInv, Numbered, Everywhere, Kept
  <2>2. IsFiniteSet(1..sequence) /\ 1..sequence \subseteq Nat
    BY <2>1, FS_Interval
  <2>3. Load(lines) \subseteq 1..sequence
    BY <1>11, <2>1 DEF Load
  <2>4. IsFiniteSet(Load(lines)) /\ Load(lines) \subseteq Nat
    BY <2>2, <2>3, FS_Subset
  <2> QED BY <1>1, <2>4, NewestBounded
<1>12. CASE LoadPrev \/ LoadCur
  <2>1. PICK lines \in SUBSET Readable :
           \/ Compact("init", Newest(Load(lines), MaxRecords), days, committed)
           \/ records' = Newest(Load(lines), MaxRecords)
    BY <1>12 DEF LoadPrev, LoadCur, Readable
  <2>2. records' \subseteq Newest(Load(lines), MaxRecords)
    BY <1>6, <2>1
  <2>3. IsFiniteSet(records') /\ Cardinality(records') <= MaxRecords
    BY <1>1, <1>11, <2>2, StillBounded
  <2>4. UNCHANGED queue
    BY <1>12 DEF LoadPrev, LoadCur
  <2> QED BY <1>1, <2>3, <2>4 DEF Bounded
<1> QED BY <1>4, <1>5, <1>7, <1>8, <1>9, <1>10, <1>12 DEF Next

\* Every record has a number that was given, the memory and the queue stay
\* within PERF_RECORDS and PERF_QUEUE whatever is loaded, imported or
\* submitted, and a call begins one epoch at most.
THEOREM SpecTypeOK == Spec => []TypeOK
<1>1. Init => Typing
  <2> SUFFICES ASSUME Init PROVE Typing
    OBVIOUS
  <2>1. Policies
    BY DEF Init, Policies, Preferences, Short, Long
  <2>2. Epochs
    BY JournalAssumption DEF Init, Pending, Epochs
  <2>3. Bounded
    BY JournalAssumption, FS_EmptySet DEF Init, Bounded
  <2> QED BY <2>1, <2>2, <2>3 DEF Typing
<1>2. IInv /\ Typing /\ [Next]_vars => Typing'
  BY PoliciesKeeps, EpochsKeeps, BoundedKeeps DEF Typing
<1>3. IInv /\ Account /\ Typing => TypeOK
  <2> SUFFICES ASSUME IInv, Account, Typing PROVE TypeOK
    OBVIOUS
  <2>1. sequence \in Nat /\ sequence <= MaxSeq /\ MaxSeq \in Nat /\ MaxCalls \in Nat
    BY JournalAssumption DEF IInv, Numbered, Typing, Epochs
  <2>2. 1..sequence \subseteq Numbers
    BY <2>1 DEF Numbers
  <2>3. /\ {records, queue, cache, copy, prev.lines, cur.lines} \subseteq SUBSET Numbers
        /\ popped \in Numbers \union {0}
    BY <2>2 DEF IInv, Numbered, Everywhere, Kept, Readable
  <2>4. begun.n \in Numbers \union {0}
    BY <2>1 DEF IInv, Numbered, Numbers
  <2>5. epoch \in 0..MaxCalls + 1
    BY <2>1 DEF IInv, Numbered, Typing, Epochs
  <2>6. {persisted, dropped, accepted} \subseteq Nat
    BY DEF Account
  <2>7. temps \subseteq Files /\ stuck \subseteq Files /\ job \in {"none", "init", "writer", "settings", "clear"}
    BY DEF Typing, Epochs
  <2>8. Cardinality(records) <= MaxRecords /\ Cardinality(queue) <= QueueCap
    BY DEF Typing, Bounded
  <2>9. {enabled, deleted, staged, ok, serving, closing, acked, unread} \subseteq BOOLEAN
    BY DEF Typing, Policies
  <2>10. days \in {Short, Long}
    BY DEF Typing, Policies
  <2> QED BY <2>3, <2>4, <2>5, <2>6, <2>7, <2>8, <2>9, <2>10 DEF TypeOK
<1>4. Init => Account
  BY FS_EmptySet DEF Init, Account, Accounted
<1>5. IInv /\ Account /\ [Next]_vars => Account'
  BY AccountKeeps
<1> QED BY <1>1, <1>2, <1>3, <1>4, <1>5, SpecIInv, PTL DEF Spec

=============================================================================
