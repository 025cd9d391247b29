----------------------------- MODULE ModelFile -----------------------------
(***************************************************************************)
(* How one model's file comes to be trusted (model_job in jobs.c, remove   *)
(* in routes.c).  A download fills `.part'; the job stamps the file,       *)
(* hashes it, stamps it again, and only then renames it into place, saves  *)
(* a receipt for its stamp and starts the child from it.  A file whose     *)
(* stamp is the receipt's is not hashed again.                             *)
(*                                                                         *)
(* Between any two system calls another program may change, replace or     *)
(* delete either file, the user may cancel, and geist-app may be killed.   *)
(* A stamp stands for the identity, the size and the nanosecond times of a *)
(* file: here, the number of its last change.                              *)
(***************************************************************************)
EXTENDS Naturals, FiniteSets

CONSTANTS
    MaxJobs,    \* bound: jobs begun
    MaxEdits    \* bound: changes by other programs

ASSUME FileAssumption == MaxJobs \in Nat /\ MaxEdits \in Nat

VARIABLES
    part, target,   \* the two files
    receipt,        \* the preference verified-<digest>: a stamp, or 0
    at,             \* where the job is; "off" without one, "down" without geist-app
    download, activate,     \* app.job
    cancelled,
    before, after,  \* the stamps taken; 0 for a file that has not the model's size
    cached,         \* before is the receipt
    hashed, match,  \* hash_ok, and whether the digest is the catalog's
    fd,             \* the inode kept open across the rename, or 0
    ok,
    child,          \* the file from which the child was last started
    clock,          \* changes so far: the source of inodes and stamps
    jobs, edits,    \* as many as the bounds allow
    looked,         \* the last change of the file when the job first looked at it
    calm,           \* nothing has failed, changed or been cancelled since the job began
    raced           \* inodes edited between the last look at .part and its new stamp, or
                    \* put in its place between the comparison of inodes and that stamp

files == <<part, target, receipt>>
job   == <<download, activate>>
check == <<before, cached, hashed, match>>
count == <<jobs, edits>>
ghost == <<looked, calm, raced>>
vars  == <<files, at, job, cancelled, check, after, fd, ok, child, clock, count, ghost>>

\* A file is absent, shorter than the model, or has its size and the right or
\* the wrong content.
Absent == [bytes |-> "none", ino |-> 0, stamp |-> 0]
Full   == {"good", "bad"}
Bytes  == Full \union {"short"}
File(bytes, ino) == [bytes |-> bytes, ino |-> ino, stamp |-> clock + 1]
NewFile(bytes)   == File(bytes, clock + 1)

\* model_stamp.
Stamp(file) == IF file.bytes \in Full THEN file.stamp ELSE 0

\* What is verified, and later started.
Verified == IF download THEN part ELSE target

Changed == clock' = clock + 1

-----------------------------------------------------------------------------
(* Everything that may happen beside the job.                              *)

\* What another program can make of a file.
Edited(file) == {NewFile(b) : b \in Bytes} \union
    (IF file = Absent THEN {} ELSE {Absent} \union {File(b, file.ino) : b \in Bytes})

\* The change is one that Place and Restamp cannot tell from the rename's own: an
\* edit of the inode kept open, or any change of the target once it is compared.
Unseen(edited) ==
    \/ at \in {"rename", "place"} /\ edited.ino = fd
    \/ at = "restamp" /\ target' \notin {target, Absent}

Edit ==
    /\ edits < MaxEdits /\ edits' = edits + 1 /\ Changed
    /\ \/ part' \in Edited(part) /\ UNCHANGED target
       \/ target' \in Edited(target) /\ UNCHANGED part
    /\ calm' = FALSE
    /\ LET edited == IF part' = part THEN target' ELSE part' IN
       raced' = IF Unseen(edited) THEN raced \union {edited.ino} ELSE raced
    /\ UNCHANGED <<receipt, at, job, cancelled, check, after, fd, ok, child, jobs, looked>>

Cancel ==
    /\ at \notin {"off", "down", "remove_target", "remove_part"}
    /\ cancelled' = TRUE /\ calm' = FALSE
    /\ UNCHANGED <<files, at, job, check, after, fd, ok, child, clock, count, looked, raced>>

\* geist-app is killed, and started again.
Crash ==
    /\ at # "down" /\ at' = "down"
    /\ download' = FALSE /\ activate' = FALSE /\ cancelled' = FALSE
    /\ before' = 0 /\ after' = 0 /\ cached' = FALSE /\ hashed' = FALSE /\ match' = FALSE
    /\ fd' = 0 /\ ok' = FALSE /\ child' = Absent /\ looked' = 0 /\ calm' = FALSE
    /\ UNCHANGED <<files, clock, count, raced>>

Restart ==
    /\ at = "down" /\ at' = "off"
    /\ UNCHANGED <<files, job, cancelled, check, after, fd, ok, child, clock, count, ghost>>

\* /app/remove, which holds app.mutex, while no job runs.
Remove ==
    /\ at = "off" /\ at' = "remove_target"
    /\ UNCHANGED <<files, job, cancelled, check, after, fd, ok, child, clock, count, ghost>>

RemoveTarget ==
    /\ at = "remove_target"
    /\ \/ target' = Absent /\ at' = "remove_part"
       \/ UNCHANGED target /\ at' \in {"remove_part", "off"}
    /\ calm' = FALSE
    /\ UNCHANGED <<part, receipt, job, cancelled, check, after, fd, ok, child, clock, count,
                   looked, raced>>

RemovePart ==
    /\ at = "remove_part" /\ at' = "off"
    /\ part' \in {Absent, part}
    /\ UNCHANGED <<target, receipt, job, cancelled, check, after, fd, ok, child, clock, count,
                   ghost>>

-----------------------------------------------------------------------------
(* model_job.                                                              *)

\* begin_job.  A file that is there is activated; a download may be for later.
Begin ==
    /\ at = "off" /\ jobs < MaxJobs /\ jobs' = jobs + 1
    /\ download' \in BOOLEAN /\ activate' \in BOOLEAN
    /\ ~download' => activate' /\ target.bytes \in Full
    /\ at' = IF download' THEN "fetch" ELSE "stamp"
    /\ cancelled' = FALSE /\ ok' = TRUE /\ calm' = TRUE
    /\ before' = 0 /\ after' = 0 /\ cached' = FALSE /\ hashed' = FALSE /\ match' = FALSE
    /\ fd' = 0 /\ looked' = 0
    /\ UNCHANGED <<files, child, clock, edits, raced>>

\* The job gives up: `.part' cannot be opened, created or continued; it changed;
\* the rename fails; or the file in place is another one.
Fail ==
    /\ at \in {"fetch", "recheck", "rename", "place", "restamp"}
    /\ ok' = FALSE /\ at' = "tail" /\ calm' = FALSE
    /\ UNCHANGED <<files, job, cancelled, check, after, fd, child, clock, count, looked, raced>>

\* download_model: `.part' is created or continued.
Longer(bytes) == IF part = Absent THEN NewFile(bytes) ELSE File(bytes, part.ino)
Fetch ==
    /\ at = "fetch" /\ at' = "stamp"
    /\ \/ part.bytes \in Full /\ UNCHANGED <<part, clock>>
       \/ part.bytes \notin Full /\ Changed /\ \E b \in Full : part' = Longer(b)
    /\ UNCHANGED <<target, receipt, job, cancelled, check, after, fd, ok, child, count, ghost>>

\* Cancelled, broken off or not synced.
FetchBroken ==
    /\ at = "fetch" /\ part.bytes \notin Full /\ Changed
    /\ \E b \in Bytes : part' = Longer(b)
    /\ ok' = FALSE /\ at' = "tail" /\ calm' = FALSE
    /\ UNCHANGED <<target, receipt, job, cancelled, check, after, fd, child, count, looked, raced>>

\* The first stamp, and the receipt.
FirstStamp ==
    /\ at = "stamp"
    /\ before' = Stamp(Verified) /\ looked' = Verified.stamp
    /\ cached' \in BOOLEAN /\ (cached' => ~download /\ before' # 0 /\ receipt = before')
    /\ at' = IF cancelled THEN "tail" ELSE "hash"
    /\ UNCHANGED <<files, job, cancelled, hashed, match, after, fd, ok, child, clock, count,
                   calm, raced>>

\* app_sha256_interruptible.  What it reads of a file that is changed
\* meanwhile may have any digest.
Hash ==
    /\ at = "hash" /\ at' = "check"
    /\ \/ cached /\ hashed' = TRUE /\ match' = FALSE /\ UNCHANGED calm
       \/ /\ ~cached /\ before # 0
          /\ hashed' = TRUE /\ match' \in BOOLEAN
          /\ Stamp(Verified) = before => (match' <=> Verified.bytes = "good")
          /\ UNCHANGED calm
       \/ ~cached /\ before = 0 /\ hashed' = FALSE /\ match' = FALSE /\ UNCHANGED calm
       \/ /\ ~cached /\ before # 0                  \* cancelled, or not readable
          /\ hashed' = FALSE /\ match' = FALSE /\ calm' = FALSE
    /\ UNCHANGED <<files, job, cancelled, before, cached, after, fd, ok, child, clock, count,
                   looked, raced>>

\* Mutant: the second stamp is not compared.
CheckNotStable ==
    /\ at = "check"
    /\ after' = Stamp(Verified)
    /\ LET right     == hashed /\ (cached \/ match)
           condemned == before = 0 \/ hashed
       IN  \/ right /\ ok' = TRUE /\ at' = IF download THEN "recheck" ELSE "save"
           \/ ~right /\ ok' = FALSE /\ at' = IF condemned /\ ~cancelled THEN "unlink" ELSE "tail"
    /\ UNCHANGED <<files, job, cancelled, check, fd, child, clock, count, ghost>>

\* Mutant: a file that could not be read is removed as well.
CheckUnread ==
    /\ at = "check"
    /\ after' = Stamp(Verified)
    /\ LET stable    == after' # 0 /\ after' = before
           right     == hashed /\ stable /\ (cached \/ match)
           condemned == before = 0 \/ stable
       IN  \/ right /\ ok' = TRUE /\ at' = IF download THEN "recheck" ELSE "save"
           \/ ~right /\ ok' = FALSE /\ at' = IF condemned /\ ~cancelled THEN "unlink" ELSE "tail"
    /\ UNCHANGED <<files, job, cancelled, check, fd, child, clock, count, ghost>>

\* Mutant: a file of the right size is never removed.
CheckSizeOnly ==
    /\ at = "check"
    /\ after' = Stamp(Verified)
    /\ LET stable    == after' # 0 /\ after' = before
           right     == hashed /\ stable /\ (cached \/ match)
           condemned == before = 0
       IN  \/ right /\ ok' = TRUE /\ at' = IF download THEN "recheck" ELSE "save"
           \/ ~right /\ ok' = FALSE /\ at' = IF condemned /\ ~cancelled THEN "unlink" ELSE "tail"
    /\ UNCHANGED <<files, job, cancelled, check, fd, child, clock, count, ghost>>

\* The second stamp and the verdict.  A wrong size, or a wrong digest of a file
\* that did not change, costs the file; a cancel or a read error does not.
Check ==
    /\ at = "check"
    /\ after' = Stamp(Verified)
    /\ LET stable    == after' # 0 /\ after' = before
           right     == hashed /\ stable /\ (cached \/ match)
           condemned == before = 0 \/ (hashed /\ stable)
       IN  \/ right /\ ok' = TRUE /\ at' = IF download THEN "recheck" ELSE "save"
           \/ ~right /\ ok' = FALSE /\ at' = IF condemned /\ ~cancelled THEN "unlink" ELSE "tail"
    /\ UNCHANGED <<files, job, cancelled, check, fd, child, clock, count, ghost>>

Unlink ==
    /\ at = "unlink" /\ at' = "tail"
    /\ \/ /\ IF download THEN part' = Absent /\ UNCHANGED target
                         ELSE target' = Absent /\ UNCHANGED part
          /\ UNCHANGED calm
       \/ UNCHANGED <<part, target>> /\ calm' = FALSE
    /\ UNCHANGED <<receipt, job, cancelled, check, after, fd, ok, child, clock, count,
                   looked, raced>>

\* `.part' is opened and still has the stamp that was verified.
Recheck ==
    /\ at = "recheck" /\ Stamp(part) = before
    /\ fd' = part.ino /\ at' = "rename"
    /\ UNCHANGED <<files, job, cancelled, check, after, ok, child, clock, count, ghost>>

\* Mutant: the file is linked into place and stays under its first name.
RenameKeepsPart ==
    /\ at = "rename" /\ part # Absent /\ Changed
    /\ target' = File(part.bytes, part.ino) /\ at' = "place"
    /\ UNCHANGED <<part, receipt, job, cancelled, check, after, fd, ok, child, count, ghost>>

\* rename, which is a change of its own.
Rename ==
    /\ at = "rename" /\ part # Absent /\ Changed
    /\ target' = File(part.bytes, part.ino) /\ part' = Absent /\ at' = "place"
    /\ UNCHANGED <<receipt, job, cancelled, check, after, fd, ok, child, count, ghost>>

\* Mutant: whatever stands there now is taken for the verified file.
PlaceAny ==
    /\ at = "place" /\ target # Absent
    /\ at' = "restamp"
    /\ UNCHANGED <<files, job, cancelled, check, after, fd, ok, child, clock, count, ghost>>

\* fstat and lstat: the destination is the inode kept open.
Place ==
    /\ at = "place" /\ target # Absent /\ target.ino = fd
    /\ at' = "restamp"
    /\ UNCHANGED <<files, job, cancelled, check, after, fd, ok, child, clock, count, ghost>>

\* model_stamp's own lstat: the stamp of what stands there now is the receipt's.
Restamp ==
    /\ at = "restamp" /\ Stamp(target) # 0
    /\ after' = Stamp(target) /\ at' = "save"
    /\ UNCHANGED <<files, job, cancelled, check, fd, ok, child, clock, count, ghost>>

\* save_preference, atomic, best effort.
Save ==
    /\ at = "save" /\ at' = "tail"
    /\ receipt' \in {receipt} \union (IF cached \/ cancelled THEN {} ELSE {after})
    /\ UNCHANGED <<part, target, job, cancelled, check, after, fd, ok, child, clock, count, ghost>>

\* The last critical section: the child opens the path anew.  What the job has
\* noted is not read again: the next begin_job sets it anew.
Tail ==
    /\ at = "tail" /\ at' = "off"
    /\ child' \in {child} \union
                  (IF ok /\ activate /\ ~cancelled /\ target # Absent THEN {target} ELSE {})
    /\ download' = FALSE /\ activate' = FALSE /\ cancelled' = FALSE /\ ok' = FALSE
    /\ before' = 0 /\ after' = 0 /\ cached' = FALSE /\ hashed' = FALSE /\ match' = FALSE
    /\ fd' = 0 /\ looked' = 0 /\ calm' = FALSE
    /\ UNCHANGED <<files, clock, count, raced>>

Init ==
    /\ part = Absent /\ target = Absent /\ receipt = 0 /\ at = "down"
    /\ download = FALSE /\ activate = FALSE /\ cancelled = FALSE
    /\ before = 0 /\ after = 0 /\ cached = FALSE /\ hashed = FALSE /\ match = FALSE
    /\ fd = 0 /\ ok = FALSE /\ child = Absent /\ clock = 0
    /\ jobs = 0 /\ edits = 0 /\ looked = 0 /\ calm = FALSE /\ raced = {}

Next ==
    \/ Edit \/ Cancel \/ Crash \/ Restart
    \/ Remove \/ RemoveTarget \/ RemovePart
    \/ Begin \/ Fetch \/ FetchBroken \/ Fail \/ FirstStamp \/ Hash \/ Check \/ Unlink
    \/ Recheck \/ Rename \/ Place \/ Restamp \/ Save \/ Tail

Spec == Init /\ [][Next]_vars

-----------------------------------------------------------------------------
(* Properties.                                                             *)

FileOK(file) ==
    \/ file = Absent
    \/ file \in [bytes : Bytes, ino : 1..clock, stamp : 1..clock]

FlagsOK ==
    /\ download \in BOOLEAN /\ activate \in BOOLEAN /\ cancelled \in BOOLEAN
    /\ cached \in BOOLEAN /\ hashed \in BOOLEAN /\ match \in BOOLEAN
    /\ ok \in BOOLEAN /\ calm \in BOOLEAN

NumbersOK ==
    /\ clock \in Nat /\ receipt \in 0..clock /\ before \in 0..clock /\ after \in 0..clock
    /\ fd \in 0..clock /\ looked \in 0..clock /\ raced \subseteq 0..clock

\* Types; and no inode is at both places, nor a stamp in the future.
TypeOK ==
    /\ at \in {"down", "off", "remove_target", "remove_part", "fetch", "stamp", "hash",
               "check", "unlink", "recheck", "rename", "place", "restamp", "save", "tail"}
    /\ FlagsOK /\ NumbersOK
    /\ FileOK(part) /\ FileOK(target) /\ FileOK(child)
    /\ part # Absent => part.ino # target.ino

\* docs/MODEL-CATALOG.md: replacing or changing a file requires full
\* verification again.  A receipt that fits the installed file is one of the
\* right content, whatever was changed, cancelled or killed before; except for
\* an edit of the open inode between the last look at `.part' and the new stamp,
\* and for a change of the target between the comparison of inodes and that stamp.
ReceiptHonest ==
    receipt # 0 /\ receipt = Stamp(target) => target.bytes = "good" \/ target.ino \in raced

\* docs/APP.md: a confirmed mismatch removes the file.  No job that ran
\* undisturbed leaves wrong content behind that the next one would find again.
RetryPossible == at = "tail" /\ calm /\ ~ok => Verified.bytes # "bad"

\* The child is started from the file that was verified: if nobody changed it
\* since the job's last look, its content is right (same exceptions).
StartsVerified ==
    [][child' # child /\ child' # Absent /\ child'.stamp = after =>
         child'.bytes = "good" \/ child'.ino \in raced]_vars

\* docs/APP.md: cancellation and I/O errors preserve the file.  The job
\* removes or replaces a good installed file only by a good one, unless
\* another program changed what the job is looking at.
KeepsGood ==
    [][(/\ at \in {"unlink", "rename"} /\ at' # at
        /\ target.bytes = "good" /\ target'.bytes # "good") =>
         Verified.stamp # looked]_vars

=============================================================================
