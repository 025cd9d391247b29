------------------------- MODULE ModelFile_proofs --------------------------
(***************************************************************************)
(* For any number of jobs and of changes by other programs: what is proved *)
(* of ModelFile.  The invariant follows the content of the file along the  *)
(* job.  Each part speaks of the file with a stamp, or an inode, that the  *)
(* job has noted; a file that another program changes gets a stamp above   *)
(* all that are noted, so that the part no longer speaks of it.            *)
(***************************************************************************)
EXTENDS ModelFile, TLAPS

\* The content is right, but for the inodes of the exception.
Right(file) == file.bytes = "good" \/ file.ino \in raced

Files ==
    /\ at \in {"down", "off", "remove_target", "remove_part", "fetch", "stamp", "hash",
               "check", "unlink", "recheck", "rename", "place", "restamp", "save", "tail"}
    /\ FileOK(part) /\ FileOK(target) /\ FileOK(child)
    /\ part # Absent => part.ino # target.ino

Going ==
    at \in {"fetch", "stamp", "hash", "check", "recheck", "rename", "place", "restamp",
           "save"} => ok

\* The file of the receipt.
Received == receipt # 0 /\ target.stamp = receipt => Right(target)

\* A hit is one of the installed file.
Cached == cached => ~download /\ before = receipt /\ before # 0

\* The file the job looked at first: its stamp, and whether it had the size.
Looked ==
    at \in {"hash", "check", "unlink", "recheck", "rename"} =>
        /\ before # 0 => before = looked
        /\ Verified.stamp = looked => (before # 0 <=> Verified.bytes \in Full)

\* The digest of the file that was stamped.
Hashed ==
    at = "check" /\ hashed =>
        /\ before # 0
        /\ ~cached /\ Verified.stamp = before => (match <=> Verified.bytes = "good")

\* What is about to be removed.
Doomed == at = "unlink" => ~ok /\ (Verified.stamp = looked => Verified.bytes # "good")

\* A download that was verified.
Chosen ==
    at \in {"recheck", "rename"} =>
        download /\ before # 0 /\ (part.stamp = before => part.bytes = "good")

\* The inode kept open, before the rename and after it.
Held   == at = "rename" => fd # 0 /\ (part.ino = fd => Right(part))
Placed == at = "place" => fd # 0 /\ (target.ino = fd => Right(target))

\* The destination once its inode was compared.
Compared == at = "restamp" /\ target # Absent => Right(target)

\* The stamp that the receipt is for, and the child is started with.
Saved ==
    at = "save" \/ (at = "tail" /\ ok /\ ~cancelled) =>
        after # 0 /\ (target.stamp = after => Right(target))

\* While nothing disturbs the job.
Calm ==
    calm =>
        /\ at \in {"hash", "check"} => Stamp(Verified) = before /\ ~cancelled
        /\ at = "check" => hashed \/ before = 0

IInv ==
    /\ FlagsOK /\ NumbersOK /\ Files /\ Going
    /\ Received /\ Cached /\ Looked /\ Hashed /\ Doomed
    /\ Chosen /\ Held /\ Placed /\ Compared /\ Saved
    /\ Calm /\ RetryPossible

-----------------------------------------------------------------------------
(* Every part is preserved.                                                *)

\* The truth values.
LEMMA KeepsFlagsOK == ASSUME IInv, [Next]_vars PROVE FlagsOK'
<1>1. CASE Edit  BY <1>1, Zenon DEF Edit, Unseen, IInv, FlagsOK, job, check, ghost
<1>2. CASE Cancel  BY <1>2, Zenon DEF Cancel, IInv, FlagsOK, job, check, ghost
<1>3. CASE Crash  BY <1>3, Zenon DEF Crash, IInv, FlagsOK, job, check, ghost
<1>4. CASE Restart  BY <1>4, Zenon DEF Restart, IInv, FlagsOK, job, check, ghost
<1>5. CASE Remove  BY <1>5, Zenon DEF Remove, IInv, FlagsOK, job, check, ghost
<1>6. CASE RemoveTarget  BY <1>6, Zenon DEF RemoveTarget, IInv, FlagsOK, job, check, ghost
<1>7. CASE RemovePart  BY <1>7, Zenon DEF RemovePart, IInv, FlagsOK, job, check, ghost
<1>8. CASE Begin  BY <1>8, Zenon DEF Begin, IInv, FlagsOK, job, check, ghost
<1>9. CASE Fetch  BY <1>9, Zenon DEF Fetch, IInv, FlagsOK, job, check, ghost
<1>10. CASE FetchBroken  BY <1>10, Zenon DEF FetchBroken, IInv, FlagsOK, job, check, ghost
<1>11. CASE Fail  BY <1>11, Zenon DEF Fail, IInv, FlagsOK, job, check, ghost
<1>12. CASE FirstStamp  BY <1>12, Zenon DEF FirstStamp, IInv, FlagsOK, job, check, ghost
<1>13. CASE Hash  BY <1>13, Zenon DEF Hash, IInv, FlagsOK, job, check, ghost
<1>14. CASE Check  BY <1>14, Zenon DEF Check, IInv, FlagsOK, job, check, ghost
<1>15. CASE Unlink  BY <1>15, Zenon DEF Unlink, IInv, FlagsOK, job, check, ghost
<1>16. CASE Recheck  BY <1>16, Zenon DEF Recheck, IInv, FlagsOK, job, check, ghost
<1>17. CASE Rename  BY <1>17, Zenon DEF Rename, IInv, FlagsOK, job, check, ghost
<1>18. CASE Place  BY <1>18, Zenon DEF Place, IInv, FlagsOK, job, check, ghost
<1>19. CASE Restamp  BY <1>19, Zenon DEF Restamp, IInv, FlagsOK, job, check, ghost
<1>20. CASE Save  BY <1>20, Zenon DEF Save, IInv, FlagsOK, job, check, ghost
<1>21. CASE Tail  BY <1>21, Zenon DEF Tail, IInv, FlagsOK, job, check, ghost
<1>22. CASE UNCHANGED vars  BY <1>22, Zenon DEF vars, IInv, FlagsOK, job, check, ghost
<1> QED  BY <1>1, <1>2, <1>3, <1>4, <1>5, <1>6, <1>7, <1>8, <1>9, <1>10, <1>11, <1>12, <1>13, <1>14, <1>15, <1>16, <1>17, <1>18, <1>19, <1>20, <1>21, <1>22 DEF Next

\* Stamps and inodes come from the clock.
LEMMA KeepsNumbersOK == ASSUME IInv, [Next]_vars PROVE NumbersOK'
<1> USE DEF IInv, NumbersOK, Files, FileOK, Stamp, Verified, Absent, Bytes, Changed, files, check, ghost
<1>1. CASE Edit
  <2>1. part' = part \/ part'.ino \in 0..clock'
    BY <1>1 DEF Edit, Edited, File, NewFile
  <2>2. target' = target \/ target'.ino \in 0..clock'
    BY <1>1 DEF Edit, Edited, File, NewFile
  <2>3. (IF part' = part THEN target' ELSE part').ino \in 0..clock'
    BY <1>1, <2>1, <2>2 DEF Edit
  <2>4. raced' \subseteq raced \union {(IF part' = part THEN target' ELSE part').ino}
    BY <1>1, Zenon DEF Edit
  <2>5. raced \subseteq 0..clock'
    BY <1>1 DEF Edit
  <2>6. raced' \subseteq 0..clock'
    BY <2>3, <2>4, <2>5
  <2>7. clock' = clock + 1 /\ UNCHANGED <<receipt, before, after, fd, looked>>
    BY <1>1 DEF Edit
  <2> QED  BY <2>6, <2>7
<1>2. CASE Cancel  BY <1>2 DEF Cancel
<1>3. CASE Crash  BY <1>3 DEF Crash
<1>4. CASE Restart  BY <1>4 DEF Restart
<1>5. CASE Remove  BY <1>5 DEF Remove
<1>6. CASE RemoveTarget  BY <1>6 DEF RemoveTarget
<1>7. CASE RemovePart  BY <1>7 DEF RemovePart
<1>8. CASE Begin  BY <1>8 DEF Begin
<1>9. CASE Fetch  BY <1>9 DEF Fetch
<1>10. CASE FetchBroken  BY <1>10 DEF FetchBroken
<1>11. CASE Fail  BY <1>11 DEF Fail
<1>12. CASE FirstStamp  BY <1>12 DEF FirstStamp
<1>13. CASE Hash  BY <1>13 DEF Hash
<1>14. CASE Check  BY <1>14 DEF Check
<1>15. CASE Unlink  BY <1>15 DEF Unlink
<1>16. CASE Recheck  BY <1>16 DEF Recheck
<1>17. CASE Rename  BY <1>17 DEF Rename
<1>18. CASE Place  BY <1>18 DEF Place
<1>19. CASE Restamp  BY <1>19 DEF Restamp
<1>20. CASE Save  BY <1>20 DEF Save
<1>21. CASE Tail  BY <1>21 DEF Tail
<1>22. CASE UNCHANGED vars  BY <1>22 DEF vars
<1> QED  BY <1>1, <1>2, <1>3, <1>4, <1>5, <1>6, <1>7, <1>8, <1>9, <1>10, <1>11, <1>12, <1>13, <1>14, <1>15, <1>16, <1>17, <1>18, <1>19, <1>20, <1>21, <1>22 DEF Next

\* The two files, and the place of the job.
LEMMA KeepsFiles == ASSUME IInv, [Next]_vars PROVE Files'
<1> USE DEF IInv, NumbersOK, Files, FileOK, Absent, Bytes, File, NewFile, Changed, Edited, Longer, files
<1>1. CASE Edit  BY <1>1 DEF Edit, Unseen
<1>2. CASE Cancel  BY <1>2 DEF Cancel
<1>3. CASE Crash  BY <1>3 DEF Crash
<1>4. CASE Restart  BY <1>4 DEF Restart
<1>5. CASE Remove  BY <1>5 DEF Remove
<1>6. CASE RemoveTarget  BY <1>6 DEF RemoveTarget
<1>7. CASE RemovePart  BY <1>7 DEF RemovePart
<1>8. CASE Begin  BY <1>8 DEF Begin
<1>9. CASE Fetch  BY <1>9 DEF Fetch
<1>10. CASE FetchBroken  BY <1>10 DEF FetchBroken
<1>11. CASE Fail  BY <1>11 DEF Fail
<1>12. CASE FirstStamp  BY <1>12 DEF FirstStamp
<1>13. CASE Hash  BY <1>13 DEF Hash
<1>14. CASE Check  BY <1>14 DEF Check
<1>15. CASE Unlink  BY <1>15 DEF Unlink
<1>16. CASE Recheck  BY <1>16 DEF Recheck
<1>17. CASE Rename  BY <1>17 DEF Rename
<1>18. CASE Place  BY <1>18 DEF Place
<1>19. CASE Restamp  BY <1>19 DEF Restamp
<1>20. CASE Save  BY <1>20 DEF Save
<1>21. CASE Tail  BY <1>21 DEF Tail
<1>22. CASE UNCHANGED vars  BY <1>22 DEF vars
<1> QED  BY <1>1, <1>2, <1>3, <1>4, <1>5, <1>6, <1>7, <1>8, <1>9, <1>10, <1>11, <1>12, <1>13, <1>14, <1>15, <1>16, <1>17, <1>18, <1>19, <1>20, <1>21, <1>22 DEF Next

\* A job on its way has not failed.
LEMMA KeepsGoing == ASSUME IInv, [Next]_vars PROVE Going'
<1> USE DEF IInv, Going
<1>1. CASE Edit  BY <1>1 DEF Edit, Unseen
<1>2. CASE Cancel  BY <1>2 DEF Cancel
<1>3. CASE Crash  BY <1>3 DEF Crash
<1>4. CASE Restart  BY <1>4 DEF Restart
<1>5. CASE Remove  BY <1>5 DEF Remove
<1>6. CASE RemoveTarget  BY <1>6 DEF RemoveTarget
<1>7. CASE RemovePart  BY <1>7 DEF RemovePart
<1>8. CASE Begin  BY <1>8 DEF Begin
<1>9. CASE Fetch  BY <1>9 DEF Fetch
<1>10. CASE FetchBroken  BY <1>10 DEF FetchBroken
<1>11. CASE Fail  BY <1>11 DEF Fail
<1>12. CASE FirstStamp  BY <1>12 DEF FirstStamp
<1>13. CASE Hash  BY <1>13 DEF Hash
<1>14. CASE Check  BY <1>14 DEF Check
<1>15. CASE Unlink  BY <1>15 DEF Unlink
<1>16. CASE Recheck  BY <1>16 DEF Recheck
<1>17. CASE Rename  BY <1>17 DEF Rename
<1>18. CASE Place  BY <1>18 DEF Place
<1>19. CASE Restamp  BY <1>19 DEF Restamp
<1>20. CASE Save  BY <1>20 DEF Save
<1>21. CASE Tail  BY <1>21 DEF Tail
<1>22. CASE UNCHANGED vars  BY <1>22 DEF vars
<1> QED  BY <1>1, <1>2, <1>3, <1>4, <1>5, <1>6, <1>7, <1>8, <1>9, <1>10, <1>11, <1>12, <1>13, <1>14, <1>15, <1>16, <1>17, <1>18, <1>19, <1>20, <1>21, <1>22 DEF Next

\* A new stamp is above every receipt, and Save's receipt is Saved.
LEMMA KeepsReceived == ASSUME IInv, [Next]_vars PROVE Received'
<1> USE DEF IInv, NumbersOK, Received, Saved, Right, Absent, File, NewFile, Edited, files, ghost
<1>1. CASE Edit  BY <1>1 DEF Edit, Unseen
<1>2. CASE Cancel  BY <1>2 DEF Cancel
<1>3. CASE Crash  BY <1>3 DEF Crash
<1>4. CASE Restart  BY <1>4 DEF Restart
<1>5. CASE Remove  BY <1>5 DEF Remove
<1>6. CASE RemoveTarget  BY <1>6 DEF RemoveTarget
<1>7. CASE RemovePart  BY <1>7 DEF RemovePart
<1>8. CASE Begin  BY <1>8 DEF Begin
<1>9. CASE Fetch  BY <1>9 DEF Fetch
<1>10. CASE FetchBroken  BY <1>10 DEF FetchBroken
<1>11. CASE Fail  BY <1>11 DEF Fail
<1>12. CASE FirstStamp  BY <1>12 DEF FirstStamp
<1>13. CASE Hash  BY <1>13 DEF Hash
<1>14. CASE Check  BY <1>14 DEF Check
<1>15. CASE Unlink  BY <1>15 DEF Unlink
<1>16. CASE Recheck  BY <1>16 DEF Recheck
<1>17. CASE Rename  BY <1>17 DEF Rename
<1>18. CASE Place  BY <1>18 DEF Place
<1>19. CASE Restamp  BY <1>19 DEF Restamp
<1>20. CASE Save  BY <1>20 DEF Save
<1>21. CASE Tail  BY <1>21 DEF Tail
<1>22. CASE UNCHANGED vars  BY <1>22 DEF vars
<1> QED  BY <1>1, <1>2, <1>3, <1>4, <1>5, <1>6, <1>7, <1>8, <1>9, <1>10, <1>11, <1>12, <1>13, <1>14, <1>15, <1>16, <1>17, <1>18, <1>19, <1>20, <1>21, <1>22 DEF Next

\* The receipt changes only where it was no hit.
LEMMA KeepsCached == ASSUME IInv, [Next]_vars PROVE Cached'
<1> USE DEF IInv, Cached, files, job, check
<1>1. CASE Edit  BY <1>1 DEF Edit, Unseen
<1>2. CASE Cancel  BY <1>2 DEF Cancel
<1>3. CASE Crash  BY <1>3 DEF Crash
<1>4. CASE Restart  BY <1>4 DEF Restart
<1>5. CASE Remove  BY <1>5 DEF Remove
<1>6. CASE RemoveTarget  BY <1>6 DEF RemoveTarget
<1>7. CASE RemovePart  BY <1>7 DEF RemovePart
<1>8. CASE Begin  BY <1>8 DEF Begin
<1>9. CASE Fetch  BY <1>9 DEF Fetch
<1>10. CASE FetchBroken  BY <1>10 DEF FetchBroken
<1>11. CASE Fail  BY <1>11 DEF Fail
<1>12. CASE FirstStamp  BY <1>12 DEF FirstStamp
<1>13. CASE Hash  BY <1>13 DEF Hash
<1>14. CASE Check  BY <1>14 DEF Check
<1>15. CASE Unlink  BY <1>15 DEF Unlink
<1>16. CASE Recheck  BY <1>16 DEF Recheck
<1>17. CASE Rename  BY <1>17 DEF Rename
<1>18. CASE Place  BY <1>18 DEF Place
<1>19. CASE Restamp  BY <1>19 DEF Restamp
<1>20. CASE Save  BY <1>20 DEF Save
<1>21. CASE Tail  BY <1>21 DEF Tail
<1>22. CASE UNCHANGED vars  BY <1>22 DEF vars
<1> QED  BY <1>1, <1>2, <1>3, <1>4, <1>5, <1>6, <1>7, <1>8, <1>9, <1>10, <1>11, <1>12, <1>13, <1>14, <1>15, <1>16, <1>17, <1>18, <1>19, <1>20, <1>21, <1>22 DEF Next

\* A file with the stamp first looked at is the file first looked at.
LEMMA KeepsLooked == ASSUME IInv, [Next]_vars PROVE Looked'
<1> USE DEF IInv, NumbersOK, Files, Looked, FileOK, Stamp, Verified, Absent, Full, File, NewFile, Edited, files, job, check, ghost
<1>1. CASE Edit  BY <1>1 DEF Edit, Unseen
<1>2. CASE Cancel  BY <1>2 DEF Cancel
<1>3. CASE Crash  BY <1>3 DEF Crash
<1>4. CASE Restart  BY <1>4 DEF Restart
<1>5. CASE Remove  BY <1>5 DEF Remove
<1>6. CASE RemoveTarget  BY <1>6 DEF RemoveTarget
<1>7. CASE RemovePart  BY <1>7 DEF RemovePart
<1>8. CASE Begin  BY <1>8 DEF Begin
<1>9. CASE Fetch  BY <1>9 DEF Fetch
<1>10. CASE FetchBroken  BY <1>10 DEF FetchBroken
<1>11. CASE Fail  BY <1>11 DEF Fail
<1>12. CASE FirstStamp  BY <1>12 DEF FirstStamp
<1>13. CASE Hash  BY <1>13 DEF Hash
<1>14. CASE Check  BY <1>14 DEF Check
<1>15. CASE Unlink  BY <1>15 DEF Unlink
<1>16. CASE Recheck  BY <1>16 DEF Recheck
<1>17. CASE Rename  BY <1>17 DEF Rename
<1>18. CASE Place  BY <1>18 DEF Place
<1>19. CASE Restamp  BY <1>19 DEF Restamp
<1>20. CASE Save  BY <1>20 DEF Save
<1>21. CASE Tail  BY <1>21 DEF Tail
<1>22. CASE UNCHANGED vars  BY <1>22 DEF vars
<1> QED  BY <1>1, <1>2, <1>3, <1>4, <1>5, <1>6, <1>7, <1>8, <1>9, <1>10, <1>11, <1>12, <1>13, <1>14, <1>15, <1>16, <1>17, <1>18, <1>19, <1>20, <1>21, <1>22 DEF Next

\* The digest is that of the file while its stamp is `before'.
LEMMA KeepsHashed == ASSUME IInv, [Next]_vars PROVE Hashed'
<1> USE DEF IInv, NumbersOK, Cached, Looked, Hashed, Stamp, Verified, Absent, File, NewFile, Edited, files, job, check
<1>1. CASE Edit  BY <1>1 DEF Edit, Unseen
<1>2. CASE Cancel  BY <1>2 DEF Cancel
<1>3. CASE Crash  BY <1>3 DEF Crash
<1>4. CASE Restart  BY <1>4 DEF Restart
<1>5. CASE Remove  BY <1>5 DEF Remove
<1>6. CASE RemoveTarget  BY <1>6 DEF RemoveTarget
<1>7. CASE RemovePart  BY <1>7 DEF RemovePart
<1>8. CASE Begin  BY <1>8 DEF Begin
<1>9. CASE Fetch  BY <1>9 DEF Fetch
<1>10. CASE FetchBroken  BY <1>10 DEF FetchBroken
<1>11. CASE Fail  BY <1>11 DEF Fail
<1>12. CASE FirstStamp  BY <1>12 DEF FirstStamp
<1>13. CASE Hash
  <2>1. hashed' => before' # 0
    BY <1>13 DEF Hash
  <2>2. UNCHANGED <<Verified, before, cached>>
    BY <1>13 DEF Hash
  <2>3. hashed' /\ ~cached /\ Stamp(Verified) = before => (match' <=> Verified.bytes = "good")
    BY <1>13, Zenon DEF Hash
  <2>4. Verified.stamp = before /\ before # 0 => Stamp(Verified) = before
    BY <1>13 DEF Hash
  <2> QED  BY <2>1, <2>2, <2>3, <2>4
<1>14. CASE Check  BY <1>14 DEF Check
<1>15. CASE Unlink  BY <1>15 DEF Unlink
<1>16. CASE Recheck  BY <1>16 DEF Recheck
<1>17. CASE Rename  BY <1>17 DEF Rename
<1>18. CASE Place  BY <1>18 DEF Place
<1>19. CASE Restamp  BY <1>19 DEF Restamp
<1>20. CASE Save  BY <1>20 DEF Save
<1>21. CASE Tail  BY <1>21 DEF Tail
<1>22. CASE UNCHANGED vars  BY <1>22 DEF vars
<1> QED  BY <1>1, <1>2, <1>3, <1>4, <1>5, <1>6, <1>7, <1>8, <1>9, <1>10, <1>11, <1>12, <1>13, <1>14, <1>15, <1>16, <1>17, <1>18, <1>19, <1>20, <1>21, <1>22 DEF Next

\* Check condemns a wrong size or a wrong digest.
LEMMA KeepsDoomed == ASSUME IInv, [Next]_vars PROVE Doomed'
<1> USE DEF IInv, NumbersOK, Looked, Hashed, Doomed, Verified, Absent, Full, File, NewFile, Edited, files, job, ghost
<1>1. CASE Edit  BY <1>1 DEF Edit, Unseen
<1>2. CASE Cancel  BY <1>2 DEF Cancel
<1>3. CASE Crash  BY <1>3 DEF Crash
<1>4. CASE Restart  BY <1>4 DEF Restart
<1>5. CASE Remove  BY <1>5 DEF Remove
<1>6. CASE RemoveTarget  BY <1>6 DEF RemoveTarget
<1>7. CASE RemovePart  BY <1>7 DEF RemovePart
<1>8. CASE Begin  BY <1>8 DEF Begin
<1>9. CASE Fetch  BY <1>9 DEF Fetch
<1>10. CASE FetchBroken  BY <1>10 DEF FetchBroken
<1>11. CASE Fail  BY <1>11 DEF Fail
<1>12. CASE FirstStamp  BY <1>12 DEF FirstStamp
<1>13. CASE Hash  BY <1>13 DEF Hash
<1>14. CASE Check  BY <1>14 DEF Check
<1>15. CASE Unlink  BY <1>15 DEF Unlink
<1>16. CASE Recheck  BY <1>16 DEF Recheck
<1>17. CASE Rename  BY <1>17 DEF Rename
<1>18. CASE Place  BY <1>18 DEF Place
<1>19. CASE Restamp  BY <1>19 DEF Restamp
<1>20. CASE Save  BY <1>20 DEF Save
<1>21. CASE Tail  BY <1>21 DEF Tail
<1>22. CASE UNCHANGED vars  BY <1>22 DEF vars
<1> QED  BY <1>1, <1>2, <1>3, <1>4, <1>5, <1>6, <1>7, <1>8, <1>9, <1>10, <1>11, <1>12, <1>13, <1>14, <1>15, <1>16, <1>17, <1>18, <1>19, <1>20, <1>21, <1>22 DEF Next

\* Check lets only a matching digest pass.
LEMMA KeepsChosen == ASSUME IInv, [Next]_vars PROVE Chosen'
<1> USE DEF IInv, NumbersOK, Cached, Hashed, Chosen, Verified, Absent, File, NewFile, Edited, files, job, check
<1>1. CASE Edit  BY <1>1 DEF Edit, Unseen
<1>2. CASE Cancel  BY <1>2 DEF Cancel
<1>3. CASE Crash  BY <1>3 DEF Crash
<1>4. CASE Restart  BY <1>4 DEF Restart
<1>5. CASE Remove  BY <1>5 DEF Remove
<1>6. CASE RemoveTarget  BY <1>6 DEF RemoveTarget
<1>7. CASE RemovePart  BY <1>7 DEF RemovePart
<1>8. CASE Begin  BY <1>8 DEF Begin
<1>9. CASE Fetch  BY <1>9 DEF Fetch
<1>10. CASE FetchBroken  BY <1>10 DEF FetchBroken
<1>11. CASE Fail  BY <1>11 DEF Fail
<1>12. CASE FirstStamp  BY <1>12 DEF FirstStamp
<1>13. CASE Hash  BY <1>13 DEF Hash
<1>14. CASE Check  BY <1>14 DEF Check
<1>15. CASE Unlink  BY <1>15 DEF Unlink
<1>16. CASE Recheck  BY <1>16 DEF Recheck
<1>17. CASE Rename  BY <1>17 DEF Rename
<1>18. CASE Place  BY <1>18 DEF Place
<1>19. CASE Restamp  BY <1>19 DEF Restamp
<1>20. CASE Save  BY <1>20 DEF Save
<1>21. CASE Tail  BY <1>21 DEF Tail
<1>22. CASE UNCHANGED vars  BY <1>22 DEF vars
<1> QED  BY <1>1, <1>2, <1>3, <1>4, <1>5, <1>6, <1>7, <1>8, <1>9, <1>10, <1>11, <1>12, <1>13, <1>14, <1>15, <1>16, <1>17, <1>18, <1>19, <1>20, <1>21, <1>22 DEF Next

\* The inode opened by Recheck has the verified stamp.
LEMMA KeepsHeld == ASSUME IInv, [Next]_vars PROVE Held'
<1> USE DEF IInv, Files, Chosen, Held, Right, FileOK, Stamp, Absent, files, ghost
<1>1. CASE Edit  BY <1>1 DEF Edit, Unseen
<1>2. CASE Cancel  BY <1>2 DEF Cancel
<1>3. CASE Crash  BY <1>3 DEF Crash
<1>4. CASE Restart  BY <1>4 DEF Restart
<1>5. CASE Remove  BY <1>5 DEF Remove
<1>6. CASE RemoveTarget  BY <1>6 DEF RemoveTarget
<1>7. CASE RemovePart  BY <1>7 DEF RemovePart
<1>8. CASE Begin  BY <1>8 DEF Begin
<1>9. CASE Fetch  BY <1>9 DEF Fetch
<1>10. CASE FetchBroken  BY <1>10 DEF FetchBroken
<1>11. CASE Fail  BY <1>11 DEF Fail
<1>12. CASE FirstStamp  BY <1>12 DEF FirstStamp
<1>13. CASE Hash  BY <1>13 DEF Hash
<1>14. CASE Check  BY <1>14 DEF Check
<1>15. CASE Unlink  BY <1>15 DEF Unlink
<1>16. CASE Recheck  BY <1>16 DEF Recheck
<1>17. CASE Rename  BY <1>17 DEF Rename
<1>18. CASE Place  BY <1>18 DEF Place
<1>19. CASE Restamp  BY <1>19 DEF Restamp
<1>20. CASE Save  BY <1>20 DEF Save
<1>21. CASE Tail  BY <1>21 DEF Tail
<1>22. CASE UNCHANGED vars  BY <1>22 DEF vars
<1> QED  BY <1>1, <1>2, <1>3, <1>4, <1>5, <1>6, <1>7, <1>8, <1>9, <1>10, <1>11, <1>12, <1>13, <1>14, <1>15, <1>16, <1>17, <1>18, <1>19, <1>20, <1>21, <1>22 DEF Next

\* rename brings the inode kept open into place, or another one.
LEMMA KeepsPlaced == ASSUME IInv, [Next]_vars PROVE Placed'
<1> USE DEF IInv, Held, Placed, Right, File, files, ghost
<1>1. CASE Edit  BY <1>1 DEF Edit, Unseen
<1>2. CASE Cancel  BY <1>2 DEF Cancel
<1>3. CASE Crash  BY <1>3 DEF Crash
<1>4. CASE Restart  BY <1>4 DEF Restart
<1>5. CASE Remove  BY <1>5 DEF Remove
<1>6. CASE RemoveTarget  BY <1>6 DEF RemoveTarget
<1>7. CASE RemovePart  BY <1>7 DEF RemovePart
<1>8. CASE Begin  BY <1>8 DEF Begin
<1>9. CASE Fetch  BY <1>9 DEF Fetch
<1>10. CASE FetchBroken  BY <1>10 DEF FetchBroken
<1>11. CASE Fail  BY <1>11 DEF Fail
<1>12. CASE FirstStamp  BY <1>12 DEF FirstStamp
<1>13. CASE Hash  BY <1>13 DEF Hash
<1>14. CASE Check  BY <1>14 DEF Check
<1>15. CASE Unlink  BY <1>15 DEF Unlink
<1>16. CASE Recheck  BY <1>16 DEF Recheck
<1>17. CASE Rename  BY <1>17 DEF Rename
<1>18. CASE Place  BY <1>18 DEF Place
<1>19. CASE Restamp  BY <1>19 DEF Restamp
<1>20. CASE Save  BY <1>20 DEF Save
<1>21. CASE Tail  BY <1>21 DEF Tail
<1>22. CASE UNCHANGED vars  BY <1>22 DEF vars
<1> QED  BY <1>1, <1>2, <1>3, <1>4, <1>5, <1>6, <1>7, <1>8, <1>9, <1>10, <1>11, <1>12, <1>13, <1>14, <1>15, <1>16, <1>17, <1>18, <1>19, <1>20, <1>21, <1>22 DEF Next

\* What replaces the file that was compared is one of the exceptions.
LEMMA KeepsCompared == ASSUME IInv, [Next]_vars PROVE Compared'
<1> USE DEF IInv, Placed, Compared, Right, Absent, files, ghost
<1>1. CASE Edit  BY <1>1 DEF Edit, Unseen
<1>2. CASE Cancel  BY <1>2 DEF Cancel
<1>3. CASE Crash  BY <1>3 DEF Crash
<1>4. CASE Restart  BY <1>4 DEF Restart
<1>5. CASE Remove  BY <1>5 DEF Remove
<1>6. CASE RemoveTarget  BY <1>6 DEF RemoveTarget
<1>7. CASE RemovePart  BY <1>7 DEF RemovePart
<1>8. CASE Begin  BY <1>8 DEF Begin
<1>9. CASE Fetch  BY <1>9 DEF Fetch
<1>10. CASE FetchBroken  BY <1>10 DEF FetchBroken
<1>11. CASE Fail  BY <1>11 DEF Fail
<1>12. CASE FirstStamp  BY <1>12 DEF FirstStamp
<1>13. CASE Hash  BY <1>13 DEF Hash
<1>14. CASE Check  BY <1>14 DEF Check
<1>15. CASE Unlink  BY <1>15 DEF Unlink
<1>16. CASE Recheck  BY <1>16 DEF Recheck
<1>17. CASE Rename  BY <1>17 DEF Rename
<1>18. CASE Place  BY <1>18 DEF Place
<1>19. CASE Restamp  BY <1>19 DEF Restamp
<1>20. CASE Save  BY <1>20 DEF Save
<1>21. CASE Tail  BY <1>21 DEF Tail
<1>22. CASE UNCHANGED vars  BY <1>22 DEF vars
<1> QED  BY <1>1, <1>2, <1>3, <1>4, <1>5, <1>6, <1>7, <1>8, <1>9, <1>10, <1>11, <1>12, <1>13, <1>14, <1>15, <1>16, <1>17, <1>18, <1>19, <1>20, <1>21, <1>22 DEF Next

\* From Restamp, or from Check for a file that was already in place.
LEMMA KeepsSaved == ASSUME IInv, [Next]_vars PROVE Saved'
<1> USE DEF IInv, NumbersOK, Received, Cached, Hashed, Doomed, Compared, Saved, Right, Stamp, Verified, Absent, Full, File, NewFile, Edited, files, ghost
<1>1. CASE Edit  BY <1>1 DEF Edit, Unseen
<1>2. CASE Cancel  BY <1>2 DEF Cancel
<1>3. CASE Crash  BY <1>3 DEF Crash
<1>4. CASE Restart  BY <1>4 DEF Restart
<1>5. CASE Remove  BY <1>5 DEF Remove
<1>6. CASE RemoveTarget  BY <1>6 DEF RemoveTarget
<1>7. CASE RemovePart  BY <1>7 DEF RemovePart
<1>8. CASE Begin  BY <1>8 DEF Begin
<1>9. CASE Fetch  BY <1>9 DEF Fetch
<1>10. CASE FetchBroken  BY <1>10 DEF FetchBroken
<1>11. CASE Fail  BY <1>11 DEF Fail
<1>12. CASE FirstStamp  BY <1>12 DEF FirstStamp
<1>13. CASE Hash  BY <1>13 DEF Hash
<1>14. CASE Check  BY <1>14 DEF Check
<1>15. CASE Unlink  BY <1>15 DEF Unlink
<1>16. CASE Recheck  BY <1>16 DEF Recheck
<1>17. CASE Rename  BY <1>17 DEF Rename
<1>18. CASE Place  BY <1>18 DEF Place
<1>19. CASE Restamp  BY <1>19 DEF Restamp
<1>20. CASE Save  BY <1>20 DEF Save
<1>21. CASE Tail  BY <1>21 DEF Tail
<1>22. CASE UNCHANGED vars  BY <1>22 DEF vars
<1> QED  BY <1>1, <1>2, <1>3, <1>4, <1>5, <1>6, <1>7, <1>8, <1>9, <1>10, <1>11, <1>12, <1>13, <1>14, <1>15, <1>16, <1>17, <1>18, <1>19, <1>20, <1>21, <1>22 DEF Next

\* A calm job meets the file it stamped.
LEMMA KeepsCalm == ASSUME IInv, [Next]_vars PROVE Calm'
<1> USE DEF IInv, Calm, Verified, files, job, check, ghost
<1>1. CASE Edit  BY <1>1 DEF Edit, Unseen
<1>2. CASE Cancel  BY <1>2 DEF Cancel
<1>3. CASE Crash  BY <1>3 DEF Crash
<1>4. CASE Restart  BY <1>4 DEF Restart
<1>5. CASE Remove  BY <1>5 DEF Remove
<1>6. CASE RemoveTarget  BY <1>6 DEF RemoveTarget
<1>7. CASE RemovePart  BY <1>7 DEF RemovePart
<1>8. CASE Begin  BY <1>8 DEF Begin
<1>9. CASE Fetch  BY <1>9 DEF Fetch
<1>10. CASE FetchBroken  BY <1>10 DEF FetchBroken
<1>11. CASE Fail  BY <1>11 DEF Fail
<1>12. CASE FirstStamp  BY <1>12 DEF FirstStamp
<1>13. CASE Hash
  <2>1. ~calm' \/ UNCHANGED calm
    BY <1>13, Zenon DEF Hash
  <2>4. ~calm' \/ hashed' \/ before = 0
    BY <1>13, Zenon DEF Hash
  <2>2. UNCHANGED <<Verified, before, cancelled>> /\ Stamp(Verified)' = Stamp(Verified)
    BY <1>13 DEF Hash
  <2>3. calm => Stamp(Verified) = before /\ ~cancelled
    BY <1>13 DEF Hash
  <2> QED  BY <2>1, <2>2, <2>3, <2>4
<1>14. CASE Check  BY <1>14 DEF Check
<1>15. CASE Unlink  BY <1>15 DEF Unlink
<1>16. CASE Recheck  BY <1>16 DEF Recheck
<1>17. CASE Rename  BY <1>17 DEF Rename
<1>18. CASE Place  BY <1>18 DEF Place
<1>19. CASE Restamp  BY <1>19 DEF Restamp
<1>20. CASE Save  BY <1>20 DEF Save
<1>21. CASE Tail  BY <1>21 DEF Tail
<1>22. CASE UNCHANGED vars  BY <1>22 DEF vars
<1> QED  BY <1>1, <1>2, <1>3, <1>4, <1>5, <1>6, <1>7, <1>8, <1>9, <1>10, <1>11, <1>12, <1>13, <1>14, <1>15, <1>16, <1>17, <1>18, <1>19, <1>20, <1>21, <1>22 DEF Next

\* A calm job that fails has removed the file.
LEMMA KeepsRetryPossible == ASSUME IInv, [Next]_vars PROVE RetryPossible'
<1> USE DEF IInv, Going, Calm, RetryPossible, Verified, Absent, files, job, ghost
<1>1. CASE Edit  BY <1>1 DEF Edit, Unseen
<1>2. CASE Cancel  BY <1>2 DEF Cancel
<1>3. CASE Crash  BY <1>3 DEF Crash
<1>4. CASE Restart  BY <1>4 DEF Restart
<1>5. CASE Remove  BY <1>5 DEF Remove
<1>6. CASE RemoveTarget  BY <1>6 DEF RemoveTarget
<1>7. CASE RemovePart  BY <1>7 DEF RemovePart
<1>8. CASE Begin  BY <1>8 DEF Begin
<1>9. CASE Fetch  BY <1>9 DEF Fetch
<1>10. CASE FetchBroken  BY <1>10 DEF FetchBroken
<1>11. CASE Fail  BY <1>11 DEF Fail
<1>12. CASE FirstStamp  BY <1>12 DEF FirstStamp
<1>13. CASE Hash  BY <1>13 DEF Hash
<1>14. CASE Check  BY <1>14 DEF Check
<1>15. CASE Unlink  BY <1>15 DEF Unlink
<1>16. CASE Recheck  BY <1>16 DEF Recheck
<1>17. CASE Rename  BY <1>17 DEF Rename
<1>18. CASE Place  BY <1>18 DEF Place
<1>19. CASE Restamp  BY <1>19 DEF Restamp
<1>20. CASE Save  BY <1>20 DEF Save
<1>21. CASE Tail  BY <1>21 DEF Tail
<1>22. CASE UNCHANGED vars  BY <1>22 DEF vars
<1> QED  BY <1>1, <1>2, <1>3, <1>4, <1>5, <1>6, <1>7, <1>8, <1>9, <1>10, <1>11, <1>12, <1>13, <1>14, <1>15, <1>16, <1>17, <1>18, <1>19, <1>20, <1>21, <1>22 DEF Next

LEMMA InitHolds == Init => IInv
<1> SUFFICES ASSUME Init PROVE IInv
  OBVIOUS
<1>1. FlagsOK
  BY Zenon DEF Init, FlagsOK
<1>2. NumbersOK /\ Files
  BY DEF Init, NumbersOK, Files, FileOK
<1>3. Going /\ Received /\ Cached /\ Looked /\ Hashed /\ Doomed
  BY DEF Init, Going, Received, Cached, Looked, Hashed, Doomed
<1>4. Chosen /\ Held /\ Placed /\ Compared /\ Saved /\ Calm /\ RetryPossible
  BY DEF Init, Chosen, Held, Placed, Compared, Saved, Calm, RetryPossible
<1> QED  BY <1>1, <1>2, <1>3, <1>4 DEF IInv

LEMMA StepKeeps == IInv /\ [Next]_vars => IInv'
<1> SUFFICES ASSUME IInv, [Next]_vars PROVE IInv'
  OBVIOUS
<1>1. FlagsOK' /\ NumbersOK' /\ Files' /\ Going'
  BY KeepsFlagsOK, KeepsNumbersOK, KeepsFiles, KeepsGoing
<1>2. Received' /\ Cached' /\ Looked' /\ Hashed' /\ Doomed'
  BY KeepsReceived, KeepsCached, KeepsLooked, KeepsHashed, KeepsDoomed
<1>3. Chosen' /\ Held' /\ Placed' /\ Compared' /\ Saved' /\ Calm' /\ RetryPossible'
  BY KeepsChosen, KeepsHeld, KeepsPlaced, KeepsCompared, KeepsSaved, KeepsCalm, KeepsRetryPossible
<1> QED  BY <1>1, <1>2, <1>3 DEF IInv

\* The inductive invariant: what each note of the job tells of the files.
THEOREM SpecIInv == Spec => []IInv
<1> QED  BY InitHolds, StepKeeps, PTL DEF Spec

-----------------------------------------------------------------------------
(* The properties.                                                         *)

\* Types, for any number of jobs and changes: no inode is at both places and no
\* stamp lies in the future.
THEOREM SpecTypeOK == Spec => []TypeOK
<1>1. IInv => TypeOK
  BY DEF IInv, Files, TypeOK
<1> QED  BY <1>1, SpecIInv, PTL

\* model_job saves receipts only for the right content: one that fits the file
\* in place is honest, whatever was edited, cancelled, removed or killed.
THEOREM SpecReceiptHonest == Spec => []ReceiptHonest
<1>1. IInv => ReceiptHonest
  BY DEF IInv, Received, ReceiptHonest, Right, Stamp
<1> QED  BY <1>1, SpecIInv, PTL

\* model_job removes what it found to be wrong: a job that fails undisturbed
\* leaves no wrong file of the model's size to the next one.
THEOREM SpecRetryPossible == Spec => []RetryPossible
<1>1. IInv => RetryPossible
  BY DEF IInv
<1> QED  BY <1>1, SpecIInv, PTL

\* start_child gets the file that was verified: unless it changed since the last
\* stamp, its content is right.
THEOREM SpecStartsVerified == Spec => StartsVerified
<1>1. IInv /\ [Next]_vars =>
        (child' # child /\ child' # Absent /\ child'.stamp = after =>
            child'.bytes = "good" \/ child'.ino \in raced)
  <2> SUFFICES ASSUME IInv, [Next]_vars, child' # child, child' # Absent, child'.stamp = after
               PROVE  child'.bytes = "good" \/ child'.ino \in raced
    OBVIOUS
  <2>1. CASE Tail
    BY <2>1 DEF Tail, IInv, Saved, Right
  <2>2. CASE Next /\ ~Tail
    <3>1. child' = child \/ child' = Absent
      BY <2>2 DEF Next, Edit, Cancel, Crash, Restart, Remove, RemoveTarget, RemovePart, Begin,
                  Fetch, FetchBroken, Fail, FirstStamp, Hash, Check, Unlink, Recheck, Rename,
                  Place, Restamp, Save
    <3> QED  BY <3>1
  <2>3. CASE UNCHANGED vars
    BY <2>3 DEF vars
  <2> QED  BY <2>1, <2>2, <2>3
<1> QED  BY <1>1, SpecIInv, PTL DEF Spec, StartsVerified

\* model_job's unlink and rename never cost a good file, unless the file that was
\* looked at has changed since.
THEOREM SpecKeepsGood == Spec => KeepsGood
<1>1. IInv /\ [Next]_vars =>
        (at \in {"unlink", "rename"} /\ at' # at /\ target.bytes = "good"
            /\ target'.bytes # "good" => Verified.stamp # looked)
  <2> SUFFICES ASSUME IInv, [Next]_vars, at \in {"unlink", "rename"}, at' # at,
                      target.bytes = "good", target'.bytes # "good"
               PROVE  Verified.stamp # looked
    OBVIOUS
  <2>1. CASE Unlink
    BY <2>1 DEF Unlink, IInv, Doomed, Verified
  <2>2. CASE Rename
    BY <2>2 DEF Rename, File, IInv, Looked, Chosen, Verified
  <2>3. CASE Crash \/ Fail
    BY <2>3 DEF Crash, Fail, files
  <2>4. CASE UNCHANGED vars
    BY <2>4 DEF vars
  <2>5. Unlink \/ Rename \/ Crash \/ Fail \/ UNCHANGED vars
    BY DEF Next, Edit, Cancel, Restart, Remove, RemoveTarget, RemovePart, Begin, Fetch,
           FetchBroken, FirstStamp, Hash, Check, Recheck, Place, Restamp, Save, Tail
  <2> QED  BY <2>1, <2>2, <2>3, <2>4, <2>5
<1> QED  BY <1>1, SpecIInv, PTL DEF Spec, KeepsGood

=============================================================================
