------------------------ MODULE UploadOutcomesProofs ------------------------
(***************************************************************************)
(* How an upload ends.  A removed upload leaves no final object behind,    *)
(* for any number of threads and workers: whoever might still write it is  *)
(* bound for a cleanup.  And with one worker process, whose name is then   *)
(* as good as a token, no sound upload is rejected but by a thread with    *)
(* the lease whose own media tool was interrupted: here the lease is what  *)
(* the argument rests on.                                                  *)
(***************************************************************************)
EXTENDS UploadsProofs, FiniteSetTheorems

-----------------------------------------------------------------------------
(* Where a thread goes, with its scan flag. *)

LEMMA GotoScans ==
  ASSUME TypeOK, NEW t \in Threads, NEW pc \in Pcs, Goto(t, pc)
  PROVE  /\ Moved(t, pc)
         /\ thread'[t].scan => thread[t].scan
         /\ pc # "idle" => thread'[t].scan = thread[t].scan
<1>1. PICK b \in BOOLEAN : b = (thread[t].scan /\ pc # "idle")
  OBVIOUS
<1>2. thread' = [thread EXCEPT ![t] = [pc |-> pc, scan |-> b]]
  BY <1>1 DEF Goto, Enter
<1>3. thread'[t].scan = b
  BY <1>2 DEF TypeOK
<1>4. thread[t].scan \in BOOLEAN
  BY DEF TypeOK
<1> QED
  BY <1>1, <1>3, <1>4, GotoMoves

-----------------------------------------------------------------------------
(* Removed uploads are clean. *)

\* A thread that finds or learns that the row is removed, and then cleans up.
Bound == {"claim", "cleanup", "sweep", "loop", "completed", "promote", "promoted",
          "unstage", "check", "finalize", "fail"}

Leftover == row.st \in Removed /\ final /\ ~uncleaned
Owed == Leftover => \E t \in Threads : thread[t].pc \in Bound

\* The thread that moves is bound for a cleanup if there is something to clean, or it
\* was not the one that owed it.
OwedStep(t) == Leftover' => \/ thread'[t].pc \in Bound
                            \/ Leftover /\ thread[t].pc \notin Bound

LEMMA OwedMoves ==
  ASSUME NEW t \in Threads, IInv,
         Request(t) \/ Scan(t) \/ Step(t) \/ Error(t) \/ Crash(t) \/ RenewLease(t)
  PROVE  OwedStep(t)
<1>1. \A pc \in Pcs : Goto(t, pc) => thread'[t].pc = pc
  BY GotoMoves DEF IInv, Moved
<1>2. \A pc \in Pcs : Enter(t, pc, TRUE) => thread'[t].pc = pc
  BY EnterMoves DEF IInv, Moved
<1>3. /\ row \in RowType /\ row.st \in DOMAIN Table /\ uncleaned \in BOOLEAN
  BY DEF IInv, TypeOK, RowType
<1> USE <1>1, <1>2, <1>3
    DEF OwedStep, Leftover, Bound, Removed, Pcs, Working, At, RowType, Released, Same,
        inputVars, storeVars, resourceVars, historyVars
<1>4. CASE Expire(t)
  BY <1>4 DEF Expire
<1>5. CASE Prepare(t)
  BY <1>5 DEF Prepare
<1>6. CASE SignParts(t)
  BY <1>6 DEF SignParts
<1>7. CASE MarkCompleting(t)
  BY <1>7 DEF MarkCompleting
<1>8. CASE Cancel(t)
  BY <1>8 DEF Cancel
<1>9. CASE Scan(t)
  BY <1>9 DEF Scan
<1>10. CASE EnsureMultipart(t)
  BY <1>10 DEF EnsureMultipart
<1>11. CASE PatchUploading(t)
  BY <1>11 DEF PatchUploading
<1>12. CASE PatchCancelled(t)
  BY <1>12 DEF PatchCancelled
<1>13. CASE Cleanup(t)
  BY <1>13 DEF Cleanup, CleanupUpload
<1>14. CASE Sweep(t)
  BY <1>14 DEF Sweep, CleanupUpload
<1>15. CASE ClearLease(t)
  BY <1>15 DEF ClearLease
<1>16. CASE WriteCleared(t)
  BY <1>16 DEF WriteCleared
<1>17. CASE ClaimForProcessing(t)
  BY <1>17 DEF ClaimForProcessing
<1>18. CASE Loop(t)
  BY <1>18 DEF Loop
<1>19. CASE CompleteObject(t)
  BY <1>19 DEF CompleteObject
<1>20. CASE PatchObjectCompleted(t)
  BY <1>20 DEF PatchObjectCompleted, Patch
<1>21. CASE Verify(t)
  BY <1>21 DEF Verify
<1>22. CASE Promote(t)
  BY <1>22 DEF Promote
<1>23. CASE PatchVerified(t)
  BY <1>23 DEF PatchVerified, Patch
<1>24. CASE Unstage(t)
  BY <1>24 DEF Unstage
<1>25. CASE CheckFinal(t)
  BY <1>25 DEF CheckFinal
<1>26. CASE FinalizeReady(t)
  BY <1>26 DEF FinalizeReady
<1>27. CASE Derive(t)
  BY <1>27 DEF Derive
<1>28. CASE DerivationComplete(t)
  BY <1>28 DEF DerivationComplete
<1>29. CASE WriteDerived(t)
  BY <1>29 DEF WriteDerived
<1>30. CASE RejectUpload(t)
  BY <1>30 DEF RejectUpload, Final
<1>31. CASE HandleError(t)
  BY <1>31 DEF HandleError
<1>32. CASE RecordRetry(t)
  BY <1>32 DEF RecordRetry, Retried
<1>33. CASE Error(t)
  BY <1>33 DEF Error
<1>34. CASE Crash(t)
  BY <1>34 DEF Crash
<1>35. CASE RenewLease(t)
  BY <1>35 DEF RenewLease
<1> QED
  BY <1>4, <1>5, <1>6, <1>7, <1>8, <1>9, <1>10, <1>11, <1>12, <1>13, <1>14, <1>15, <1>16, <1>17, <1>18, <1>19, <1>20, <1>21, <1>22, <1>23, <1>24, <1>25, <1>26, <1>27, <1>28, <1>29, <1>30, <1>31, <1>32, <1>33, <1>34, <1>35
     DEF Request, Step

\* The environment leaves the status, the final object and the threads alone.
LEMMA OwedPreserved == IInv /\ Owed /\ [Next]_vars => Owed'
<1> SUFFICES ASSUME IInv, Owed, [Next]_vars PROVE Owed'
  OBVIOUS
<1>1. ASSUME NEW t \in Threads,
             Request(t) \/ Scan(t) \/ Step(t) \/ Error(t) \/ Crash(t) \/ RenewLease(t)
      PROVE  Owed'
  <2>1. OwedStep(t) /\ \A u \in Threads \ {t} : thread'[u] = thread[u]
    BY <1>1, OwedMoves, ThreadStep DEF Step1
  <2> QED
    BY <2>1 DEF Owed, OwedStep
<1>2. CASE Put \/ LeaseEnds \/ Overdue \/ BackoffEnds
  <2>1. row'.st = row.st /\ thread' = thread /\ final' = final
    BY <1>2, EnvironmentStep
  <2>2. uncleaned' = uncleaned
    BY <1>2 DEF Put, LeaseEnds, Overdue, BackoffEnds, Same, historyVars
  <2> QED
    BY <2>1, <2>2 DEF Owed, Leftover
<1>3. CASE UNCHANGED vars
  BY <1>3 DEF Owed, Leftover, vars, storeVars, historyVars
<1> QED
  BY <1>1, <1>2, <1>3 DEF Next

\* A final object of a removed upload has a thread that is bound to clean it up, until
\* a crash or a failing store cuts a cleanup short.
THEOREM CleanupIsOwed == Spec => []Owed
<1>1. Init => Owed
  BY DEF Init, Owed, Leftover
<1> QED
  BY <1>1, OwedPreserved, Invariance, PTL DEF Spec

\* When the threads are done, a cancelled, expired, rejected or failed upload has left no
\* final object behind, also where a promotion overtook the cleanup, for any number of
\* threads, workers and retries; only a cleanup that was cut short may leave one.
THEOREM RemovedClean == Spec => []RemovedIsClean
<1>1. Owed => RemovedIsClean
  BY DEF Owed, Leftover, RemovedIsClean, Idle, At, Bound
<1> QED
  BY <1>1, CleanupIsOwed, PTL

-----------------------------------------------------------------------------
(* Why an upload is rejected. *)

\* What the store and the row agree on.
Kept ==
  /\ whole /\ row.st = "completing" => staging # "none"
  /\ staging = "parts" => multipart /\ row.remote
  /\ row.st = "object_completed" => staging = "object"
  /\ row.st = "verified" => final

\* At most one thread works under the worker's name.
OneScan == \A t, u \in Threads : thread[t].scan /\ thread[u].scan => t = u

\* The status that a thread with the lease has found, and may still rely on.
Expected == [complete |-> "completing", verify |-> "object_completed", check |-> "verified"]

\* A thread past the completion has the object, one that unstages has promoted, one that
\* has promoted has the final object; and with the lease a thread stands where its status
\* is, so that it rejects only what it may.
ThreadSound(t) ==
  /\ thread[t].pc = "completed" /\ row.st = "completing" => staging = "object"
  /\ thread[t].pc \in {"unstage", "derive"} => row.st \in {"verified"} \cup Final
  /\ thread[t].pc = "promoted" => final \/ row.st \in Removed
  /\ Holds(t) /\ thread[t].pc \in DOMAIN Expected
       => row.st \in Removed \cup {Expected[thread[t].pc]}
  /\ Holds(t) /\ thread[t].pc = "reject" /\ valid /\ whole => row.st \in Removed

SoundInv == Kept /\ OneScan /\ (\A t \in Threads : ThreadSound(t)) /\ RejectedForCause

Settling == {"verified"} \cup Final

\* What an action of thread t leaves the others to rely on.
SoundStep(t) ==
  /\ row'.owner \in {row.owner, NoThread, Token(t)'}
  /\ \/ row'.st = row.st \/ row'.st \in Removed \/ row.st \in Young
     \/ Holds(t) /\ row'.owner = row.owner
  /\ \/ staging' = staging \/ staging' = "object" \/ row.st \in Settling
  /\ staging' = "parts" => staging = "parts"
  /\ row.remote => row'.remote
  /\ UNCHANGED <<multipart, valid>> /\ (whole' = whole \/ row.st \in Young)
  /\ row'.st = "completing" /\ row.st # "completing" => (whole' => staging' # "none")
  /\ row'.st = "object_completed" /\ row.st # "object_completed" => staging' = "object"
  /\ row'.st = "verified" /\ row.st # "verified" => final'
  /\ row'.st = "rejected" /\ row.st # "rejected" => ~valid \/ ~whole \/ misjudged'
  /\ misjudged => misjudged'
  /\ thread'[t].scan => thread[t].scan \/ \A u \in Threads : ~thread[u].scan
  /\ ThreadSound(t)' \/ (thread' = thread /\ row'.st = row.st /\ row'.owner = row.owner)

Resting == Pcs \ ({"completed", "unstage", "derive", "promoted", "reject"} \cup DOMAIN Expected)

\* Nothing is asked of a thread that is elsewhere.
LEMMA RestingSound ==
  ASSUME NEW t \in Threads, thread'[t].pc \in Resting
  PROVE  ThreadSound(t)'
BY DEF ThreadSound, Resting

LEMMA Tables ==
  \A s \in DOMAIN Table : /\ "object_completed" \in Table[s] => s = "completing"
                          /\ "verified" \in Table[s] => s = "object_completed"
BY DEF Table

\* A scan of the only worker starts when its last one is over.
LEMMA ScanAlone ==
  ASSUME NEW t \in Threads, TypeOK, OneScan, MaxWorkers <= 1, Scan(t)
  PROVE  /\ thread'[t].pc = "claim" /\ thread'[t].scan
         /\ \A u \in Threads : ~thread[u].scan
<1>1. thread' = [thread EXCEPT ![t] = [pc |-> "claim", scan |-> TRUE]]
  BY DEF Scan, Enter
<1>2. Cardinality({u \in Threads : thread[u].scan}) < MaxWorkers
  BY DEF Scan
<1>3. ASSUME NEW u \in Threads, thread[u].scan PROVE FALSE
  <2>1. {v \in Threads : thread[v].scan} = {u}
    BY <1>3 DEF OneScan
  <2>2. Cardinality({v \in Threads : thread[v].scan}) = 1
    BY <2>1, FS_Singleton
  <2> QED
    BY <1>2, <2>2, WorkersAssumption
<1> QED
  BY <1>1, <1>3 DEF TypeOK

LEMMA SoundMoves ==
  ASSUME NEW t \in Threads, IInv, SoundInv, MaxWorkers <= 1,
         Request(t) \/ Scan(t) \/ Step(t) \/ Error(t) \/ Crash(t) \/ RenewLease(t)
  PROVE  SoundStep(t)
<1>1. \A pc \in Pcs : Goto(t, pc) => /\ thread'[t].pc = pc
                                     /\ thread'[t].scan => thread[t].scan
                                     /\ pc # "idle" => thread'[t].scan = thread[t].scan
  BY GotoScans DEF IInv, Moved
<1>2. Scan(t) => /\ thread'[t].pc = "claim" /\ thread'[t].scan
                 /\ \A u \in Threads : ~thread[u].scan
  BY ScanAlone DEF IInv, SoundInv
<1>3. /\ row \in RowType /\ row.st \in DOMAIN Table
      /\ whole \in BOOLEAN /\ staging \in {"none", "parts", "object"} /\ ThreadOK(t)
  BY DEF IInv, TypeOK, RowType
<1>4. Kept /\ ThreadSound(t)
  BY DEF SoundInv
<1>5. DOMAIN Expected = {"complete", "verify", "check"}
  BY DEF Expected
<1>6. \A pc \in Pcs \ {"completed", "unstage", "derive", "promoted", "reject", "complete", "verify", "check"} :
         thread'[t].pc = pc => ThreadSound(t)'
  BY <1>5, RestingSound DEF Resting
<1> USE <1>1, <1>3, <1>6
    DEF SoundStep, Removed, Pcs, Working, At, RowType, Released, Same,
        inputVars, storeVars, resourceVars, historyVars
<1>7. CASE Expire(t)
  BY <1>7 DEF Expire, Expired
<1>8. CASE Prepare(t)
  BY <1>8 DEF Prepare
<1>9. CASE SignParts(t)
  BY <1>9 DEF SignParts
<1>10. CASE MarkCompleting(t)
  <2>1. CASE row.st \in Young
    <3>1. /\ row' = [row EXCEPT !.st = "completing", !.due = TRUE]
          /\ whole' = (staging # "none") /\ staging' = staging
      BY <1>10, <2>1 DEF MarkCompleting, Young
    <3>2. whole' => staging' # "none"
      BY <3>1
    <3> HIDE DEF storeVars
    <3>3. /\ UNCHANGED <<multipart, valid, misjudged>> /\ Goto(t, "claim")
      BY <1>10 DEF MarkCompleting
    <3> QED
      BY <2>1, <3>1, <3>2, <3>3
  <2>2. CASE row.st \notin Young
    BY <1>10, <2>2 DEF MarkCompleting, Young
  <2> QED
    BY <2>1, <2>2
<1>11. CASE Cancel(t)
  BY <1>11 DEF Cancel
<1>12. CASE Scan(t)
  BY <1>2, <1>12 DEF Scan, Token
<1>13. CASE EnsureMultipart(t)
  BY <1>13 DEF EnsureMultipart
<1>14. CASE PatchUploading(t)
  BY <1>14, States DEF PatchUploading, Young
<1>15. CASE PatchCancelled(t)
  BY <1>15 DEF PatchCancelled
<1>16. CASE Cleanup(t)
  BY <1>16 DEF Cleanup, CleanupUpload, ThreadOK, Settling, Final
<1>17. CASE Sweep(t)
  BY <1>17 DEF Sweep, CleanupUpload, ThreadOK, Settling, Final
<1>18. CASE ClearLease(t)
  BY <1>18 DEF ClearLease
<1>19. CASE WriteCleared(t)
  BY <1>19 DEF WriteCleared
<1>20. CASE ClaimForProcessing(t)
  <2>1. CASE row' = Expired /\ Goto(t, "cleanup")
    BY <1>20, <2>1 DEF ClaimForProcessing, Expired
  <2>2. CASE row' = [row EXCEPT !.owner = Token(t), !.leased = TRUE] /\ Goto(t, "loop")
    <3>1. Token(t)' = Token(t) /\ (thread'[t].scan => thread[t].scan)
      BY <2>2 DEF Token
    <3>2. row'.owner = Token(t)' /\ row'.st = row.st /\ row'.remote = row.remote
      BY <2>2, <3>1
    <3>3. ThreadSound(t)'
      BY <2>2
    <3> QED
      BY <1>20, <3>1, <3>2, <3>3 DEF ClaimForProcessing
  <2>3. CASE row' = row /\ Goto(t, IF row.st \in Removed THEN "cleanup" ELSE "idle")
    BY <1>20, <2>3 DEF ClaimForProcessing
  <2> QED
    BY <1>20, <2>1, <2>2, <2>3 DEF ClaimForProcessing
<1>21. CASE Loop(t)
  BY <1>21 DEF Loop, ThreadSound, Expected, Settling, Final
<1>22. CASE CompleteObject(t)
  <2>1. CASE staging' = "object" /\ Goto(t, "completed")
    BY <1>22, <2>1, <1>5 DEF CompleteObject, ThreadSound
  <2>2. CASE /\ ~(staging = "object" \/ (multipart /\ row.remote /\ staging = "parts"))
             /\ staging' = staging /\ Goto(t, "reject")
    <3>1. Holds(t) /\ whole => row.st \in Removed
      BY <1>4, <1>22, <2>2 DEF CompleteObject, Kept, ThreadSound, Expected
    <3>2. UNCHANGED <<row, valid, whole>> /\ thread'[t].pc = "reject" /\ thread'[t].scan = thread[t].scan
      BY <1>22, <2>2 DEF CompleteObject
    <3>3. ThreadSound(t)'
      BY <1>5, <3>1, <3>2 DEF ThreadSound, Holds, Token
    <3> QED
      BY <1>22, <2>2, <3>3 DEF CompleteObject
  <2> QED
    BY <1>22, <2>1, <2>2 DEF CompleteObject
<1>p. ASSUME NEW st \in {"object_completed", "verified"}, NEW next \in {"loop", "unstage"},
             Patch(t, st, next),
             st \in Table[row.st] => /\ (st = "object_completed" => staging = "object")
                                    /\ (st = "verified" => final),
             next = "unstage" => st = "verified"
      PROVE  SoundStep(t)
  <2>1. CASE row' = row /\ Goto(t, "fail")
    BY <1>p, <2>1 DEF Patch
  <2>2. CASE /\ Holds(t) /\ (st \in Table[row.st] \/ st = row.st)
             /\ row' = [row EXCEPT !.st = st, !.retries = 0, !.due = TRUE]
             /\ Goto(t, next)
    <3>1. /\ row'.st = st /\ row'.owner = row.owner /\ row'.remote = row.remote
          /\ UNCHANGED <<staging, final, multipart, valid, whole>>
      BY <1>p, <2>2 DEF Patch
    <3>2. thread'[t].pc = next /\ (thread'[t].scan => thread[t].scan)
      BY <2>2
    <3>3. ThreadSound(t)'
      BY <1>5, <1>p, <3>1, <3>2 DEF ThreadSound
    <3>4. misjudged' = misjudged
      BY <1>p DEF Patch
    <3> QED
      BY <1>p, <2>2, <3>1, <3>2, <3>3, <3>4
  <2> QED
    BY <1>p, <2>1, <2>2 DEF Patch
<1>23. CASE PatchObjectCompleted(t)
  <2>1. "object_completed" \in Table[row.st] => row.st = "completing"
    BY Tables
  <2> QED
    BY <1>4, <1>23, <1>p, <2>1 DEF PatchObjectCompleted, ThreadSound
<1>24. CASE Verify(t)
  <2>1. CASE \E pc \in {"promote", "giveup", "fail"} : Goto(t, pc)
    BY <1>24, <2>1 DEF Verify
  <2>2. CASE ~(staging = "object" /\ valid) /\ Goto(t, "reject")
    <3>1. Holds(t) /\ valid => row.st \in Removed
      BY <1>4, <1>24, <2>2 DEF Verify, Kept, ThreadSound, Expected
    <3>2. UNCHANGED <<row, valid, whole>> /\ thread'[t].pc = "reject" /\ thread'[t].scan = thread[t].scan
      BY <1>24, <2>2 DEF Verify
    <3>3. ThreadSound(t)'
      BY <1>5, <3>1, <3>2 DEF ThreadSound, Holds, Token
    <3> QED
      BY <1>24, <2>2, <3>3 DEF Verify
  <2> QED
    BY <1>24, <2>1, <2>2 DEF Verify
<1>25. CASE Promote(t)
  BY <1>25 DEF Promote, ThreadSound, Expected
<1>26. CASE PatchVerified(t)
  <2>1. "verified" \in Table[row.st] => row.st \notin Removed
    BY Tables
  <2> QED
    BY <1>4, <1>26, <1>p, <2>1 DEF PatchVerified, ThreadSound
<1>27. CASE Unstage(t)
  BY <1>4, <1>27 DEF Unstage, ThreadSound, Settling
<1>28. CASE CheckFinal(t)
  <2>1. CASE Goto(t, "finalize") \/ Goto(t, "fail")
    BY <1>28, <2>1 DEF CheckFinal
  <2>2. CASE ~final /\ Goto(t, "reject")
    <3>1. Holds(t) => row.st \in Removed
      BY <1>4, <1>28, <2>2 DEF CheckFinal, Kept, ThreadSound, Expected
    <3>2. UNCHANGED <<row, valid, whole>> /\ thread'[t].pc = "reject" /\ thread'[t].scan = thread[t].scan
      BY <1>28, <2>2 DEF CheckFinal
    <3>3. ThreadSound(t)'
      BY <1>5, <3>1, <3>2 DEF ThreadSound, Holds, Token
    <3> QED
      BY <1>28, <2>2, <3>3 DEF CheckFinal
  <2> QED
    BY <1>28, <2>1, <2>2 DEF CheckFinal
<1>29. CASE FinalizeReady(t)
  <2>1. CASE row' = row /\ Goto(t, "fail")
    BY <1>29, <2>1 DEF FinalizeReady
  <2>2. CASE /\ Holds(t) /\ Goto(t, "derive")
             /\ row' = [row EXCEPT !.st = "ready", !.due = @ \/ row.st = "verified"]
    <3>1. row'.st = "ready" /\ row'.owner = row.owner /\ row'.remote = row.remote
      BY <2>2
    <3>2. thread'[t].pc = "derive" /\ (thread'[t].scan => thread[t].scan)
      BY <2>2
    <3>3. ThreadSound(t)'
      BY <1>5, <3>1, <3>2 DEF ThreadSound, Final
    <3> QED
      BY <1>29, <2>2, <3>1, <3>2, <3>3 DEF FinalizeReady
  <2> QED
    BY <1>29, <2>1, <2>2 DEF FinalizeReady
<1>30. CASE Derive(t)
  BY <1>4, <1>30 DEF Derive, ThreadSound, Settling
<1>31. CASE DerivationComplete(t)
  BY <1>31 DEF DerivationComplete
<1>32. CASE WriteDerived(t)
  BY <1>32 DEF WriteDerived
<1>33. CASE RejectUpload(t)
  <2>1. Holds(t) /\ row.st \notin Final => ~valid \/ ~whole \/ misjudged'
    BY <1>4, <1>33 DEF RejectUpload, ThreadSound, Final
  <2>2. /\ ThreadSound(t)' /\ UNCHANGED <<staging, final, multipart, valid, whole>>
        /\ thread'[t].scan => thread[t].scan
        /\ misjudged => misjudged'
    <3>1. PICK pc \in {"cleanup", "idle"} : Goto(t, pc)
      BY <1>33 DEF RejectUpload
    <3>2. ThreadSound(t)' /\ (thread'[t].scan => thread[t].scan)
      BY <3>1
    <3>3. misjudged => misjudged'
      BY <1>33 DEF RejectUpload
    <3> QED
      BY <1>33, <3>2, <3>3 DEF RejectUpload
  <2>3. CASE row' = row
    BY <2>2, <2>3
  <2>4. CASE Holds(t) /\ row' = [Released(row) EXCEPT !.st = IF @ \in Final THEN @ ELSE "rejected"]
    <3>1. /\ row'.st = (IF row.st \in Final THEN row.st ELSE "rejected")
          /\ row'.owner = NoThread /\ row'.remote = row.remote
      BY <2>4
    <3> QED
      BY <2>1, <2>2, <2>4, <3>1 DEF Final
  <2> QED
    BY <1>33, <2>3, <2>4 DEF RejectUpload
<1>34. CASE HandleError(t)
  BY <1>34 DEF HandleError
<1>35. CASE RecordRetry(t)
  BY <1>35 DEF RecordRetry, Retried
<1>36. CASE Error(t)
  BY <1>36 DEF Error
<1>37. CASE Crash(t)
  BY <1>37 DEF Crash
<1>38. CASE RenewLease(t)
  BY <1>38 DEF RenewLease
<1> QED
  BY <1>7, <1>8, <1>9, <1>10, <1>11, <1>12, <1>13, <1>14, <1>15, <1>16, <1>17, <1>18, <1>19, <1>20, <1>21, <1>22, <1>23, <1>24, <1>25, <1>26, <1>27, <1>28, <1>29, <1>30, <1>31, <1>32, <1>33, <1>34, <1>35, <1>36, <1>37, <1>38
     DEF Request, Step

\* Two threads never have one token, as long as one thread works as the worker.
LEMMA TokensDiffer ==
  ASSUME NEW t \in Threads, NEW u \in Threads, t # u, OneScan
  PROVE  Token(t) # Token(u)
BY WorkerNameAssumption DEF Token, OneScan

LEMMA TokensDifferNext ==
  ASSUME NEW t \in Threads, NEW u \in Threads, t # u, OneScan'
  PROVE  Token(t)' # Token(u)'
BY WorkerNameAssumption DEF Token, OneScan

\* A thread that stands still keeps what it relies on: who changes the status without
\* removing the upload has the lease, and then nobody else has it, now or afterwards.
LEMMA OthersSound ==
  ASSUME IInv, SoundInv, NEW t \in Threads, NEW u \in Threads, t # u,
         SoundStep(t), OneScan', StatusMoves, FinalStays, thread'[u] = thread[u]
  PROVE  ThreadSound(u)'
<1>1. row.st \in DOMAIN Table /\ ThreadOK(u) /\ ThreadSound(u) /\ OneScan
  BY DEF IInv, TypeOK, SoundInv
<1>2. Token(u)' = Token(u) /\ Token(u) # Token(t) /\ Token(u)' # Token(t)' /\ Token(u) # NoThread
  BY <1>1, TokensDiffer, TokensDifferNext, NoThreadAssumption, WorkerNameAssumption DEF Token
<1>3. Holds(u)' => Holds(u) /\ ~(Holds(t) /\ row'.owner = row.owner)
  BY <1>2 DEF SoundStep, Holds
<1>4. row.st \in Removed => row'.st = row.st
  BY <1>1, States DEF StatusMoves
<1>5. thread[u].pc \notin Before => row.st \notin Young
  BY <1>1 DEF ThreadOK
<1>6. Holds(u)' /\ thread[u].pc \notin Before => row'.st = row.st \/ row'.st \in Removed
  BY <1>3, <1>5 DEF SoundStep
<1>7. thread[u].pc \in {"completed", "unstage", "derive", "promoted", "reject"} \cup DOMAIN Expected
        => thread[u].pc \notin Before
  BY DEF Before, Expected
<1>8. thread[u].pc = "completed" /\ row'.st = "completing" => staging' = "object"
  <2> SUFFICES ASSUME thread[u].pc = "completed", row'.st = "completing" PROVE staging' = "object"
    OBVIOUS
  <2>1. row.st = "completing"
    <3>1. \A s \in DOMAIN Table : "completing" \in Table[s] => s \in Young
      BY DEF Table, Young
    <3> QED
      BY <1>1, <1>5, <1>7, <3>1 DEF StatusMoves
  <2> QED
    BY <1>1, <2>1 DEF ThreadSound, SoundStep, Settling, Final, Removed
<1>9. thread[u].pc \in {"unstage", "derive"} => row'.st \in {"verified"} \cup Final
  <2>1. \A s \in {"verified"} \cup Final : s \in DOMAIN Table /\ Table[s] \subseteq Final
    BY DEF Table, Final, Removed
  <2> QED
    BY <1>1, <2>1 DEF ThreadSound, StatusMoves
<1>10. thread[u].pc = "promoted" => final' \/ row'.st \in Removed
  BY <1>1, <1>4 DEF ThreadSound, FinalStays
<1>11. Holds(u)' /\ thread[u].pc \in DOMAIN Expected
         => row'.st \in Removed \cup {Expected[thread[u].pc]}
  BY <1>1, <1>3, <1>4, <1>6, <1>7 DEF ThreadSound
<1>12. Holds(u)' /\ thread[u].pc = "reject" /\ valid' /\ whole' => row'.st \in Removed
  <2> SUFFICES ASSUME Holds(u)', thread[u].pc = "reject", valid', whole'
               PROVE  row'.st \in Removed
    OBVIOUS
  <2>1. valid /\ whole
    BY <1>5, <1>7 DEF SoundStep
  <2> QED
    BY <1>1, <1>3, <1>4, <1>6, <1>7, <2>1 DEF ThreadSound
<1> QED
  BY <1>8, <1>9, <1>10, <1>11, <1>12 DEF ThreadSound

LEMMA KeptStep ==
  ASSUME IInv, SoundInv, NEW t \in Threads, SoundStep(t), StatusMoves, FinalStays,
         \A u \in Threads \ {t} : thread'[u] = thread[u]
  PROVE  Kept' /\ OneScan' /\ RejectedForCause'
<1>1. Kept /\ OneScan /\ RejectedForCause /\ row.st \in DOMAIN Table
  BY DEF SoundInv, IInv, TypeOK
<1>2. OneScan'
  BY <1>1 DEF OneScan, SoundStep
<1>3. RejectedForCause'
  <2> SUFFICES ASSUME row'.st = "rejected" PROVE ~valid' \/ ~whole' \/ misjudged'
    BY DEF RejectedForCause
  <2>1. row.st \notin Young
    <3>1. \A s \in Young : s # "rejected" /\ "rejected" \notin Table[s]
      BY DEF Table, Young
    <3> QED
      BY <3>1 DEF StatusMoves
  <2> QED
    BY <1>1, <2>1 DEF SoundStep, RejectedForCause
<1>4. whole' /\ row'.st = "completing" => staging' # "none"
  BY <1>1 DEF SoundStep, Kept, Settling, Final, Removed, Young
<1>5. staging' = "parts" => multipart' /\ row'.remote
  BY <1>1 DEF SoundStep, Kept
<1>6. row'.st = "object_completed" => staging' = "object"
  BY <1>1 DEF SoundStep, Kept, Settling, Final, Removed
<1>7. row'.st = "verified" => final'
  BY <1>1 DEF SoundStep, Kept, FinalStays, Removed
<1> QED
  BY <1>2, <1>3, <1>4, <1>5, <1>6, <1>7 DEF Kept

LEMMA SoundPreserved == MaxWorkers <= 1 /\ IInv /\ SoundInv /\ [Next]_vars => SoundInv'
<1> SUFFICES ASSUME MaxWorkers <= 1, IInv, SoundInv, [Next]_vars PROVE SoundInv'
  OBVIOUS
<1>0. Kept /\ OneScan /\ (\A t \in Threads : ThreadSound(t)) /\ RejectedForCause
      /\ row \in RowType
  BY Types DEF SoundInv, IInv
<1>1. ASSUME NEW t \in Threads,
             Request(t) \/ Scan(t) \/ Step(t) \/ Error(t) \/ Crash(t) \/ RenewLease(t)
      PROVE  SoundInv'
  <2>1. /\ StatusMoves /\ FinalStays /\ SoundStep(t)
        /\ \A u \in Threads \ {t} : thread'[u] = thread[u]
    BY <1>1, SoundMoves, ThreadStep DEF Step1
  <2>2. Kept' /\ OneScan' /\ RejectedForCause'
    BY <2>1, KeptStep
  <2>3. \A u \in Threads \ {t} : ThreadSound(u)'
    BY <2>1, <2>2, OthersSound
  <2>4. ThreadSound(t)'
    <3>1. CASE thread' = thread /\ row'.st = row.st /\ row'.owner = row.owner
      <4>1. /\ row.st # "completing" \/ staging' = staging \/ staging' = "object"
            /\ (whole' = whole \/ row.st \in Young) /\ valid' = valid
        BY <2>1 DEF SoundStep, Settling, Final, Removed
      <4>2. ThreadSound(t) /\ ThreadOK(t)
        BY <1>0 DEF IInv
      <4> QED
        BY <2>1, <3>1, <4>1, <4>2
           DEF ThreadSound, ThreadOK, Holds, Token, FinalStays, Before, Young, Removed
    <3> QED
      BY <2>1, <3>1 DEF SoundStep
  <2> QED
    BY <2>2, <2>3, <2>4 DEF SoundInv
<1>2. CASE Put \/ LeaseEnds \/ Overdue \/ BackoffEnds
  <2>1. /\ row'.st = row.st /\ thread' = thread /\ final' = final
    BY <1>2, EnvironmentStep
  <2>2. /\ row'.owner = row.owner /\ row'.remote = row.remote
        /\ UNCHANGED <<multipart, valid, whole, misjudged>>
        /\ staging' = staging \/ (staging = "none" /\ staging' \in {"parts", "object"})
        /\ staging' = "parts" => staging = "parts" \/ (multipart /\ row.remote)
    BY <1>0, <1>2 DEF Put, LeaseEnds, Overdue, BackoffEnds, Same, inputVars, storeVars, historyVars, RowType
  <2>3. Kept' /\ OneScan' /\ RejectedForCause'
    BY <1>0, <2>1, <2>2 DEF Kept, OneScan, RejectedForCause
  <2>4. \A t \in Threads : ThreadSound(t)'
    BY <1>0, <2>1, <2>2 DEF ThreadSound, Holds, Token
  <2> QED
    BY <2>3, <2>4 DEF SoundInv
<1>3. CASE UNCHANGED vars
  BY <1>0, <1>3 DEF SoundInv, Kept, OneScan, RejectedForCause, ThreadSound, Holds, Token,
                    vars, inputVars, storeVars, historyVars
<1> QED
  BY <1>1, <1>2, <1>3 DEF Next

LEMMA SoundInit == Init => SoundInv
<1> SUFFICES ASSUME Init PROVE SoundInv
  OBVIOUS
<1>1. \A t \in Threads : ~thread[t].scan /\ thread[t].pc = "idle"
  BY DEF Init
<1>2. Kept /\ RejectedForCause
  BY DEF Init, Kept, RejectedForCause
<1>3. "idle" \notin DOMAIN Expected
  BY DEF Expected
<1> QED
  BY <1>1, <1>2, <1>3 DEF SoundInv, OneScan, ThreadSound

\* With one worker process: a thread that has the lease stands where its status is, and
\* store, row and threads agree.
THEOREM LeaseCarriesStatus == ASSUME MaxWorkers <= 1 PROVE Spec => []SoundInv
<1>1. IInv /\ SoundInv /\ [Next]_vars => SoundInv'
  BY SoundPreserved
<1> QED
  BY <1>1, SoundInit, Invariance, PTL DEF Spec

\* With one worker process, whose scans all carry one lease name, no upload that was sent
\* completely and passes its verification is rejected, whatever threads delete, promote,
\* cancel, crash or lose their leases around the one that looks: unless that one has the
\* lease and its own ffprobe or ffmpeg was killed or ran out of time, which the code
\* takes for bytes that are wrong.
THEOREM RejectionHasCause == ASSUME MaxWorkers <= 1 PROVE Spec => []RejectedForCause
<1>1. SoundInv => RejectedForCause
  BY DEF SoundInv
<1> QED
  BY <1>1, LeaseCarriesStatus, PTL
=============================================================================
