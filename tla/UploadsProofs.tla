--------------------------- MODULE UploadsProofs ----------------------------
(***************************************************************************)
(* The status of an upload follows its table, and a ready upload is        *)
(* registered and served, for any number of threads, workers, retries and  *)
(* faults.  The lease is not needed for either: the row lock, the checked  *)
(* transition and the order of the steps carry them.                       *)
(***************************************************************************)
EXTENDS Uploads, TLAPS

Young == {"prepared", "uploading"}
Before == {"idle", "ensure", "sign", "cancel"}

\* A thread that is past the request has a row past the transfer; one that cleans up
\* has a row that is removed for good; one that is about to register has seen the final
\* object, which only the cleanup of a removed upload takes away.
ThreadOK(t) ==
  /\ thread[t].pc \notin Before => row.st \notin Young
  /\ thread[t].pc \in {"cleanup", "sweep"} => row.st \in Removed
  /\ thread[t].pc = "finalize" => final \/ row.st \in Removed

IInv == TypeOK /\ (\A t \in Threads : ThreadOK(t)) /\ ReadyIsServed

\* One step of the status.
StatusMoves == row'.st = row.st \/ row'.st \in Table[row.st]
FinalStays == final => final' \/ row.st \in Removed
Registered == (row'.st = "ready" <=> artifact') /\ (artifact' => final')

LEMMA States ==
  /\ DOMAIN Table = Young \cup Reconcilable \cup Final
  /\ \A s \in Removed \cup {"ready"} : Table[s] = {}
  /\ \A s \in Reconcilable : {"rejected", "failed", "cancelled", "expired"} \subseteq Table[s]
  /\ \A s \in Young : {"failed", "cancelled", "expired", "completing"} \subseteq Table[s]
  /\ \A s \in DOMAIN Table : Table[s] \subseteq DOMAIN Table /\ "prepared" \notin Table[s]
  /\ \A s \in DOMAIN Table : "uploading" \in Table[s] => s = "prepared"
  /\ \A s \in DOMAIN Table : "ready" \in Table[s] <=> s = "verified"
<1> USE DEF Young, Reconcilable, Final, Removed
<1>1. DOMAIN Table = Young \cup Reconcilable \cup Final
  BY DEF Table
<1>2. /\ Table["ready"] = {} /\ Table["rejected"] = {} /\ Table["failed"] = {}
      /\ Table["cancelled"] = {} /\ Table["expired"] = {}
  BY DEF Table
<1>3. /\ Table["prepared"] = {"uploading", "completing", "failed", "cancelled", "expired"}
      /\ Table["uploading"] = {"completing", "failed", "cancelled", "expired"}
  BY DEF Table
<1>4. /\ Table["completing"] = {"object_completed", "rejected", "failed", "cancelled", "expired"}
      /\ Table["object_completed"] = {"verified", "rejected", "failed", "cancelled", "expired"}
      /\ Table["verified"] = {"ready", "rejected", "failed", "cancelled", "expired"}
  BY DEF Table
<1>5. \A s \in Young : {"failed", "cancelled", "expired", "completing"} \subseteq Table[s]
  BY <1>3
<1>6. \A s \in DOMAIN Table : Table[s] \subseteq DOMAIN Table /\ "prepared" \notin Table[s]
  BY <1>1, <1>2, <1>3, <1>4
<1>7. \A s \in DOMAIN Table : "uploading" \in Table[s] => s = "prepared"
  BY <1>1, <1>2, <1>3, <1>4
<1>8. \A s \in DOMAIN Table : "ready" \in Table[s] <=> s = "verified"
  BY <1>1, <1>2, <1>3, <1>4
<1>9. \A s \in Reconcilable : {"rejected", "failed", "cancelled", "expired"} \subseteq Table[s]
  BY <1>4
<1>10. \A s \in Removed \cup {"ready"} : Table[s] = {}
  BY <1>2
<1> QED
  BY <1>1, <1>10, <1>9, <1>5, <1>6, <1>7, <1>8


-----------------------------------------------------------------------------
(* Where a thread goes. *)

ThreadType == [Threads -> [pc : Pcs, scan : BOOLEAN]]
RowType == [st : DOMAIN Table, remote : BOOLEAN,
            owner : Threads \cup {NoThread, "temporal-worker"},
            leased : BOOLEAN, overdue : BOOLEAN, retries : 0..MaxRetries, due : BOOLEAN]

Moved(t, pc) ==
  /\ thread' \in ThreadType /\ thread'[t].pc = pc
  /\ \A u \in Threads \ {t} : thread'[u] = thread[u]

LEMMA EnterMoves ==
  ASSUME TypeOK, NEW t \in Threads, NEW pc \in Pcs, NEW scan \in BOOLEAN, Enter(t, pc, scan)
  PROVE  Moved(t, pc)
<1>1. PICK b \in BOOLEAN : b = (scan /\ pc # "idle")
  OBVIOUS
<1>2. thread' = [thread EXCEPT ![t] = [pc |-> pc, scan |-> b]]
  BY <1>1 DEF Enter
<1> QED
  BY <1>2 DEF Moved, ThreadType, TypeOK

LEMMA GotoMoves ==
  ASSUME TypeOK, NEW t \in Threads, NEW pc \in Pcs, Goto(t, pc)
  PROVE  Moved(t, pc)
<1>1. thread[t].scan \in BOOLEAN
  BY DEF TypeOK
<1> QED
  BY <1>1, EnterMoves DEF Goto

-----------------------------------------------------------------------------
(* What the row becomes. *)

\* Every write keeps the columns within their types.
LEMMA LeaseWrites ==
  ASSUME row \in RowType, NEW o \in Threads \cup {"temporal-worker"}
  PROVE  /\ [row EXCEPT !.owner = o, !.leased = TRUE] \in RowType
         /\ [row EXCEPT !.owner = o, !.leased = TRUE].st = row.st
         /\ [row EXCEPT !.remote = TRUE] \in RowType
         /\ [row EXCEPT !.remote = TRUE].st = row.st
         /\ Released(row) \in RowType
         /\ Released(row).st = row.st
BY DEF RowType, Released

LEMMA StatusWrites ==
  ASSUME row \in RowType, NEW st \in DOMAIN Table, NEW n \in 0..MaxRetries, NEW due \in BOOLEAN
  PROVE  /\ [row EXCEPT !.st = st, !.retries = n, !.due = due] \in RowType
         /\ [row EXCEPT !.st = st, !.retries = n, !.due = due].st = st
         /\ [row EXCEPT !.st = st, !.due = due] \in RowType
         /\ [row EXCEPT !.st = st, !.due = due].st = st
         /\ [row EXCEPT !.st = st] \in RowType
         /\ [row EXCEPT !.st = st].st = st
BY DEF RowType

LEMMA ReleasingWrites ==
  ASSUME row \in RowType, NEW st \in DOMAIN Table, NEW n \in 0..MaxRetries, NEW due \in BOOLEAN
  PROVE  /\ [Released(row) EXCEPT !.st = st, !.retries = n, !.due = due] \in RowType
         /\ [Released(row) EXCEPT !.st = st, !.retries = n, !.due = due].st = st
         /\ [Released(row) EXCEPT !.retries = n, !.due = due] \in RowType
         /\ [Released(row) EXCEPT !.retries = n, !.due = due].st = row.st
         /\ [Released(row) EXCEPT !.due = due] \in RowType
         /\ [Released(row) EXCEPT !.due = due].st = row.st
         /\ [Released(row) EXCEPT !.st = st, !.due = due] \in RowType
         /\ [Released(row) EXCEPT !.st = st, !.due = due].st = st
         /\ [Released(row) EXCEPT !.st = st] \in RowType
         /\ [Released(row) EXCEPT !.st = st].st = st
BY DEF RowType, Released

-----------------------------------------------------------------------------
(* The actions of a thread. *)

\* What every action of a thread does to the upload, and to the thread itself.
Step1(t) ==
  /\ row' \in RowType /\ StatusMoves /\ FinalStays /\ Registered
  /\ thread' \in ThreadType /\ ThreadOK(t)'
  /\ \A u \in Threads \ {t} : thread'[u] = thread[u]

\* What is left to show of an action that moves a thread to pc.
LEMMA Concludes ==
  ASSUME NEW t \in Threads, NEW pc \in Pcs, Moved(t, pc),
         row' \in RowType, StatusMoves, FinalStays, Registered,
         pc \notin Before => row'.st \notin Young,
         pc \in {"cleanup", "sweep"} => row'.st \in Removed,
         pc = "finalize" => final' \/ row'.st \in Removed
  PROVE  Step1(t)
BY DEF Step1, Moved, ThreadOK

\* An action that leaves status and objects alone keeps what was registered.
LEMMA Keeps ==
  ASSUME ReadyIsServed, row'.st = row.st, final' = final, artifact' = artifact
  PROVE  StatusMoves /\ FinalStays /\ Registered
BY DEF ReadyIsServed, StatusMoves, FinalStays, Registered

\* So does one that changes a status, but not from or to ready.
LEMMA Changes ==
  ASSUME ReadyIsServed, row'.st \in Table[row.st], row.st # "ready", row'.st # "ready",
         final' = final, artifact' = artifact
  PROVE  StatusMoves /\ FinalStays /\ Registered
BY DEF ReadyIsServed, StatusMoves, FinalStays, Registered

LEMMA ThreadStep ==
  ASSUME NEW t \in Threads, IInv,
         Request(t) \/ Scan(t) \/ Step(t) \/ Error(t) \/ Crash(t) \/ RenewLease(t)
  PROVE  Step1(t)
<1>1. \A pc \in Pcs : Goto(t, pc) => Moved(t, pc)
  BY GotoMoves DEF IInv
<1>2. \A pc \in Pcs : Enter(t, pc, TRUE) => Moved(t, pc)
  BY EnterMoves DEF IInv
<1>3. /\ row \in RowType /\ thread \in ThreadType /\ ThreadOK(t) /\ ReadyIsServed
      /\ final \in BOOLEAN /\ artifact \in BOOLEAN
      /\ row.st \in DOMAIN Table /\ row.retries \in 0..MaxRetries /\ row.due \in BOOLEAN
  BY DEF IInv, TypeOK, RowType, ThreadType
<1>r. 0 \in 0..MaxRetries /\ MaxRetries \in 0..MaxRetries
  BY RetriesAssumption
<1>9. CASE Scan(t)
  <2>1. row' = [row EXCEPT !.owner = "temporal-worker", !.leased = TRUE]
        /\ row.st \in Reconcilable \cup {"ready"} /\ Moved(t, "claim")
        /\ final' = final /\ artifact' = artifact
    BY <1>2, <1>9 DEF Scan, storeVars, resourceVars, Pcs
  <2>2. row' \in RowType /\ row'.st = row.st
    BY <1>3, <2>1, LeaseWrites
  <2> QED
    BY <1>3, <2>1, <2>2, Keeps, Concludes DEF Before, Young, Reconcilable, Pcs
<1>10. CASE EnsureMultipart(t)
  <2>1. row' = [row EXCEPT !.remote = TRUE] /\ Moved(t, "idle")
        /\ final' = final /\ artifact' = artifact
    BY <1>1, <1>10 DEF EnsureMultipart, storeVars, resourceVars, Pcs
  <2>2. row' \in RowType /\ row'.st = row.st
    BY <1>3, <2>1, LeaseWrites
  <2> QED
    BY <1>3, <2>1, <2>2, Keeps, Concludes DEF Before, Pcs
<1>16. CASE WriteCleared(t)
  <2>1. row' = Released(row) /\ Moved(t, "idle") /\ final' = final /\ artifact' = artifact
    BY <1>1, <1>16 DEF WriteCleared, storeVars, resourceVars, Pcs
  <2>2. row' \in RowType /\ row'.st = row.st
    BY <1>3, <2>1, LeaseWrites
  <2> QED
    BY <1>3, <2>1, <2>2, Keeps, Concludes DEF Before, Pcs
<1>29. CASE WriteDerived(t)
  <2>1. row' = [Released(row) EXCEPT !.retries = 0, !.due = TRUE] /\ Moved(t, "idle")
        /\ final' = final /\ artifact' = artifact
    BY <1>1, <1>29 DEF WriteDerived, storeVars, resourceVars, Pcs
  <2>2. row' \in RowType /\ row'.st = row.st
    BY <1>3, <2>1, ReleasingWrites, <1>r
  <2> QED
    BY <1>3, <2>1, <2>2, Keeps, Concludes DEF Before, Pcs
<1>7. CASE MarkCompleting(t)
  <2>1. Moved(t, "claim") /\ final' = final /\ artifact' = artifact
    BY <1>1, <1>7 DEF MarkCompleting, storeVars, resourceVars, Pcs
  <2>2. CASE row.st \in Young
    <3>1. row' = [row EXCEPT !.st = "completing", !.due = TRUE]
      BY <1>7, <2>2 DEF MarkCompleting, Young
    <3>2. "completing" \in DOMAIN Table
      BY States DEF Reconcilable
    <3>3. row' \in RowType /\ row'.st = "completing"
      BY <1>3, <3>1, <3>2, StatusWrites, <1>r
    <3> QED
      BY <1>3, <2>1, <2>2, <3>3, States, Changes, Concludes DEF Young, Pcs
  <2>3. CASE row.st \notin Young
    <3>1. row' = row
      BY <1>7, <2>3 DEF MarkCompleting, Young
    <3> QED
      BY <1>3, <2>1, <2>3, <3>1, Keeps, Concludes DEF Pcs
  <2> QED
    BY <2>2, <2>3
<1>17. CASE ClaimForProcessing(t)
  <2>1. final' = final /\ artifact' = artifact /\ row.st \notin Young
    BY <1>3, <1>17 DEF ClaimForProcessing, storeVars, resourceVars, ThreadOK, At, Before
  <2>2. CASE Stale /\ row' = Expired /\ Goto(t, "cleanup")
    <3>1. row.st \in Reconcilable /\ "expired" \in DOMAIN Table
      BY <2>1, <2>2, States DEF Stale, Expirable, Young, Final, Removed
    <3>2. row' \in RowType /\ row'.st = "expired"
      BY <1>3, <2>2, <3>1, ReleasingWrites DEF Expired
    <3>3. Moved(t, "cleanup")
      BY <1>1, <2>2 DEF Pcs
    <3>4. StatusMoves /\ FinalStays /\ Registered
      BY <1>3, <2>1, <3>1, <3>2, States, Changes DEF Reconcilable
    <3> QED
      BY <3>2, <3>3, <3>4, Concludes DEF Young, Removed, Pcs
  <2>3. CASE /\ row.st \in Processable /\ Goto(t, "loop")
             /\ row' = [row EXCEPT !.owner = Token(t), !.leased = TRUE]
    <3>1. Moved(t, "loop")
      BY <1>1, <2>3 DEF Pcs, Working
    <3>2. row' \in RowType /\ row'.st = row.st
      BY <1>3, <2>3, LeaseWrites DEF Token
    <3> QED
      BY <1>3, <2>1, <3>1, <3>2, Keeps, Concludes DEF Pcs, Working
  <2>4. CASE row' = row /\ Goto(t, IF row.st \in Removed THEN "cleanup" ELSE "idle")
    <3>1. PICK pc \in {"cleanup", "idle"} :
             Goto(t, pc) /\ (pc = "cleanup" => row.st \in Removed)
      BY <2>4
    <3>2. Moved(t, pc)
      BY <1>1, <3>1 DEF Pcs
    <3> QED
      BY <1>3, <2>1, <2>4, <3>1, <3>2, Keeps, Concludes DEF Pcs
  <2> QED
    BY <1>17, <2>2, <2>3, <2>4 DEF ClaimForProcessing, CanClaim
<1>p. ASSUME NEW st \in {"object_completed", "verified"}, NEW next \in {"loop", "unstage"},
             Patch(t, st, next), row.st \notin Young
      PROVE  Step1(t)
  <2>1. final' = final /\ artifact' = artifact
    BY <1>p DEF Patch, storeVars, resourceVars
  <2>2. CASE row' = row /\ Goto(t, "fail")
    <3>1. Moved(t, "fail")
      BY <1>1, <2>2 DEF Pcs
    <3> QED
      BY <1>3, <1>p, <2>1, <2>2, <3>1, Keeps, Concludes DEF Pcs
  <2>3. CASE /\ st \in Table[row.st] \/ st = row.st
             /\ row' = [row EXCEPT !.st = st, !.retries = 0, !.due = TRUE] /\ Goto(t, next)
    <3>1. Moved(t, next)
      BY <1>1, <2>3 DEF Pcs, Working
    <3>2. st \in DOMAIN Table /\ st # "ready" /\ st \notin Young
      BY States DEF Reconcilable, Young
    <3>3. row' \in RowType /\ row'.st = st
      BY <1>3, <2>3, <3>2, StatusWrites, <1>r
    <3>4. CASE st = row.st
      BY <1>3, <2>1, <3>1, <3>2, <3>3, <3>4, Keeps, Concludes DEF Pcs, Working
    <3>5. CASE st \in Table[row.st]
      <4>1. row.st # "ready"
        BY <3>5, States
      <4>2. StatusMoves /\ FinalStays /\ Registered
        BY <1>3, <2>1, <3>2, <3>3, <3>5, <4>1, Changes
      <4> QED
        BY <3>1, <3>2, <3>3, <4>2, Concludes DEF Pcs, Working
    <3> QED
      BY <2>3, <3>4, <3>5
  <2> QED
    BY <1>p, <2>2, <2>3 DEF Patch
<1>20. CASE PatchObjectCompleted(t)
  BY <1>3, <1>20, <1>p DEF PatchObjectCompleted, At, ThreadOK, Before
<1>23. CASE PatchVerified(t)
  BY <1>3, <1>23, <1>p DEF PatchVerified, At, ThreadOK, Before
<1>26. CASE FinalizeReady(t)
  <2>1. final' = final /\ row.st \notin Young /\ (final \/ row.st \in Removed)
    BY <1>3, <1>26 DEF FinalizeReady, storeVars, ThreadOK, At, Before
  <2>2. CASE row' = row /\ artifact' = artifact /\ Goto(t, "fail")
    <3>1. Moved(t, "fail")
      BY <1>1, <2>2 DEF Pcs
    <3> QED
      BY <1>3, <2>1, <2>2, <3>1, Keeps, Concludes DEF Pcs
  <2>3. CASE /\ row.st \in {"verified", "ready"} /\ artifact' = TRUE /\ Goto(t, "derive")
             /\ row' = [row EXCEPT !.st = "ready", !.due = @ \/ row.st = "verified"]
    <3>1. Moved(t, "derive")
      BY <1>1, <2>3 DEF Pcs, Working
    <3>2. PICK b \in BOOLEAN : b = (row.due \/ row.st = "verified")
      OBVIOUS
    <3>3. row' = [row EXCEPT !.st = "ready", !.due = b]
      BY <2>3, <3>2
    <3>4. "ready" \in DOMAIN Table
      BY States DEF Final
    <3>5. row' \in RowType /\ row'.st = "ready"
      BY <1>3, <3>3, <3>4, StatusWrites, <1>r
    <3>6. final'
      BY <2>1, <2>3 DEF Removed
    <3>7. StatusMoves /\ FinalStays /\ Registered
      BY <2>3, <3>5, <3>6, States, <1>3 DEF StatusMoves, FinalStays, Registered
    <3> QED
      BY <3>1, <3>5, <3>7, Concludes DEF Young, Pcs, Working
  <2> QED
    BY <1>26, <2>2, <2>3 DEF FinalizeReady
<1>30. CASE RejectUpload(t)
  <2>1. final' = final /\ artifact' = artifact /\ row.st \notin Young
    BY <1>3, <1>30 DEF RejectUpload, storeVars, resourceVars, ThreadOK, At, Before
  <2>2. PICK pc \in {"cleanup", "idle"} : Goto(t, pc) /\ (pc = "cleanup" => row'.st = "rejected")
    BY <1>30 DEF RejectUpload
  <2>3. Moved(t, pc)
    BY <1>1, <2>2 DEF Pcs
  <2>4. CASE row' = row
    BY <1>3, <2>1, <2>2, <2>3, <2>4, Keeps, Concludes DEF Removed, Pcs
  <2>5. CASE row' = [Released(row) EXCEPT !.st = IF @ \in Final THEN @ ELSE "rejected"]
    <3>1. Released(row).st = row.st /\ row.st \in Reconcilable \cup Final /\ "rejected" \in DOMAIN Table
      BY <1>3, <2>1, LeaseWrites, States DEF Final, Removed
    <3>2. CASE row.st \in Final
      <4>1. row' = [Released(row) EXCEPT !.st = row.st]
        BY <2>5, <3>1, <3>2
      <4>2. row' \in RowType /\ row'.st = row.st
        BY <1>3, <4>1, ReleasingWrites, <1>r
      <4> QED
        BY <1>3, <2>1, <2>2, <2>3, <4>2, Keeps, Concludes DEF Removed, Pcs
    <3>3. CASE row.st \notin Final
      <4>1. row' = [Released(row) EXCEPT !.st = "rejected"]
        BY <2>5, <3>1, <3>3
      <4>2. row' \in RowType /\ row'.st = "rejected"
        BY <1>3, <3>1, <4>1, ReleasingWrites, <1>r
      <4>3. StatusMoves /\ FinalStays /\ Registered
        BY <1>3, <2>1, <3>1, <3>3, <4>2, States, Changes DEF Reconcilable, Final
      <4> QED
        BY <2>2, <2>3, <4>2, <4>3, Concludes DEF Young, Removed, Pcs
    <3> QED
      BY <3>2, <3>3
  <2> QED
    BY <1>30, <2>4, <2>5 DEF RejectUpload
<1>32. CASE RecordRetry(t)
  <2>1. final' = final /\ artifact' = artifact /\ row.st \notin Young
    BY <1>3, <1>32 DEF RecordRetry, storeVars, resourceVars, ThreadOK, At, Before
  <2>2. PICK pc \in {"cleanup", "idle"} : Goto(t, pc) /\ (pc = "cleanup" => row'.st = "failed")
    BY <1>32 DEF RecordRetry
  <2>3. Moved(t, pc)
    BY <1>1, <2>2 DEF Pcs
  <2>4. ASSUME row' \in RowType, row'.st = row.st
        PROVE  Step1(t)
    BY <1>3, <2>1, <2>2, <2>3, <2>4, Keeps, Concludes DEF Removed, Pcs
  <2>5. CASE row' = row
    BY <1>3, <2>4, <2>5
  <2>6. CASE row' = Retried(row) /\ row.st \in Removed
    BY <1>3, <2>4, <2>6, LeaseWrites DEF Retried
  <2>7. CASE row' = Retried(row) /\ row.st = "ready"
    <3>1. row' = [Released(row) EXCEPT !.due = FALSE]
      BY <2>7 DEF Retried, Removed
    <3> QED
      BY <1>3, <2>4, <3>1, ReleasingWrites
  <2>8. CASE row' = Retried(row) /\ row.st \notin Removed \cup {"ready"}
    <3>1. row.st \in Reconcilable /\ "failed" \in DOMAIN Table
      BY <1>3, <2>1, <2>8, States DEF Final, Removed
    <3>2. CASE row.retries + 1 >= MaxRetries
      <4>1. row' = [Released(row) EXCEPT !.st = "failed", !.retries = MaxRetries, !.due = TRUE]
        BY <2>8, <3>2 DEF Retried
      <4>2. row' \in RowType /\ row'.st = "failed"
        BY <1>3, <3>1, <4>1, ReleasingWrites, <1>r
      <4>3. StatusMoves /\ FinalStays /\ Registered
        BY <1>3, <2>1, <2>8, <3>1, <4>2, States, Changes DEF Reconcilable
      <4> QED
        BY <2>2, <2>3, <4>2, <4>3, Concludes DEF Young, Removed, Pcs
    <3>3. CASE ~(row.retries + 1 >= MaxRetries)
      <4>1. Released(row).retries = row.retries
        BY <1>3 DEF Released, RowType
      <4>2. row' = [Released(row) EXCEPT !.retries = row.retries + 1, !.due = FALSE]
        BY <2>8, <3>3, <4>1 DEF Retried
      <4>3. row.retries + 1 \in 0..MaxRetries
        BY <1>3, <3>3, RetriesAssumption
      <4> QED
        BY <1>3, <2>4, <4>2, <4>3, ReleasingWrites
    <3> QED
      BY <3>2, <3>3
  <2> QED
    BY <1>32, <2>5, <2>6, <2>7, <2>8 DEF RecordRetry
<1> USE <1>1, <1>2, <1>3, States, RetriesAssumption
    DEF ThreadOK, ReadyIsServed, Step1, StatusMoves, FinalStays, Registered, Moved,
        Young, Before, Removed, Reconcilable, Final, Pcs, Working, At, Token,
        RowType, Released, Holds, Same, inputVars, storeVars, resourceVars, historyVars
<1>4. CASE Expire(t)
  BY <1>4 DEF Expire, Stale, Expired, Expirable
<1>5. CASE Prepare(t)
  BY <1>5 DEF Prepare
<1>6. CASE SignParts(t)
  BY <1>6 DEF SignParts
<1>8. CASE Cancel(t)
  BY <1>8 DEF Cancel, Expirable
<1>11. CASE PatchUploading(t)
  BY <1>11 DEF PatchUploading
<1>12. CASE PatchCancelled(t)
  BY <1>12 DEF PatchCancelled
<1>13. CASE Cleanup(t)
  BY <1>13 DEF Cleanup, CleanupUpload, Fault
<1>14. CASE Sweep(t)
  BY <1>14 DEF Sweep, CleanupUpload, Fault
<1>15. CASE ClearLease(t)
  BY <1>15 DEF ClearLease
<1>18. CASE Loop(t)
  BY <1>18 DEF Loop
<1>19. CASE CompleteObject(t)
  BY <1>19 DEF CompleteObject
<1>21. CASE Verify(t)
  BY <1>21 DEF Verify
<1>22. CASE Promote(t)
  BY <1>22 DEF Promote
<1>24. CASE Unstage(t)
  BY <1>24 DEF Unstage
<1>25. CASE CheckFinal(t)
  BY <1>25 DEF CheckFinal
<1>27. CASE Derive(t)
  BY <1>27 DEF Derive
<1>28. CASE DerivationComplete(t)
  BY <1>28 DEF DerivationComplete
<1>31. CASE HandleError(t)
  BY <1>31 DEF HandleError
<1>33. CASE Error(t)
  BY <1>33 DEF Error, Fault, Working
<1>34. CASE Crash(t)
  BY <1>34 DEF Crash, Fault, Orphaned
<1>35. CASE RenewLease(t)
  BY <1>35 DEF RenewLease, Processable
<1> QED
  BY <1>4, <1>5, <1>6, <1>7, <1>8, <1>9, <1>10, <1>11, <1>12, <1>13, <1>14, <1>15, <1>16, <1>17, <1>18, <1>19, <1>20, <1>21, <1>22, <1>23, <1>24, <1>25, <1>26, <1>27, <1>28, <1>29, <1>30, <1>31, <1>32, <1>33, <1>34, <1>35
     DEF Request, Step

-----------------------------------------------------------------------------
(* The other variables, the environment and the invariant. *)

Flags ==
  /\ multipart \in BOOLEAN /\ valid \in BOOLEAN /\ whole \in BOOLEAN
  /\ staging \in {"none", "parts", "object"} /\ final \in BOOLEAN
  /\ artifact \in BOOLEAN /\ thumbnail \in BOOLEAN
  /\ faults \in 0..MaxFaults /\ uncleaned \in BOOLEAN /\ misjudged \in BOOLEAN

LEMMA Types == TypeOK <=> row \in RowType /\ thread \in ThreadType /\ Flags
BY DEF TypeOK, RowType, ThreadType, Flags

LEMMA FlagsTyped ==
  ASSUME NEW t \in Threads, Flags,
         Request(t) \/ Scan(t) \/ Step(t) \/ Error(t) \/ Crash(t) \/ RenewLease(t)
  PROVE  Flags'
<1> USE FaultBoundAssumption DEF Flags, Same, inputVars, storeVars, resourceVars, historyVars
<1>1. CASE Expire(t)
  BY <1>1 DEF Expire
<1>2. CASE Prepare(t)
  BY <1>2 DEF Prepare
<1>3. CASE SignParts(t)
  BY <1>3 DEF SignParts
<1>4. CASE MarkCompleting(t)
  BY <1>4 DEF MarkCompleting
<1>5. CASE Cancel(t)
  BY <1>5 DEF Cancel
<1>6. CASE Scan(t)
  BY <1>6 DEF Scan
<1>7. CASE EnsureMultipart(t)
  BY <1>7 DEF EnsureMultipart
<1>8. CASE PatchUploading(t)
  BY <1>8 DEF PatchUploading
<1>9. CASE PatchCancelled(t)
  BY <1>9 DEF PatchCancelled
<1>10. CASE Cleanup(t)
  <2>1. CASE staging' = "none" /\ final' = FALSE /\ UNCHANGED <<faults, uncleaned>>
    BY <1>10, <2>1 DEF Cleanup
  <2>2. CASE Fault /\ uncleaned' = TRUE /\ UNCHANGED storeVars
    BY <1>10, <2>2 DEF Cleanup, Fault
  <2> QED
    BY <1>10, <2>1, <2>2 DEF Cleanup, CleanupUpload
<1>11. CASE Sweep(t)
  <2>1. CASE staging' = "none" /\ final' = FALSE /\ UNCHANGED <<faults, uncleaned>>
    BY <1>11, <2>1 DEF Sweep
  <2>2. CASE Fault /\ uncleaned' = TRUE /\ UNCHANGED storeVars
    BY <1>11, <2>2 DEF Sweep, Fault
  <2> QED
    BY <1>11, <2>1, <2>2 DEF Sweep, CleanupUpload
<1>12. CASE ClearLease(t)
  BY <1>12 DEF ClearLease
<1>13. CASE WriteCleared(t)
  BY <1>13 DEF WriteCleared
<1>14. CASE ClaimForProcessing(t)
  BY <1>14 DEF ClaimForProcessing
<1>15. CASE Loop(t)
  BY <1>15 DEF Loop
<1>16. CASE CompleteObject(t)
  BY <1>16 DEF CompleteObject
<1>17. CASE PatchObjectCompleted(t)
  BY <1>17 DEF PatchObjectCompleted, Patch
<1>18. CASE Verify(t)
  BY <1>18 DEF Verify, Fault
<1>19. CASE Promote(t)
  BY <1>19 DEF Promote
<1>20. CASE PatchVerified(t)
  BY <1>20 DEF PatchVerified, Patch
<1>21. CASE Unstage(t)
  BY <1>21 DEF Unstage
<1>22. CASE CheckFinal(t)
  BY <1>22 DEF CheckFinal
<1>23. CASE FinalizeReady(t)
  BY <1>23 DEF FinalizeReady
<1>24. CASE Derive(t)
  BY <1>24 DEF Derive
<1>25. CASE DerivationComplete(t)
  BY <1>25 DEF DerivationComplete
<1>26. CASE WriteDerived(t)
  BY <1>26 DEF WriteDerived
<1>27. CASE RejectUpload(t)
  BY <1>27 DEF RejectUpload
<1>28. CASE HandleError(t)
  BY <1>28 DEF HandleError
<1>29. CASE RecordRetry(t)
  BY <1>29 DEF RecordRetry
<1>30. CASE Error(t)
  BY <1>30 DEF Error, Fault
<1>31. CASE Crash(t)
  BY <1>31 DEF Crash, Fault
<1>32. CASE RenewLease(t)
  BY <1>32 DEF RenewLease
<1> QED
  BY <1>1, <1>2, <1>3, <1>4, <1>5, <1>6, <1>7, <1>8, <1>9, <1>10, <1>11, <1>12, <1>13, <1>14, <1>15, <1>16, <1>17, <1>18, <1>19, <1>20, <1>21, <1>22, <1>23, <1>24, <1>25, <1>26, <1>27, <1>28, <1>29, <1>30, <1>31, <1>32
     DEF Request, Step

LEMMA EnvironmentStep ==
  ASSUME IInv, Put \/ LeaseEnds \/ Overdue \/ BackoffEnds
  PROVE  /\ row' \in RowType /\ row'.st = row.st /\ thread' = thread /\ Flags'
         /\ final' = final /\ artifact' = artifact
<1>1. row \in RowType /\ Flags
  BY Types DEF IInv
<1> USE <1>1, FaultBoundAssumption DEF Flags, RowType, Fault, Same, inputVars, storeVars, resourceVars, historyVars
<1>2. CASE Put
  BY <1>2 DEF Put
<1>3. CASE LeaseEnds
  <2>1. row' = [row EXCEPT !.leased = FALSE] /\ thread' = thread
        /\ UNCHANGED <<inputVars, storeVars, resourceVars, historyVars>>
    BY <1>3 DEF LeaseEnds
  <2>2. row' \in RowType /\ row'.st = row.st
    BY <2>1
  <2>3. faults' \in 0..MaxFaults
    BY <1>3 DEF LeaseEnds
  <2> QED
    BY <2>1, <2>2, <2>3
<1>4. CASE Overdue
  BY <1>4 DEF Overdue
<1>5. CASE BackoffEnds
  BY <1>5 DEF BackoffEnds
<1> QED
  BY <1>2, <1>3, <1>4, <1>5

LEMMA InitEstablishes == Init => IInv
<1> SUFFICES ASSUME Init PROVE IInv
  OBVIOUS
<1>1. row.st = "prepared" /\ row \in RowType
  BY States, RetriesAssumption DEF Init, RowType, Young
<1>2. thread \in ThreadType /\ \A t \in Threads : thread[t].pc = "idle"
  BY DEF Init, ThreadType, Pcs
<1>3. Flags
  <2>1. faults \in 0..MaxFaults
    BY FaultBoundAssumption DEF Init
  <2> QED
    BY <2>1 DEF Init, Flags
<1>4. \A t \in Threads : ThreadOK(t)
  BY <1>2 DEF ThreadOK, Before
<1>5. ReadyIsServed
  BY <1>1 DEF Init, ReadyIsServed
<1> QED
  BY <1>1, <1>2, <1>3, <1>4, <1>5, Types DEF IInv

\* A thread that stands still keeps its conjunct, whatever another one does: a status
\* never leads back before the transfer, a removed one leads nowhere, and the final
\* object goes only with a removed upload.
LEMMA Stable ==
  ASSUME TypeOK, NEW u \in Threads, ThreadOK(u), thread'[u] = thread[u], StatusMoves, FinalStays
  PROVE  ThreadOK(u)'
<1>1. row.st \in DOMAIN Table
  BY Types DEF RowType
<1>2. row.st \notin Young => row'.st \notin Young
  BY <1>1, States DEF StatusMoves, Young
<1>3. row.st \in Removed => row'.st = row.st
  BY <1>1, States DEF StatusMoves
<1> QED
  BY <1>2, <1>3 DEF ThreadOK, FinalStays

LEMMA StepPreserves == IInv /\ [Next]_vars => IInv' /\ StatusMoves
<1> SUFFICES ASSUME IInv, [Next]_vars PROVE IInv' /\ StatusMoves
  OBVIOUS
<1>1. /\ TypeOK /\ (\A u \in Threads : ThreadOK(u)) /\ ReadyIsServed /\ Flags
      /\ row \in RowType /\ thread \in ThreadType
  BY Types DEF IInv
<1>2. ASSUME NEW t \in Threads,
             Request(t) \/ Scan(t) \/ Step(t) \/ Error(t) \/ Crash(t) \/ RenewLease(t)
      PROVE  IInv' /\ StatusMoves
  <2>1. Step1(t)
    BY <1>2, ThreadStep
  <2>2. Flags'
    BY <1>1, <1>2, FlagsTyped
  <2>3. TypeOK'
    <3>1. row' \in RowType /\ thread' \in ThreadType /\ Flags'
      BY <2>1, <2>2 DEF Step1
    <3> QED
      BY <3>1 DEF TypeOK, RowType, ThreadType, Flags
  <2>4. ASSUME NEW u \in Threads
        PROVE  ThreadOK(u)'
    <3>1. CASE u = t
      BY <2>1, <3>1 DEF Step1
    <3>2. CASE u # t
      BY <1>1, <2>1, <3>2, Stable DEF Step1
    <3> QED
      BY <3>1, <3>2
  <2> QED
    BY <2>1, <2>3, <2>4 DEF Step1, IInv, Registered, ReadyIsServed
<1>3. CASE Put \/ LeaseEnds \/ Overdue \/ BackoffEnds
  <2>1. /\ row' \in RowType /\ row'.st = row.st /\ thread' = thread /\ Flags'
        /\ final' = final /\ artifact' = artifact
    BY <1>3, EnvironmentStep
  <2>2. TypeOK'
    BY <1>1, <2>1 DEF TypeOK, RowType, ThreadType, Flags
  <2>3. StatusMoves /\ FinalStays
    BY <2>1 DEF StatusMoves, FinalStays
  <2>4. \A u \in Threads : ThreadOK(u)'
    BY <1>1, <2>1, <2>3, Stable
  <2> QED
    BY <1>1, <2>1, <2>2, <2>3, <2>4 DEF IInv, ReadyIsServed
<1>4. CASE UNCHANGED vars
  BY <1>1, <1>4 DEF IInv, TypeOK, ThreadOK, ReadyIsServed, StatusMoves, vars, inputVars,
                    storeVars, resourceVars, historyVars
<1> QED
  BY <1>2, <1>3, <1>4 DEF Next

-----------------------------------------------------------------------------
(* The theorems. *)

\* Always: the three parts of the invariant.
THEOREM Invariance == Spec => []IInv
BY InitEstablishes, StepPreserves, PTL DEF Spec

\* The columns of the row, the objects and the threads stay within their types for any
\* number of threads, retries and faults.
THEOREM UploadTypes == Spec => []TypeOK
<1>1. IInv => TypeOK
  BY DEF IInv
<1> QED
  BY <1>1, Invariance, PTL

\* A ready upload is registered and its object is there, and nothing is registered
\* for an upload in any other status: finalize_ready against every late cancellation,
\* cleanup, promotion and expiry, also where two worker processes hold one lease.
THEOREM ReadyServed == Spec => []ReadyIsServed
<1>1. IInv => ReadyIsServed
  BY DEF IInv
<1> QED
  BY <1>1, Invariance, PTL

\* Every status change is one of UPLOAD_SESSION_TRANSITIONS, although cancel, sign and
\* the reconciler write from what they read in an earlier transaction.
THEOREM TableFollowed == Spec => FollowsTable
<1>1. IInv /\ [Next]_vars => [row'.st = row.st \/ row'.st \in Table[row.st]]_vars
  BY StepPreserves DEF StatusMoves
<1> QED
  BY <1>1, Invariance, PTL DEF Spec, FollowsTable
=============================================================================
