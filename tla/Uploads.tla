------------------------------ MODULE Uploads ------------------------------
(***************************************************************************)
(* One browser upload of a video or an image: its session row, its objects *)
(* in the store, and the threads of API replicas and workers on it.  A     *)
(* thread makes one call at a time (prepare, sign, complete, cancel,       *)
(* expire, or a round of the reconciler); every database method is one     *)
(* transaction under the row lock except two that read the row before they *)
(* write it.                                                               *)
(*                                                                         *)
(* Several uploads in one scan (batch limits) are left out; so are the     *)
(* idempotent replies of prepare and complete, which change nothing.       *)
(***************************************************************************)
EXTENDS Integers, FiniteSets

CONSTANTS
  Threads,     \* threads that can work on the upload
  NoThread,    \* the owner of a free lease
  MaxWorkers,  \* bound on worker processes, whose leases all carry one name
  MaxRetries,  \* reconcile_max_retries
  MaxFaults    \* bound on crashes, errors, interrupted tools and pauses longer than a lease

ASSUME NoThreadAssumption == NoThread \notin Threads
ASSUME WorkerNameAssumption == "temporal-worker" \notin Threads \cup {NoThread}
ASSUME WorkersAssumption == MaxWorkers \in Nat
ASSUME RetriesAssumption == MaxRetries \in Nat \ {0}
ASSUME FaultBoundAssumption == MaxFaults \in Nat

VARIABLES
  multipart,  \* the upload's strategy
  valid,      \* its bytes pass the verification
  row,        \* the upload_sessions row
  staging,    \* staging object: "none", "parts" or "object"
  final,      \* the final object exists
  artifact,   \* the artifact (with its asset or package) is registered
  thumbnail,  \* the asset has its thumbnail
  whole,      \* the browser had sent everything when it asked for completion
  thread,     \* where each thread is, and whether it works for the worker's scan
  faults,     \* faults so far
  uncleaned,  \* a cleanup was cut short by a crash or a failing store
  misjudged   \* the upload was rejected because a media tool was interrupted

storeVars == <<staging, final>>
resourceVars == <<artifact, thumbnail>>
inputVars == <<multipart, valid, whole>>
historyVars == <<uncleaned, misjudged>>
vars == <<inputVars, row, storeVars, resourceVars, thread, faults, historyVars>>

Reconcilable == {"completing", "object_completed", "verified"}
Expirable == {"prepared", "uploading"} \cup Reconcilable
Processable == Reconcilable \cup {"ready"}
Removed == {"rejected", "failed", "cancelled", "expired"}
Final == Removed \cup {"ready"}

\* UPLOAD_SESSION_TRANSITIONS.
Table ==
  [prepared |-> {"uploading", "completing", "failed", "cancelled", "expired"},
   uploading |-> {"completing", "failed", "cancelled", "expired"},
   completing |-> {"object_completed", "rejected", "failed", "cancelled", "expired"},
   object_completed |-> {"verified", "rejected", "failed", "cancelled", "expired"},
   verified |-> {"ready", "rejected", "failed", "cancelled", "expired"},
   ready |-> {}, rejected |-> {}, failed |-> {}, cancelled |-> {}, expired |-> {}]

Working == {"loop", "complete", "completed", "verify", "promote", "promoted", "unstage",
            "check", "finalize", "derive", "thumbnail"}
Pcs == {"idle", "ensure", "sign", "cancel", "claim", "cleanup", "sweep", "clear", "cleared",
        "done", "reject", "giveup", "fail", "retry"} \cup Working

TypeOK ==
  /\ multipart \in BOOLEAN /\ valid \in BOOLEAN /\ whole \in BOOLEAN
  /\ row \in [st : DOMAIN Table, remote : BOOLEAN,
              owner : Threads \cup {NoThread, "temporal-worker"},
              leased : BOOLEAN, overdue : BOOLEAN, retries : 0..MaxRetries, due : BOOLEAN]
  /\ staging \in {"none", "parts", "object"} /\ final \in BOOLEAN
  /\ artifact \in BOOLEAN /\ thumbnail \in BOOLEAN
  /\ thread \in [Threads -> [pc : Pcs, scan : BOOLEAN]]
  /\ faults \in 0..MaxFaults /\ uncleaned \in BOOLEAN /\ misjudged \in BOOLEAN

Init ==
  /\ multipart \in BOOLEAN /\ valid \in BOOLEAN /\ whole = FALSE
  /\ row = [st |-> "prepared", remote |-> FALSE, owner |-> NoThread, leased |-> FALSE,
            overdue |-> FALSE, retries |-> 0, due |-> TRUE]
  /\ staging = "none" /\ final = FALSE
  /\ artifact = FALSE /\ thumbnail = FALSE
  /\ thread = [t \in Threads |-> [pc |-> "idle", scan |-> FALSE]]
  /\ faults = 0 /\ uncleaned = FALSE /\ misjudged = FALSE

Fault == faults < MaxFaults /\ faults' = faults + 1
At(t, pc) == thread[t].pc = pc
Enter(t, pc, scan) == thread' = [thread EXCEPT ![t] = [pc |-> pc, scan |-> scan /\ pc # "idle"]]
Goto(t, pc) == Enter(t, pc, thread[t].scan)
Released(r) == [r EXCEPT !.owner = NoThread, !.leased = FALSE]

\* A call has a token of its own as its lease's owner, every scan the worker's name.
Token(t) == IF thread[t].scan THEN "temporal-worker" ELSE t
Holds(t) == row.owner = Token(t)
Same == UNCHANGED <<inputVars, faults, historyVars>>

-----------------------------------------------------------------------------
(* Prepare, sign, send, complete, cancel, expire. *)

\* _expire_row_if_stale: the guard and the write; every caller holds the row lock.
Stale == row.st \in Expirable /\ row.overdue /\ ~row.leased
Expired == [Released(row) EXCEPT !.st = "expired", !.due = TRUE]

\* expire_stale_uploads, or the expire_if_stale at the start of every request; both
\* clean up after the commit.
Expire(t) ==
  /\ At(t, "idle") /\ Stale
  /\ row' = Expired /\ Goto(t, "cleanup")
  /\ UNCHANGED <<storeVars, resourceVars>> /\ Same

\* prepare_upload, or a retry of it, reads a row whose parts can be signed ...
Prepare(t) ==
  /\ At(t, "idle") /\ multipart /\ row.st \in {"prepared", "uploading"} /\ ~Stale
  /\ Goto(t, "ensure")
  /\ UNCHANGED <<row, storeVars, resourceVars>> /\ Same

\* ... and ensure_multipart_upload_id makes the remote id once, under the row lock,
\* whatever the status has become meanwhile.
EnsureMultipart(t) ==
  /\ At(t, "ensure")
  /\ row' = [row EXCEPT !.remote = TRUE] /\ Goto(t, "idle")
  /\ UNCHANGED <<storeVars, resourceVars>> /\ Same

\* sign_upload_parts reads a prepared row ...
SignParts(t) ==
  /\ At(t, "idle") /\ multipart /\ row.remote /\ row.st = "prepared" /\ ~Stale
  /\ Goto(t, "sign")
  /\ UNCHANGED <<row, storeVars, resourceVars>> /\ Same

\* ... and patches it afterwards; a transition that has become illegal is refused.
PatchUploading(t) ==
  /\ At(t, "sign")
  /\ row' = IF "uploading" \in Table[row.st] THEN [row EXCEPT !.st = "uploading"] ELSE row
  /\ Goto(t, "idle")
  /\ UNCHANGED <<storeVars, resourceVars>> /\ Same

\* The browser sends everything through urls it was given earlier.  The url of a
\* single upload outlives the session, a multipart ends when it is completed or aborted.
Put ==
  /\ staging = "none"
  /\ multipart => row.remote /\ row.st \in {"prepared", "uploading", "completing"}
  /\ staging' = IF multipart THEN "parts" ELSE "object"
  /\ UNCHANGED <<row, final, resourceVars, thread>> /\ Same

\* mark_completing; the request or its background task then drives the reconciler.
MarkCompleting(t) ==
  /\ At(t, "idle") /\ ~Stale
  /\ row.st \in {"prepared", "uploading"} \cup Processable
  /\ IF row.st \in {"prepared", "uploading"}
     THEN /\ row' = [row EXCEPT !.st = "completing", !.due = TRUE]
          /\ whole' = (staging # "none")
     ELSE UNCHANGED <<row, whole>>
  /\ Goto(t, "claim")
  /\ UNCHANGED <<multipart, valid, storeVars, resourceVars, faults, historyVars>>

\* cancel_upload has read a status that can still be cancelled ...
Cancel(t) ==
  /\ At(t, "idle") /\ row.st \in Expirable /\ ~Stale
  /\ Goto(t, "cancel")
  /\ UNCHANGED <<row, storeVars, resourceVars>> /\ Same

\* A cancel that does not look at the status again: mutant of PatchCancelled.
PatchCancelledBlindly(t) ==
  /\ At(t, "cancel")
  /\ row' = [row EXCEPT !.st = "cancelled"] /\ Goto(t, "cleanup")
  /\ UNCHANGED <<storeVars, resourceVars>> /\ Same

\* A status that the table does not have: mutant of PatchCancelled.
PatchMisspelt(t) ==
  /\ At(t, "cancel")
  /\ row' = [row EXCEPT !.st = "canceled"] /\ Goto(t, "cleanup")
  /\ UNCHANGED <<storeVars, resourceVars>> /\ Same

\* ... and its patch either wins and cleans up, or is refused.
PatchCancelled(t) ==
  /\ At(t, "cancel")
  /\ IF "cancelled" \in Table[row.st]
     THEN row' = [row EXCEPT !.st = "cancelled"] /\ Goto(t, "cleanup")
     ELSE row' = row /\ Goto(t, IF row.st = "cancelled" THEN "cleanup" ELSE "idle")
  /\ UNCHANGED <<storeVars, resourceVars>> /\ Same

\* _cleanup_upload: the multipart is aborted, staging and final are deleted.  An error
\* of the store is swallowed.
CleanupUpload ==
  \/ /\ staging' = "none" /\ final' = FALSE
     /\ UNCHANGED <<faults, uncleaned>>
  \/ Fault /\ uncleaned' = TRUE /\ UNCHANGED storeVars

Cleanup(t) ==
  /\ At(t, "cleanup")
  /\ CleanupUpload /\ Goto(t, "idle")
  /\ UNCHANGED <<inputVars, row, resourceVars, misjudged>>

\* The same by a round of the reconciler, which gives up its lease afterwards.
Sweep(t) ==
  /\ At(t, "sweep")
  /\ CleanupUpload /\ Goto(t, "clear")
  /\ UNCHANGED <<inputVars, row, resourceVars, misjudged>>

\* clear_lease reads the owner without a lock ...
ClearLease(t) ==
  /\ At(t, "clear")
  /\ Goto(t, IF Holds(t) THEN "cleared" ELSE "idle")
  /\ UNCHANGED <<row, storeVars, resourceVars>> /\ Same

\* ... and its write removes whatever lease is there then.
WriteCleared(t) ==
  /\ At(t, "cleared")
  /\ row' = Released(row) /\ Goto(t, "idle")
  /\ UNCHANGED <<storeVars, resourceVars>> /\ Same

-----------------------------------------------------------------------------
(* The reconciler. *)

CanClaim(t) == row.st \in Processable /\ row.due /\ (Holds(t) \/ ~row.leased)

\* A scan that forgets the verified uploads: mutant of Scan.
ScanUnverified(t) ==
  /\ At(t, "idle") /\ row.due /\ ~row.leased
  /\ row.st \in Reconcilable \ {"verified"} \/ (row.st = "ready" /\ ~thumbnail)
  /\ Cardinality({u \in Threads : thread[u].scan}) < MaxWorkers
  /\ row' = [row EXCEPT !.owner = "temporal-worker", !.leased = TRUE]
  /\ Enter(t, "claim", TRUE)
  /\ UNCHANGED <<storeVars, resourceVars>> /\ Same

\* A scan that leaves ready uploads alone: mutant of Scan.
ScanReconcilable(t) ==
  /\ At(t, "idle") /\ row.due /\ ~row.leased
  /\ row.st \in Reconcilable
  /\ Cardinality({u \in Threads : thread[u].scan}) < MaxWorkers
  /\ row' = [row EXCEPT !.owner = "temporal-worker", !.leased = TRUE]
  /\ Enter(t, "claim", TRUE)
  /\ UNCHANGED <<storeVars, resourceVars>> /\ Same

\* claim_reconcilable and claim_ready_derivations take the lease for the worker.
Scan(t) ==
  /\ At(t, "idle") /\ row.due /\ ~row.leased
  /\ row.st \in Reconcilable \/ (row.st = "ready" /\ ~thumbnail)
  /\ Cardinality({u \in Threads : thread[u].scan}) < MaxWorkers
  /\ row' = [row EXCEPT !.owner = "temporal-worker", !.leased = TRUE]
  /\ Enter(t, "claim", TRUE)
  /\ UNCHANGED <<storeVars, resourceVars>> /\ Same

\* process and claim_for_processing.
ClaimForProcessing(t) ==
  /\ At(t, "claim")
  /\ \/ /\ Stale /\ row' = Expired /\ Goto(t, "cleanup")
     \/ /\ ~Stale /\ CanClaim(t)
        /\ row' = [row EXCEPT !.owner = Token(t), !.leased = TRUE] /\ Goto(t, "loop")
     \/ /\ ~Stale /\ ~CanClaim(t)
        /\ row' = row /\ Goto(t, IF row.st \in Removed THEN "cleanup" ELSE "idle")
  /\ UNCHANGED <<storeVars, resourceVars>> /\ Same

\* _process_claimed reads the row and dispatches on its status.
Loop(t) ==
  /\ At(t, "loop")
  /\ Goto(t, CASE row.st = "completing" -> "complete"
               [] row.st = "object_completed" -> "verify"
               [] row.st = "verified" -> "check"
               [] row.st = "ready" -> "derive"
               [] row.st \in Removed -> "sweep"
               [] OTHER -> "clear")
  /\ UNCHANGED <<row, storeVars, resourceVars>> /\ Same

\* _complete_object: a staging object that is there already was completed before; a
\* multipart that has been completed or aborted cannot be listed, which is an error.
CompleteObject(t) ==
  /\ At(t, "complete")
  /\ IF staging = "object" \/ (multipart /\ row.remote /\ staging = "parts")
     THEN staging' = "object" /\ Goto(t, "completed")
     ELSE staging' = staging /\ (Goto(t, "reject") \/ (multipart /\ row.remote /\ Goto(t, "fail")))
  /\ UNCHANGED <<row, final, resourceVars>> /\ Same

\* patch_upload with a lease owner: refused when the lease or the transition is lost.
Patch(t, st, next) ==
  /\ IF Holds(t) /\ (st \in Table[row.st] \/ st = row.st)
     THEN /\ row' = [row EXCEPT !.st = st, !.retries = 0, !.due = TRUE]
          /\ Goto(t, next)
     ELSE row' = row /\ Goto(t, "fail")
  /\ UNCHANGED <<storeVars, resourceVars>> /\ Same

PatchObjectCompleted(t) == At(t, "completed") /\ Patch(t, "object_completed", "loop")

\* _verify_and_promote: size, type, hash and media of the staging object.  One that is
\* missing is a reason to reject for the local store, an error for S3.  A tool that
\* probes, normalizes or stabilizes and is killed or runs out of time speaks against
\* the bytes like one that cannot read them ...
Verify(t) ==
  /\ At(t, "verify")
  /\ \/ /\ staging = "object"
        /\ Goto(t, IF valid THEN "promote" ELSE "reject") /\ UNCHANGED faults
     \/ /\ staging # "object"
        /\ Goto(t, "reject") \/ Goto(t, "fail")
        /\ UNCHANGED faults
     \/ staging = "object" /\ Goto(t, "giveup") /\ Fault
  /\ UNCHANGED <<inputVars, row, storeVars, resourceVars, historyVars>>

\* ... the final object, copied from staging or uploaded from the processed file ...
Promote(t) ==
  /\ At(t, "promote")
  /\ \/ final' = TRUE /\ Goto(t, "promoted")
     \/ staging # "object" /\ final' = final /\ Goto(t, "fail")
  /\ UNCHANGED <<row, staging, resourceVars>> /\ Same

PatchVerified(t) == At(t, "promoted") /\ Patch(t, "verified", "unstage")

\* ... and the staging object is deleted after the commit.
Unstage(t) ==
  /\ At(t, "unstage")
  /\ staging' = "none" /\ Goto(t, "loop")
  /\ UNCHANGED <<row, final, resourceVars>> /\ Same

\* _assert_verified_object_exists: without the object as in Verify.
CheckFinal(t) ==
  /\ At(t, "check")
  /\ \/ final /\ Goto(t, "finalize")
     \/ ~final /\ (Goto(t, "reject") \/ Goto(t, "fail"))
  /\ UNCHANGED <<row, storeVars, resourceVars>> /\ Same

\* Resources without the transition's check: mutant of FinalizeReady.
FinalizeUnchecked(t) ==
  /\ At(t, "finalize")
  /\ row' = (IF row.st = "verified" THEN [row EXCEPT !.st = "ready", !.due = TRUE] ELSE row)
  /\ artifact' = TRUE /\ Goto(t, "derive")
  /\ UNCHANGED <<storeVars, thumbnail>> /\ Same

\* finalize_ready: resources and status in one transaction, the lease is kept; a row
\* that is ready already only returns them.
FinalizeReady(t) ==
  /\ At(t, "finalize")
  /\ IF Holds(t) /\ row.st \in {"verified", "ready"}
     THEN /\ row' = [row EXCEPT !.st = "ready", !.due = @ \/ row.st = "verified"]
          /\ artifact' = TRUE /\ Goto(t, "derive")
     ELSE UNCHANGED <<row, artifact>> /\ Goto(t, "fail")
  /\ UNCHANGED <<storeVars, thumbnail>> /\ Same

\* _cleanup_staging_after_promotion and _derive_ready_artifacts, up to the thumbnail.
Derive(t) ==
  /\ At(t, "derive")
  /\ staging' = "none" /\ thumbnail' = TRUE /\ Goto(t, "thumbnail")
  /\ UNCHANGED <<row, final, artifact>> /\ Same

\* mark_derivation_complete reads the owner without a lock, and writes as clear_lease.
DerivationComplete(t) ==
  /\ At(t, "thumbnail")
  /\ Goto(t, IF Holds(t) THEN "done" ELSE "idle")
  /\ UNCHANGED <<row, storeVars, resourceVars>> /\ Same
WriteDerived(t) ==
  /\ At(t, "done")
  /\ row' = [Released(row) EXCEPT !.retries = 0, !.due = TRUE] /\ Goto(t, "idle")
  /\ UNCHANGED <<storeVars, resourceVars>> /\ Same

\* A rejection by anybody: mutant of RejectUpload.
RejectUnfenced(t) ==
  /\ thread[t].pc \in {"reject", "giveup"}
  /\ row' = [Released(row) EXCEPT !.st = IF @ \in Final THEN @ ELSE "rejected"]
  /\ misjudged' = (misjudged \/ (At(t, "giveup") /\ Holds(t) /\ row.st \notin Final))
  /\ Goto(t, IF row'.st = "rejected" THEN "cleanup" ELSE "idle")
  /\ UNCHANGED <<inputVars, storeVars, resourceVars, faults, uncleaned>>

\* reject_upload: only the owner of the lease decides; a final status stays.  A tool that
\* was interrupted is no other reason than bytes that are wrong.
RejectUpload(t) ==
  /\ thread[t].pc \in {"reject", "giveup"}
  /\ IF ~Holds(t) THEN row' = row
     ELSE row' = [Released(row) EXCEPT !.st = IF @ \in Final THEN @ ELSE "rejected"]
  /\ misjudged' = (misjudged \/ (At(t, "giveup") /\ Holds(t) /\ row.st \notin Final))
  /\ Goto(t, IF row'.st = "rejected" THEN "cleanup" ELSE "idle")
  /\ UNCHANGED <<inputVars, storeVars, resourceVars, faults, uncleaned>>

\* A handler that takes every error for a transient one: mutant of HandleError.
HandleErrorBlindly(t) ==
  /\ At(t, "fail") /\ Goto(t, "retry")
  /\ UNCHANGED <<row, storeVars, resourceVars>> /\ Same

\* The handler of every other error reads the row again: a removed upload is swept ...
HandleError(t) ==
  /\ At(t, "fail")
  /\ Goto(t, IF row.st \in Removed THEN "sweep" ELSE "retry")
  /\ UNCHANGED <<row, storeVars, resourceVars>> /\ Same

\* ... a ready one backs off its derivation (record_derivation_retry), any other counts
\* the error (record_retry).
Retried(r) ==
  IF r.st \in Removed THEN Released(r)
  ELSE IF r.st = "ready" THEN [Released(r) EXCEPT !.due = FALSE]
  ELSE IF r.retries + 1 >= MaxRetries
       THEN [Released(r) EXCEPT !.st = "failed", !.retries = MaxRetries, !.due = TRUE]
       ELSE [Released(r) EXCEPT !.retries = @ + 1, !.due = FALSE]

RecordRetry(t) ==
  /\ At(t, "retry")
  /\ row' = (IF Holds(t) THEN Retried(row) ELSE row)
  /\ Goto(t, IF row'.st = "failed" THEN "cleanup" ELSE "idle")
  /\ UNCHANGED <<storeVars, resourceVars>> /\ Same

-----------------------------------------------------------------------------
(* The environment. *)

\* The store or the database fails in the middle of a round, or a tool that makes the
\* thumbnail; one that verifies fails in Verify.
Error(t) ==
  /\ Fault
  /\ thread[t].pc \in Working /\ Goto(t, "fail")
  /\ UNCHANGED <<inputVars, row, storeVars, resourceVars, historyVars>>

Orphaned(t) == Holds(t) /\ \A u \in Threads \ {t} : ~Holds(u)

\* The lease of a thread that is gone stays until it runs out.
Crash(t) ==
  /\ Fault
  /\ ~At(t, "idle") /\ Goto(t, "idle")
  /\ row' = (IF Orphaned(t) THEN [row EXCEPT !.owner = NoThread] ELSE row)
  /\ uncleaned' = TRUE
  /\ UNCHANGED <<inputVars, storeVars, resourceVars, misjudged>>

\* A lease runs out: when its thread is gone, or when a pause stops its heartbeat for
\* a whole lease.  A heartbeat that finds its lease again renews it.
LeaseEnds ==
  /\ row.leased
  /\ IF row.owner # NoThread THEN Fault ELSE UNCHANGED faults
  /\ row' = [row EXCEPT !.leased = FALSE]
  /\ UNCHANGED <<inputVars, storeVars, resourceVars, thread, historyVars>>

RenewLease(t) ==
  /\ thread[t].pc \in Working \cup {"reject", "giveup", "fail", "retry", "done"} /\ Holds(t)
  /\ row.st \in Processable /\ ~row.leased
  /\ row' = [row EXCEPT !.leased = TRUE]
  /\ UNCHANGED <<storeVars, resourceVars, thread>> /\ Same

Overdue ==
  /\ ~row.overdue /\ row' = [row EXCEPT !.overdue = TRUE]
  /\ UNCHANGED <<storeVars, resourceVars, thread>> /\ Same

BackoffEnds ==
  /\ ~row.due /\ row' = [row EXCEPT !.due = TRUE]
  /\ UNCHANGED <<storeVars, resourceVars, thread>> /\ Same

Request(t) ==
  \/ Expire(t) \/ Prepare(t) \/ SignParts(t) \/ MarkCompleting(t) \/ Cancel(t)

Step(t) ==
  \/ EnsureMultipart(t) \/ PatchUploading(t) \/ PatchCancelled(t)
  \/ Cleanup(t) \/ Sweep(t) \/ ClearLease(t) \/ WriteCleared(t)
  \/ ClaimForProcessing(t) \/ Loop(t) \/ CompleteObject(t) \/ PatchObjectCompleted(t)
  \/ Verify(t) \/ Promote(t) \/ PatchVerified(t) \/ Unstage(t) \/ CheckFinal(t)
  \/ FinalizeReady(t) \/ Derive(t) \/ DerivationComplete(t) \/ WriteDerived(t)
  \/ RejectUpload(t) \/ HandleError(t) \/ RecordRetry(t)

Next ==
  \/ \E t \in Threads : Request(t) \/ Scan(t) \/ Step(t) \/ Error(t) \/ Crash(t) \/ RenewLease(t)
  \/ Put \/ LeaseEnds \/ Overdue \/ BackoffEnds

Spec == Init /\ [][Next]_vars

\* A thread that runs keeps running, time passes, and the worker keeps scanning.
Fairness ==
  /\ \A t \in Threads : WF_vars(Step(t))
  /\ SF_vars(\E t \in Threads : Scan(t))
  /\ WF_vars(LeaseEnds /\ UNCHANGED faults) /\ WF_vars(BackoffEnds)

FairSpec == Spec /\ Fairness

-----------------------------------------------------------------------------
(* Properties. *)

Idle == \A t \in Threads : At(t, "idle")

\* Every change of the status is one of UPLOAD_SESSION_TRANSITIONS, whichever stale
\* read it started from.
FollowsTable == [][row'.st = row.st \/ row'.st \in Table[row.st]]_vars

\* resumable-upload.md, "verified -> Artifact + ready in one transaction": what is
\* registered is ready, and no late cleanup or promotion takes the object of a ready
\* upload away.
ReadyIsServed == (row.st = "ready" <=> artifact) /\ (artifact => final)

\* A sound upload that was completely sent is rejected only by the owner of the lease
\* whose own media tool was interrupted: never because one thread deleted the staging
\* object that another was about to look at, and never by a thread that gave up and
\* has lost the lease.
RejectedForCause == row.st = "rejected" => ~valid \/ ~whole \/ misjudged

\* resumable-upload.md, the active cleanup: when the threads are done, a cancelled,
\* expired, rejected or failed upload has left no final object behind, also when the
\* promotion overtook the cleanup; only a lost cleanup may leave one.
RemovedIsClean == row.st \in Removed /\ Idle /\ ~uncleaned => ~final

\* Once the browser asked for completion the upload gets out of processing, and a
\* ready one gets its thumbnail, whatever crashes on the way.
CompletionSettles == row.st \in Reconcilable ~> row.st \in Final
ThumbnailFollows == row.st = "ready" ~> thumbnail
=============================================================================
