--------------------------- MODULE PublishBatch ----------------------------
(***************************************************************************)
(* One publishing batch.  A submit validates in one transaction, publishes *)
(* its items with no transaction open, and writes the outcomes in another; *)
(* a retry publishes between the read and the write of one transaction.    *)
(* No row is locked or versioned, so what a call has read may be stale     *)
(* when it writes.  The vendor counts what really went out, to at least    *)
(* one of the item's accounts.                                             *)
(*                                                                         *)
(* Left out: the package's metadata, scheduled times, and the funnel       *)
(* events (best effort after the commit).                                  *)
(***************************************************************************)
EXTENDS Integers, FiniteSets

CONSTANTS
  N,          \* the number of the batch's items
  Callers,    \* requests that can be at work on the batch
  MaxCalls,   \* bound on submits and retries
  MaxEdits,   \* bound on the user's other requests
  MaxFaults   \* bound on crashes

ASSUME SizeAssumption == N \in Nat \ {0}
ASSUME CallersAssumption == IsFiniteSet(Callers)
ASSUME BoundsAssumption == MaxCalls \in Nat /\ MaxEdits \in Nat /\ MaxFaults \in Nat

Items == 1..N   \* in the order of their creation

VARIABLES
  batch,      \* its status, or "deleted"
  item,       \* per item its status, or "deleted"
  selected,   \* the items the user has ticked
  posted,     \* per item, the attempts that are recorded as published
  vendor,     \* per item, how often the vendor has published it
  call,       \* per caller, what it does and what it has read
  calls,      \* submits and retries so far
  edits,      \* other requests so far
  faults,     \* faults so far
  overlapped, \* two calls were once at work together
  disturbed,  \* a call crashed, rows were deleted, or a tick changed under a call
  doubtful,   \* items that went out although the call was told they failed
  dropped     \* items that went out in a call that did not record it

rowVars == <<batch, item, selected, posted>>
counters == <<calls, edits, faults>>
lossVars == <<doubtful, dropped>>
vars == <<rowVars, vendor, call, counters, overlapped, disturbed, lossVars>>

BatchStates == {"draft", "review_ready", "publishing", "partial_failed", "completed", "deleted"}
ItemStates == {"uploaded", "review_ready", "published", "publish_failed", "deleted"}
Outcomes == {"none", "ok", "failed"}

Idle == [pc |-> "idle", dry |-> FALSE, todo |-> {}, got |-> [i \in Items |-> "none"],
         batch |-> "draft", item |-> [i \in Items |-> "uploaded"], picked |-> {}]

TypeOK ==
  /\ batch \in BatchStates /\ item \in [Items -> ItemStates]
  /\ selected \in SUBSET Items
  /\ posted \in [Items -> 0..MaxCalls] /\ vendor \in [Items -> 0..MaxCalls]
  /\ call \in [Callers ->
       [pc : {"idle", "publish", "load", "write", "retry", "retried"}, dry : BOOLEAN,
        todo : SUBSET Items, got : [Items -> Outcomes], batch : BatchStates,
        item : [Items -> ItemStates], picked : SUBSET Items]]
  /\ calls \in 0..MaxCalls /\ edits \in 0..MaxEdits /\ faults \in 0..MaxFaults
  /\ overlapped \in BOOLEAN /\ disturbed \in BOOLEAN
  /\ doubtful \in SUBSET Items /\ dropped \in SUBSET Items

Init ==
  /\ batch = "draft" /\ item = [i \in Items |-> "uploaded"]
  /\ selected = Items
  /\ posted = [i \in Items |-> 0] /\ vendor = [i \in Items |-> 0]
  /\ call = [c \in Callers |-> Idle]
  /\ calls = 0 /\ edits = 0 /\ faults = 0 /\ overlapped = FALSE /\ disturbed = FALSE
  /\ doubtful = {} /\ dropped = {}

Fault == faults < MaxFaults /\ faults' = faults + 1
Edit == edits < MaxEdits /\ edits' = edits + 1
Busy == {c \in Callers : call[c].pc # "idle"}
Live == {i \in Items : item[i] # "deleted"}
Begin(c, k) ==
  /\ calls < MaxCalls /\ calls' = calls + 1
  /\ call[c].pc = "idle" /\ batch # "deleted"
  /\ call' = [call EXCEPT ![c] = k]
  /\ overlapped' = (overlapped \/ Busy # {})
  /\ UNCHANGED <<rowVars, vendor, edits, faults, disturbed, lossVars>>
End(c) == call' = [call EXCEPT ![c] = Idle]

\* A call ends, and nothing records the items of S that it has published.
Published(k) == {i \in Items : k.got[i] = "ok"}
EndWithout(c, S) == End(c) /\ dropped' = dropped \cup S

-----------------------------------------------------------------------------
(* Submit. *)

\* _assert_item_submittable; the statuses of the pipeline between uploaded and
\* review_ready are never committed.
Submittable == {"uploaded", "review_ready", "publish_failed"}

\* A submit that does not look at the items: mutant of Submit.
SubmitUnchecked(c, dry) ==
  LET ticked == selected \cap Live IN
    /\ ticked # {}
    /\ Begin(c, [Idle EXCEPT !.pc = IF dry THEN "load" ELSE "publish", !.dry = dry,
                             !.todo = IF dry THEN {} ELSE ticked])

\* submit_batch, transaction A.  A dry run has nothing to publish.
Submit(c, dry) ==
  LET ticked == selected \cap Live IN
    /\ ticked # {} /\ \A i \in ticked : item[i] \in Submittable
    /\ Begin(c, [Idle EXCEPT !.pc = IF dry THEN "load" ELSE "publish", !.dry = dry,
                             !.todo = IF dry THEN {} ELSE ticked])

\* What publish_runner does with an item, account by account: all succeed, or the item
\* has failed, also if some account has it already or an answer was lost.
Runner(i, res) ==
  \/ /\ vendor' = [vendor EXCEPT ![i] = @ + 1]
     /\ doubtful' = IF res = "ok" THEN doubtful ELSE doubtful \cup {i}
  \/ res = "failed" /\ UNCHANGED <<vendor, doubtful>>

\* The window without a transaction.
PublishItem(c, i) ==
  /\ call[c].pc = "publish"
  /\ i \in call[c].todo /\ \A j \in call[c].todo : i <= j
  /\ \E res \in {"ok", "failed"} :
       /\ Runner(i, res)
       /\ call' = [call EXCEPT ![c].got[i] = res, ![c].todo = @ \ {i},
                               ![c].pc = IF call[c].todo = {i} THEN "load" ELSE @]
  /\ UNCHANGED <<rowVars, counters, overlapped, disturbed, dropped>>

\* Transaction B reads the batch and what is selected now.
LoadOutcomeRows(c) ==
  /\ call[c].pc = "load"
  /\ IF batch = "deleted" THEN EndWithout(c, Published(call[c]))
     ELSE /\ call' = [call EXCEPT ![c].pc = "write", ![c].batch = batch, ![c].item = item,
                                  ![c].picked = selected \cap Live]
          /\ UNCHANGED dropped
  /\ UNCHANGED <<rowVars, vendor, counters, overlapped, disturbed, doubtful>>

\* The transitions it asserts, on what it has read.
Legal(k) ==
  /\ k.batch \in (IF k.dry THEN {"draft"} ELSE {"draft", "review_ready", "partial_failed"})
  /\ \A i \in k.picked :
       k.item[i] \in (IF k.dry THEN Submittable \ {"publish_failed"} ELSE Submittable)

\* A missing outcome that counts as a success: mutant of Target.
TargetUnlessFailed(k, i) == IF k.dry THEN "review_ready"
                            ELSE IF k.got[i] # "failed" THEN "published" ELSE "publish_failed"

\* The status it gives an item: an outcome that is missing counts as a failure.
Target(k, i) == IF k.dry THEN "review_ready"
                ELSE IF k.got[i] = "ok" THEN "published" ELSE "publish_failed"

\* A batch that ends although items failed: mutant of BatchTarget.
BatchAlwaysCompletes(k) == IF k.dry THEN "review_ready" ELSE "completed"

\* A batch that gets the status of an item: mutant of BatchTarget.
BatchTakesItemStatus(k) == IF k.dry THEN "review_ready" ELSE "published"

BatchTarget(k) ==
  IF k.dry THEN "review_ready"
  ELSE IF \E i \in k.picked : Target(k, i) = "publish_failed" THEN "partial_failed"
       ELSE "completed"

RowsGone(k) == batch = "deleted" \/ \E i \in k.picked : item[i] = "deleted"

\* ... and writes.  Only a status that differs from the one it has read reaches the
\* row; the batch's may have been flushed as publishing in between.
WriteOutcomes(c) ==
  LET k == call[c] IN
    /\ k.pc = "write" /\ Legal(k) /\ ~RowsGone(k)
    /\ item' = [i \in Items |-> IF i \in k.picked /\ Target(k, i) # k.item[i]
                                THEN Target(k, i) ELSE item[i]]
    /\ batch' \in {BatchTarget(k)} \cup (IF BatchTarget(k) = k.batch THEN {batch} ELSE {})
    /\ posted' = [i \in Items |-> IF i \in k.picked /\ ~k.dry /\ Target(k, i) = "published"
                                  THEN posted[i] + 1 ELSE posted[i]]
    /\ EndWithout(c, Published(k) \ k.picked)
    /\ UNCHANGED <<selected, vendor, counters, overlapped, disturbed, doubtful>>

\* The transaction is refused, by an illegal transition or because rows are gone: it
\* rolls back, whatever the runner has published.  Submit did not ask for the batch's
\* status, so a call that alone is at work gets here when the batch is publishing or
\* completed.
Refuse(c) ==
  LET k == call[c] IN
    /\ k.pc = "write" /\ (~Legal(k) \/ RowsGone(k))
    /\ EndWithout(c, Published(k))
    /\ UNCHANGED <<rowVars, vendor, counters, overlapped, disturbed, doubtful>>

-----------------------------------------------------------------------------
(* Retry of one item. *)

\* retry_item reads the batch and the failed item ...
Retry(c, i) ==
  /\ item[i] = "publish_failed"
  /\ Begin(c, [Idle EXCEPT !.pc = "retry", !.batch = batch, !.picked = {i}])

\* ... publishes with the transaction open; a failure raises and records nothing ...
RetryPublish(c) ==
  /\ call[c].pc = "retry"
  /\ \E i \in call[c].picked, res \in {"ok", "failed"} :
       /\ Runner(i, res)
       /\ IF res = "ok" THEN call' = [call EXCEPT ![c].pc = "retried", ![c].got[i] = "ok"]
                        ELSE End(c)
  /\ UNCHANGED <<rowVars, counters, overlapped, disturbed, dropped>>

\* ... and writes over what it has read; only the other items are read now.
RetriedBatch(k) ==
  LET lifted == IF k.batch = "partial_failed" THEN "publishing" ELSE k.batch IN
    IF lifted = "publishing" /\ \A i \in Live \ k.picked : item[i] = "published"
    THEN "completed" ELSE lifted

RetryWrite(c) ==
  LET k == call[c] IN
    /\ k.pc = "retried"
    /\ IF RowsGone(k) THEN UNCHANGED <<batch, item, posted>> /\ EndWithout(c, Published(k))
       ELSE /\ item' = [i \in Items |-> IF i \in k.picked THEN "published" ELSE item[i]]
            /\ posted' = [i \in Items |-> IF i \in k.picked THEN posted[i] + 1 ELSE posted[i]]
            /\ batch' = (IF RetriedBatch(k) = k.batch THEN batch ELSE RetriedBatch(k))
            /\ EndWithout(c, {})
    /\ UNCHANGED <<selected, vendor, counters, overlapped, disturbed, doubtful>>

-----------------------------------------------------------------------------
(* The user's other requests, and faults. *)

\* patch_item ticks or unticks.
PatchItem(i) ==
  /\ Edit /\ i \in Live
  /\ selected' = IF i \in selected THEN selected \ {i} ELSE selected \cup {i}
  /\ disturbed' = (disturbed \/ Busy # {})
  /\ UNCHANGED <<batch, item, posted, vendor, call, calls, faults, overlapped, lossVars>>

\* delete_item and delete_batch take the attempts along.
DeleteItem(i) ==
  /\ Edit /\ i \in Live /\ batch # "deleted"
  /\ item' = [item EXCEPT ![i] = "deleted"]
  /\ posted' = [posted EXCEPT ![i] = 0]
  /\ disturbed' = TRUE
  /\ UNCHANGED <<batch, selected, vendor, call, calls, faults, overlapped, lossVars>>

DeleteBatch ==
  /\ Edit /\ batch # "deleted" /\ batch' = "deleted"
  /\ disturbed' = TRUE
  /\ UNCHANGED <<item, selected, posted, vendor, call, calls, faults, overlapped, lossVars>>

Crash(c) ==
  /\ Fault
  /\ c \in Busy /\ EndWithout(c, Published(call[c]))
  /\ disturbed' = TRUE
  /\ UNCHANGED <<rowVars, vendor, calls, edits, overlapped, doubtful>>

Next ==
  \/ \E c \in Callers :
       \/ Submit(c, TRUE) \/ Submit(c, FALSE)
       \/ \E i \in Items : PublishItem(c, i) \/ Retry(c, i)
       \/ LoadOutcomeRows(c) \/ WriteOutcomes(c) \/ Refuse(c)
       \/ RetryPublish(c) \/ RetryWrite(c) \/ Crash(c)
  \/ \E i \in Items : PatchItem(i) \/ DeleteItem(i)
  \/ DeleteBatch

Spec == Init /\ [][Next]_vars

-----------------------------------------------------------------------------
(* Properties. *)

\* retry_item's docstring, "only advances the item to published when the adapter
\* actually reports success", for every path and however the calls overlap: a published
\* item has an attempt, and every attempt, and every success that a call still holds, a
\* publication of its own.  The other way, a publication without a record is of an item
\* that was deleted, that went out although the call was told it failed, or that went
\* out in a call that could not write.
Pending(i) == Cardinality({c \in Callers : call[c].got[i] = "ok"})
RecordsMatchVendor ==
  \A i \in Items :
    /\ item[i] = "published" => posted[i] >= 1
    /\ posted[i] + Pending(i) <= vendor[i]
    /\ vendor[i] > posted[i] + Pending(i) => i \in doubtful \cup dropped \/ item[i] = "deleted"

\* One call after the other, an item goes out again only if it was told failed after the
\* vendor had taken it (for some account, or with its answer lost), or if its call was
\* refused with the batch publishing or completed.  Both need no fault.  Submit looks at
\* the items before it publishes and at the batch's status only afterwards: apart from
\* that status nothing refuses the write of a call that is alone.
RepublishedForCause ==
  ~disturbed /\ ~overlapped =>
    /\ \A i \in Items : vendor[i] > 1 => i \in doubtful \cup dropped
    /\ dropped # {} => batch \in {"publishing", "completed"}

\* One call after the other, the statuses follow their tables: a published item and a
\* completed batch stay what they are, and a batch becomes completed only when what
\* the user had ticked is published.
BatchMoves ==
  [draft |-> {"review_ready", "partial_failed", "completed"},
   review_ready |-> {"partial_failed", "completed"},
   partial_failed |-> {"publishing", "completed"}, publishing |-> {"completed"},
   completed |-> {}, deleted |-> {}]
StatusesMoveForward ==
  [][~overlapped' =>
       /\ batch' \in {batch, "deleted"} \cup BatchMoves[batch]
       /\ \A i \in Items : item[i] = "published" => item'[i] \in {"published", "deleted"}
       /\ batch # "completed" /\ batch' = "completed" /\ ~disturbed'
            => \A i \in selected \cap Live : item'[i] = "published"]_vars
=============================================================================
