------------------------ MODULE ProviderInvocation -------------------------
(***************************************************************************)
(* The durable provider call of one node of one job.  Its idempotency key  *)
(* belongs to the job, so every run of the job and every activity attempt  *)
(* of a run meets the rows the earlier ones left.  A thread makes one call *)
(* and then merges its in-memory copies with the node's snapshot.          *)
(*                                                                         *)
(* Left out: calls without a durable key, fallback keys of an older key    *)
(* scheme, adapters that support idempotent submits (no adapter does), and *)
(* succeeded rows from before result_payload (one without a payload can    *)
(* still come from a snapshot).                                            *)
(***************************************************************************)
EXTENDS ProviderLimiter, Sequences

CONSTANTS
  MaxRun,   \* bound on runs of the job: the first one and its resumes
  MaxRows   \* bound on invocation rows under the key

ASSUME RunsAssumption == MaxRun \in Nat \ {0}
ASSUME RowsAssumption == MaxRows \in Nat \ {0}

Runs == 1..MaxRun
Rows == 1..MaxRows
Rank == [absent |-> -1, prepared |-> 0, submitted |-> 1, polling |-> 2,
         succeeded |-> 3, failed |-> 3, timed_out |-> 3]
Terminal == {"succeeded", "failed", "timed_out"}
Usages == {"none", "unbilled", "billed"}
Pcs == {"idle", "load", "create", "check", "recover", "refresh", "slot", "vendor",
        "accepted", "poll", "finalize", "replay", "reopen", "sync"}

VARIABLES
  adapter,    \* "sync": the submit returns the result; "polling": a task id first
  row,        \* provider_invocations, in the order of their insertion
  live,       \* the row that holds the key, 0 before the first one
  accepted,   \* per row, the vendor tasks that were accepted under it
  caller,     \* per thread: where it is, its run, the row it works on, whether it
              \* resumes a task, how the call went, and its copies
  outcome,    \* per run: "open", "failed" or "succeeded"
  lost,       \* rows whose media the store has collected
  overlapped  \* two attempts were once at work together

callVars == <<row, live, accepted, caller>>
runVars == <<adapter, outcome, lost, overlapped>>
vars == <<callVars, runVars, limiterVars, faults>>

NoRow == [st |-> "absent", run |-> 0, task |-> FALSE, aged |-> FALSE,
          payload |-> FALSE, bills |-> 0]
NoCopy == [st |-> "none", task |-> FALSE, usage |-> "none"]
Idle == [pc |-> "idle", run |-> 0, at |-> 0, resume |-> FALSE, result |-> "none",
         copy |-> [i \in Rows |-> NoCopy]]

TypeOK ==
  /\ LimiterType
  /\ adapter \in {"sync", "polling"}
  /\ row \in [Rows -> [st : DOMAIN Rank, run : 0..MaxRun, task : BOOLEAN,
                       aged : BOOLEAN, payload : BOOLEAN, bills : Nat]]
  /\ live \in 0..MaxRows
  /\ accepted \in [Rows -> Nat]
  /\ caller \in [Callers -> [pc : Pcs, run : 0..MaxRun, at : 0..MaxRows,
                             resume : BOOLEAN, result : {"none", "ok", "error", "kept"},
                             copy : [Rows -> [st : {"none"} \cup DOMAIN Rank, task : BOOLEAN,
                                              usage : Usages]]]]
  /\ outcome \in [Runs -> {"open", "failed", "succeeded"}]
  /\ lost \in SUBSET Rows /\ overlapped \in BOOLEAN

Init ==
  /\ LimiterInit /\ faults = 0
  /\ adapter \in {"sync", "polling"}
  /\ row = [i \in Rows |-> NoRow] /\ live = 0 /\ accepted = [i \in Rows |-> 0]
  /\ caller = [c \in Callers |-> Idle]
  /\ outcome = [r \in Runs |-> "open"]
  /\ lost = {} /\ overlapped = FALSE

-----------------------------------------------------------------------------
(* Helpers. *)

\* The status, task and usage a copy of row i has when it is read.
CopyOf(i) == [st |-> row[i].st, task |-> row[i].task, usage |-> "none"]

\* The thread goes to pc for row i; its copy of that row becomes k.
GoTo(c, pc, i) == caller' = [caller EXCEPT ![c].pc = pc, ![c].at = i]
GoWith(c, pc, i, k) ==
  caller' = [caller EXCEPT ![c].pc = pc, ![c].at = i, ![c].copy[i] = k]
Resume(c, i) ==
  caller' = [caller EXCEPT ![c].pc = "slot", ![c].at = i, ![c].resume = TRUE,
                           ![c].copy[i] = CopyOf(i)]
Return(c, res) == caller' = [caller EXCEPT ![c].pc = "sync", ![c].result = res]

\* The insert of a prepared row, which takes the key.
Opened(r, old) == [old EXCEPT ![Cardinality({i \in Rows : old[i].st # "absent"}) + 1] =
                     [NoRow EXCEPT !.st = "prepared", !.run = r]]
RoomForRow == row[MaxRows].st = "absent"
LastRow == CHOOSE i \in Rows \cup {0} :
             /\ i # 0 => row[i].st # "absent"
             /\ \A j \in Rows : j > i => row[j].st = "absent"

Current(r) == outcome[r] = "open" /\ \A q \in 1..(r - 1) : outcome[q] = "failed"
Busy == {c \in Callers : caller[c].pc # "idle"}

-----------------------------------------------------------------------------
(* The call up to the vendor. *)

\* An attempt of the current run reaches its provider call.  A second attempt next
\* to one of the same run follows an activity timeout; an attempt of a run that
\* is over may still be at work.
Begin(c, r) ==
  /\ caller[c].pc = "idle" /\ Current(r)
  /\ IF \E d \in Busy : caller[d].run = r THEN Fault ELSE UNCHANGED faults
  /\ overlapped' = (overlapped \/ Busy # {})
  /\ caller' = [caller EXCEPT ![c] = [Idle EXCEPT !.pc = "load", !.run = r]]
  /\ UNCHANGED <<adapter, row, live, accepted, outcome, lost, limiterVars>>

\* _invoke_durable and _recover_existing: what the thread does with the row it found.
Load(c) ==
  /\ caller[c].pc = "load"
  /\ LET st == IF live = 0 THEN "absent" ELSE row[live].st IN
       \/ st = "absent" /\ GoTo(c, "create", 0)
       \/ st = "prepared" /\ GoWith(c, "check", live, CopyOf(live))
       \/ st = "submitted" /\ GoTo(c, "recover", live)
       \/ st = "polling" /\ Resume(c, live)
       \/ st = "succeeded" /\ GoTo(c, "replay", live)
       \/ /\ st \in {"failed", "timed_out"}
          /\ IF row[live].run # caller[c].run
             THEN GoTo(c, "reopen", live) ELSE Return(c, "error")
  /\ UNCHANGED <<row, live, accepted, runVars, limiterVars, faults>>

\* get_or_create: the insert; the read that follows is Load again.
GetOrCreate(c) ==
  /\ caller[c].pc = "create"
  /\ IF live = 0
     THEN row' = Opened(caller[c].run, row) /\ live' = 1
     ELSE UNCHANGED <<row, live>>
  /\ GoTo(c, "load", 0)
  /\ UNCHANGED <<accepted, runVars, limiterVars, faults>>

\* _fail_before_submit: validation, budget or circuit breaker.
FailBeforeSubmit(c) ==
  /\ caller[c].pc = "check"
  /\ LET i == caller[c].at IN
       /\ row' = IF row[i].st = "prepared"
                 THEN [row EXCEPT ![i].st = "failed", ![i].aged = FALSE] ELSE row
       /\ caller' = [caller EXCEPT ![c].pc = "sync", ![c].result = "error",
                                   ![c].copy[i].st = "failed"]
  /\ UNCHANGED <<live, accepted, runVars, limiterVars, faults>>

\* A claim that does not look at the status it replaces: mutant of ClaimSubmit.
ClaimAnyway(c) ==
  /\ caller[c].pc = "check"
  /\ LET i == caller[c].at IN
       /\ row' = IF row[i].st \in {"prepared", "submitted"}
                 THEN [row EXCEPT ![i].st = "submitted", ![i].aged = FALSE] ELSE row
       /\ caller' = [caller EXCEPT ![c].pc = "slot", ![c].resume = FALSE,
                                   ![c].copy[i].st = "submitted"]
  /\ UNCHANGED <<live, accepted, runVars, limiterVars, faults>>

\* claim_submit: the winner goes on to the vendor, the loser to _recover_submitted.
ClaimSubmit(c) ==
  /\ caller[c].pc = "check"
  /\ LET i == caller[c].at IN
       IF row[i].st = "prepared"
       THEN /\ row' = [row EXCEPT ![i].st = "submitted", ![i].aged = FALSE]
            /\ caller' = [caller EXCEPT ![c].pc = "slot", ![c].resume = FALSE,
                                        ![c].copy[i].st = "submitted"]
       ELSE row' = row /\ GoTo(c, "recover", i)
  /\ UNCHANGED <<live, accepted, runVars, limiterVars, faults>>

\* _recover_submitted after its bounded wait: it acts on the row that holds the key
\* now.  A young submitted row is left to its holder, this caller only gets an error.
RecoverSubmitted(c) ==
  /\ caller[c].pc = "recover"
  /\ \/ row[live].st = "polling" /\ Resume(c, live) /\ UNCHANGED row
     \/ row[live].st = "succeeded" /\ GoTo(c, "replay", live) /\ UNCHANGED row
     \/ row[live].st \in {"failed", "timed_out"} /\ Return(c, "error") /\ UNCHANGED row
     \/ /\ row[live].st \in {"prepared", "submitted"} /\ ~row[live].aged
        /\ Return(c, "error") /\ UNCHANGED row
     \/ /\ row[live].st \in {"prepared", "submitted"} /\ row[live].aged
        /\ GoTo(c, "refresh", live) /\ UNCHANGED row
  /\ UNCHANGED <<live, accepted, runVars, limiterVars, faults>>

\* _submit_outcome_unknown on a stale row: the terminal write, conditional on the
\* status at that moment, and the copy of whatever holds the key then.
SubmitOutcomeUnknown(c) ==
  /\ caller[c].pc = "refresh"
  /\ LET i == caller[c].at IN
       /\ row' = IF row[i].st \in Terminal THEN row
                 ELSE [row EXCEPT ![i].st = "timed_out", ![i].aged = FALSE]
       /\ caller' = [caller EXCEPT ![c].pc = "sync", ![c].result = "error",
                       ![c].copy[live] = [st |-> row'[live].st, task |-> row[live].task,
                                          usage |-> "none"]]
  /\ UNCHANGED <<live, accepted, runVars, limiterVars, faults>>

-----------------------------------------------------------------------------
(* At the vendor, inside a slot. *)

InVendor(c) == caller[c].pc \in {"vendor", "accepted", "poll"}

\* provider_slot: after the claim, so a submitted row may wait here for long.
AcquireSlot(c) ==
  /\ caller[c].pc = "slot"
  /\ TakeLease(c) \/ TakePermit(c)
  /\ GoTo(c, IF caller[c].resume THEN "poll" ELSE "vendor", caller[c].at)
  /\ UNCHANGED <<row, live, accepted, runVars, faults>>

\* The thread deals with a limiter that has lost Redis, or loses it.
LimiterTrouble(c) ==
  /\ caller[c].pc = "slot"
  /\ GoLocal(c) \/ Reconnect(c) \/ AcquireFails(c)
  /\ UNCHANGED <<callVars, runVars>>

Answer(c, res) == caller' = [caller EXCEPT ![c].pc = "finalize", ![c].result = res]

\* The submit is refused, or accepted and its answer is lost.
SubmitFails(c) ==
  /\ caller[c].pc = "vendor"
  /\ Answer(c, "error")
  /\ \/ LeaveSlot(c) /\ UNCHANGED accepted
     \/ /\ Fault /\ ReleaseSlot(c)
        /\ accepted' = [accepted EXCEPT ![caller[c].at] = @ + 1]
  /\ UNCHANGED <<row, live, runVars>>

\* The submit is accepted.
SubmitAccepted(c) ==
  /\ caller[c].pc = "vendor"
  /\ accepted' = [accepted EXCEPT ![caller[c].at] = @ + 1]
  /\ GoTo(c, IF adapter = "polling" THEN "accepted" ELSE "poll", caller[c].at)
  /\ UNCHANGED <<row, live, runVars, limiterVars, faults>>

\* A mark_polling that publishes the status before the task: mutant of MarkPolling.
MarkPollingNoTask(c) ==
  /\ caller[c].pc = "accepted"
  /\ LET i == caller[c].at IN
       /\ row' = IF row[i].st = "submitted" THEN [row EXCEPT ![i].st = "polling", ![i].aged = FALSE] ELSE row
       /\ GoWith(c, "poll", i, [caller[c].copy[i] EXCEPT !.st = "polling", !.task = TRUE])
  /\ UNCHANGED <<live, accepted, runVars, limiterVars, faults>>

\* mark_polling: a row that is no longer submitted stays as it is, the copy does not.
MarkPolling(c) ==
  /\ caller[c].pc = "accepted"
  /\ LET i == caller[c].at IN
       /\ row' = IF row[i].st = "submitted"
                 THEN [row EXCEPT ![i].st = "polling", ![i].task = TRUE, ![i].aged = FALSE]
                 ELSE row
       /\ GoWith(c, "poll", i, [caller[c].copy[i] EXCEPT !.st = "polling", !.task = TRUE])
  /\ UNCHANGED <<live, accepted, runVars, limiterVars, faults>>

\* The wait for the result ends; "kept" is a failure with preserve_polling.
CollectResult(c) ==
  /\ caller[c].pc = "poll"
  /\ \E res \in {"ok", "error", "kept"} : Answer(c, res)
  /\ LeaveSlot(c)
  /\ UNCHANGED <<row, live, accepted, runVars>>

\* Status and bill without the result: mutant of FinalizeSuccess.
FinalizeWithoutPayload(c) ==
  /\ caller[c].pc = "finalize" /\ caller[c].result = "ok"
  /\ LET i == caller[c].at
         first == row[i].st \notin Terminal IN
       /\ row' = IF first THEN [row EXCEPT ![i].st = "succeeded", ![i].bills = @ + 1,
                                           ![i].aged = FALSE] ELSE row
       /\ GoWith(c, "sync", i, [caller[c].copy[i] EXCEPT !.st = "succeeded",
                                  !.usage = IF first THEN "billed" ELSE "unbilled"])
  /\ UNCHANGED <<live, accepted, runVars, limiterVars, faults>>

\* A success that leaves the bill to the snapshot: mutant of FinalizeSuccess.
FinalizeUnbilled(c) ==
  /\ caller[c].pc = "finalize" /\ caller[c].result = "ok"
  /\ LET i == caller[c].at
         first == row[i].st \notin Terminal IN
       /\ row' = IF first THEN [row EXCEPT ![i].st = "succeeded", ![i].payload = TRUE,
                                           ![i].aged = FALSE] ELSE row
       /\ GoWith(c, "sync", i, [caller[c].copy[i] EXCEPT !.st = "succeeded",
                                  !.usage = "unbilled"])
  /\ UNCHANGED <<live, accepted, runVars, limiterVars, faults>>

\* _finalize_success with mark_succeeded: status, payload and bill in one transaction,
\* unless the row is terminal already.
FinalizeSuccess(c) ==
  /\ caller[c].pc = "finalize" /\ caller[c].result = "ok"
  /\ LET i == caller[c].at
         first == row[i].st \notin Terminal IN
       /\ row' = IF first THEN [row EXCEPT ![i].st = "succeeded", ![i].payload = TRUE,
                                           ![i].bills = @ + 1, ![i].aged = FALSE] ELSE row
       /\ GoWith(c, "sync", i, [caller[c].copy[i] EXCEPT !.st = "succeeded",
                                  !.usage = IF first THEN "billed" ELSE "unbilled"])
  /\ UNCHANGED <<live, accepted, runVars, limiterVars, faults>>

\* _finalize_failure: a kept task stays polling, anything else is terminal unless it
\* was terminal before.
FinalizeFailure(c) ==
  /\ caller[c].pc = "finalize" /\ caller[c].result # "ok"
  /\ LET i == caller[c].at
         kept == caller[c].result = "kept" /\ caller[c].copy[i].st = "polling" IN
       \E st \in {"failed", "timed_out"} :
         /\ row' = IF kept \/ row[i].st \in Terminal THEN row
                   ELSE [row EXCEPT ![i].st = st, ![i].aged = FALSE]
         /\ caller' = [caller EXCEPT ![c].pc = "sync", ![c].result = "error",
                                     ![c].copy[i].st = IF kept THEN @ ELSE st]
  /\ UNCHANGED <<live, accepted, runVars, limiterVars, faults>>

-----------------------------------------------------------------------------
(* Recovery of a finished call, and the end of the attempt. *)

\* _replay_completed: the stored result, a rejection when there is none, a new
\* submit when its media is gone.
Replay(c) ==
  /\ caller[c].pc = "replay"
  /\ LET i == caller[c].at IN
       IF ~row[i].payload THEN Return(c, "error")
       ELSE IF i \in lost THEN GoTo(c, "reopen", i)
       ELSE caller' = [caller EXCEPT ![c].pc = "sync", ![c].result = "ok",
                         ![c].copy[i] = [CopyOf(i) EXCEPT !.usage = "billed"]]
  /\ UNCHANGED <<row, live, accepted, runVars, limiterVars, faults>>

\* reopen: the superseded row gives up the key and a prepared one takes it.  When
\* somebody reopened it first the unique index refuses and the attempt dies (as it
\* does here at the bound MaxRows).
Reopen(c) ==
  /\ caller[c].pc = "reopen"
  /\ IF live = caller[c].at /\ RoomForRow
     THEN /\ row' = Opened(caller[c].run, row) /\ live' = LastRow + 1
          /\ GoWith(c, "check", live', [NoCopy EXCEPT !.st = "prepared"])
     ELSE UNCHANGED <<row, live>> /\ caller' = [caller EXCEPT ![c] = Idle]
  /\ UNCHANGED <<accepted, runVars, limiterVars, faults>>

\* A merge that trusts the copy: mutant of Merged.
MergedBlindly(r, k) ==
  [r EXCEPT !.st = k.st, !.task = k.task,
            !.bills = IF k.usage = "unbilled" THEN @ + 1 ELSE @]

\* _preserve_durable_invocation_progress and the merge of one copy over its row.
Merged(r, k) ==
  [r EXCEPT !.st = IF Rank[k.st] < Rank[r.st] THEN @ ELSE k.st,
            !.task = IF Rank[k.st] < Rank[r.st] THEN @ ELSE k.task,
            !.bills = IF k.usage = "unbilled" THEN @ + 1 ELSE @]

\* The node's snapshot takes the copies of the rows that belong to its run, and with
\* them their usage.  A copy of a row that lost the key would take the key back: the
\* unique index refuses the whole snapshot and the attempt dies.
Copied(c) == {i \in Rows : caller[c].copy[i].st # "none" /\ row[i].run = caller[c].run}

SyncCall(c) ==
  /\ caller[c].pc = "sync"
  /\ IF Copied(c) \subseteq {live}
     THEN /\ row' = [i \in Rows |-> IF i \in Copied(c) THEN Merged(row[i], caller[c].copy[i])
                                                       ELSE row[i]]
          /\ \E o \in {"failed", "succeeded"} :
               /\ o = "succeeded" => caller[c].result = "ok"
               /\ outcome' = [outcome EXCEPT ![caller[c].run] = IF @ = "open" THEN o ELSE @]
     ELSE UNCHANGED <<row, outcome>>
  /\ caller' = [caller EXCEPT ![c] = Idle]
  /\ UNCHANGED <<live, accepted, adapter, lost, overlapped, limiterVars, faults>>

\* An exception (a lost connection) unwinds the attempt: it leaves its slot.
AttemptDies(c) ==
  /\ Fault
  /\ caller[c].pc # "idle"
  /\ caller' = [caller EXCEPT ![c] = Idle]
  /\ ReleaseSlot(c)
  /\ UNCHANGED <<row, live, accepted, runVars>>

\* The worker process is killed: all its threads, its semaphore and its client.
Crash ==
  /\ Fault
  /\ caller' = [c \in Callers |-> Idle]
  /\ LoseSlots
  /\ UNCHANGED <<row, live, accepted, runVars>>

\* The workflow gives a run up (its attempts are used up, or another node failed)
\* while attempts of it may be at work.
RunFails(r) ==
  /\ Fault
  /\ Current(r) /\ \E c \in Busy : caller[c].run = r
  /\ outcome' = [outcome EXCEPT ![r] = "failed"]
  /\ UNCHANGED <<callVars, adapter, lost, overlapped, limiterVars>>

\* More than twice the provider's timeout passes over a row that waits.
RowAges(i) ==
  /\ i = live /\ row[i].st \in {"prepared", "submitted"} /\ ~row[i].aged
  /\ row' = [row EXCEPT ![i].aged = TRUE]
  /\ UNCHANGED <<live, accepted, caller, runVars, limiterVars, faults>>

\* The store collects the media of a failed run; only while a new row fits the bound.
EvictMedia(i) ==
  /\ row[i].payload /\ outcome[row[i].run] = "failed" /\ i \notin lost
  /\ RoomForRow
  /\ lost' = lost \cup {i}
  /\ UNCHANGED <<callVars, adapter, outcome, overlapped, limiterVars, faults>>

LimiterStep ==
  /\ LeakedLeaseAges \/ \E c \in Callers : LeaseAges(c)
  /\ UNCHANGED <<callVars, runVars>>

Advance(c) ==
  \/ Load(c) \/ GetOrCreate(c) \/ FailBeforeSubmit(c) \/ ClaimSubmit(c)
  \/ RecoverSubmitted(c) \/ SubmitOutcomeUnknown(c)
  \/ AcquireSlot(c) \/ LimiterTrouble(c)
  \/ SubmitFails(c) \/ SubmitAccepted(c) \/ MarkPolling(c) \/ CollectResult(c)
  \/ FinalizeSuccess(c) \/ FinalizeFailure(c)
  \/ Replay(c) \/ Reopen(c) \/ SyncCall(c)

Next ==
  \/ \E c \in Callers : Advance(c) \/ AttemptDies(c) \/ \E r \in Runs : Begin(c, r)
  \/ Crash
  \/ \E r \in Runs : RunFails(r)
  \/ \E i \in Rows : RowAges(i) \/ EvictMedia(i)
  \/ LimiterStep

Spec == Init /\ [][Next]_vars

\* A thread that runs keeps running; a leaked lease ages.
Fairness ==
  /\ \A c \in Callers : WF_vars(Advance(c))
  /\ WF_vars(LimiterStep /\ LeakedLeaseAges)

FairSpec == Spec /\ Fairness

-----------------------------------------------------------------------------
(* Properties. *)

Purchase == INSTANCE PurchaseContract WITH
  openings <- [i \in {j \in Rows : row[j].st # "absent"} |->
                 [run |-> row[i].run, settled |-> row[i].st \in Terminal, lost |-> i \in lost,
                  bought |-> accepted[i]]]

\* provider_gateway.py promises that no call is paid twice in silence: the rows follow
\* PurchaseContract whatever attempts overlap, crash or come late.  claim_submit has one
\* winner per row, a resume only polls, no snapshot brings a claimed row back to
\* prepared, and a new row needs a settled one and a reason.
ImplementsPurchases == Purchase!ContractSpec

\* "a snapshot must not roll the durable status backwards": no step of anybody lowers
\* the rank of a row, so a row that was sent to the vendor is never sent again.
ForwardOnly == [][\A i \in Rows : Rank[row'[i].st] >= Rank[row[i].st]]_vars

\* A polling row can always be resumed: it has its task id, however the copies of
\* several threads are merged over it (_resume_polling's fallback is never taken).
PollingKeepsTask == \A i \in Rows : row[i].st = "polling" => row[i].task

\* mark_succeeded: money spent shows up in the bill with the result that was bought,
\* and nobody is billed for a task the vendor did not accept.
BillsMatchPurchases ==
  \A i \in Rows : /\ row[i].payload => row[i].bills >= 1
                  /\ row[i].bills >= 1 => accepted[i] = 1

\* As long as no two attempts were ever at work together, crashes and resumes leave
\* every success replayable and billed exactly once.
ReplayableWithoutOverlap ==
  ~overlapped =>
    \A i \in Rows : /\ row[i].st = "succeeded" <=> row[i].payload
                    /\ row[i].bills = (IF row[i].payload THEN 1 ELSE 0)

\* The vendor sees at most max_inflight calls under leases and, while Redis is away,
\* at most as many under permits; only a call that outlasts its lease is on top.
InflightBounded ==
  /\ Inflight <= MaxInflight /\ Cardinality(permits) <= MaxInflight
  /\ \A c \in Callers : InVendor(c) <=> lease[c] # "none" \/ c \in permits

\* A call comes back, with a result, an error or the death of its attempt, although
\* leases leak and the limiter changes sides.
CallReturns == \A c \in Callers : caller[c].pc # "idle" ~> caller[c].pc = "idle"
=============================================================================
