# Verification of the durable workflow core

This directory holds TLA+ models of the program's concurrent core, TLC
configurations that check them on small instances, and TLAPS proofs that hold
for every value of the constants. Paths below are relative to the repository;
`PROJECT.json` maps every definition to the lines it stands for.

## 1. The system

A user submits video jobs through a FastAPI process. A job is executed as one or
more *workflow runs*, each a fixed sequence of nodes (script, materials, speech,
planning, rendering, export). In production a run is a Temporal workflow; its
activities run in threads of a worker process, and everything durable is in
Postgres. The program must survive the death of any process, lost calls to
Temporal, provider calls that cost money and must not be made twice, and users
who cancel at any moment.

### Inventory

For each part: where it is, what state it keeps, how it interacts, what is hard,
and what makes it correct.

**Run lifecycle under Temporal**
(`packages/core/workflow/temporal_adapter.py`, `packages/production/pipeline/digital_human.py`,
`packages/production/sqlalchemy_repository.py`, `apps/api/services/jobs_runs.py`,
`packages/core/contracts/state_machines.py`).
State: `workflow_runs`, `jobs`, `node_runs`, the in-memory repository of the API
and of each activity, the workflow's own position. Operations: submit, start,
compensate, request cancellation, signal, hydrate, run a node, apply a reuse
plan, mark started/cancelled/failed, sync a snapshot, reconcile. Hard: every
process works on a *copy* and writes the whole copy back later; an attempt that
timed out goes on executing beside its successor; the fence of a cancellation
and its signal travel on different paths. Correct when: nothing commits behind
the fence, success is complete, outcomes are final, closed workflows leave
settled rows, cancellation arrives.

**Case admission** (same adapter; `admit_case_runs` and the admission queries of
`sqlalchemy_repository.py`). State: the admitted rows of a case, an advisory
lock, row locks, the controller workflow with its poke flag and idle exit.
Operations: queue, poke, count/select/mark, start, idle exit, recovery scan.
Hard: selection and mark are different transactions, pokes race the idle exit,
attempts of one activity overlap. Correct when: the cap and the order hold, no
admitted run waits for ever, no slot is lost, the controller stops polling.

**Worker process** (`apps/worker`): thread pool, admission and cancellation
recovery loops, upload recovery loop, drain on shutdown. Hard: crash between any
two steps, the scan limits of 100.

**Resume and reuse planning** (`packages/production/pipeline`,
`packages/core/workflow`): chooses the prefix of nodes a new run may reuse.
Correct when: a reused prefix is one whose artifacts are valid.

**Local runtime adapter** (`packages/core/workflow`): sequential execution for
development and tests; no concurrency of its own.

**Provider gateway and durable invocations** (`packages/ai/gateway`). State:
`provider_invocations` rows (prepared, submitted, polling and terminal) under a
key that belongs to the job, and the in-memory copies that a node's snapshot merges
over them. Operations: get-or-create, claim, submit, mark polling, finalize, recover
a stale row, reopen, replay, merge. Hard: a crash between the vendor call and the
row; a live holder judged stale by the age of the row; two reopeners; attempts of an
old run next to those of a new one. Correct when: a row is paid at most once, a new
row has a reason, rows only move forward, bills match purchases.

**Provider limiter** (`packages/ai/gateway/provider_limiter.py`). State: leases in a
Redis sorted set with a lifetime of 30 s, a local semaphore when Redis is away. Hard: a
lease is never renewed, degraded and connected periods overlap, releases fail.
Correct when: leases and permits stay within `max_inflight`, and calls come back.

**Uploads** (`packages/core/storage/sqlalchemy_uploads.py`,
`packages/media/upload_reconciler.py`, `apps/api/services/uploads.py`). State:
session status, lease owner and deadline, retries and backoff, staging and final
object, artifact, thumbnail. Hard: leases expire under their holder, two methods
read before they lock, cancel or expiry against promotion. Correct when: what is ready is
registered and served, sound uploads are rejected only for a known cause, removed ones leave nothing,
every upload settles.

**Selection reservations** (`sqlalchemy_repository.py`,
`packages/core/storage/repository.py`). State: leases of runs on assets, with a partial unique
index over the reserved ones, and the copies of them in each snapshot. Operations: hydrate, reserve,
commit, release, expire. Hard: nobody renews a lease, snapshots carry old copies,
the fence lets only releases pass. Correct when: runs under way plan with different
assets, ended runs block nobody, committed leases stay.

**Publishing batches** (`packages/publishing/sqlalchemy_repository.py`). State: batch,
items, attempts, and what the vendor has published. Operations: submit (two
transactions around an unlocked window), dry run, retry, select, delete. Hard: no row is
locked or versioned, and submit checks the batch's status only after it has published.
Correct when: recorded publications are real, a real one without a record has a known
reason, an item goes out again only for one of these reasons.

**Outbox and event hub** (`packages/core/observability/events.py`): at-least-once
dispatch, cursor replay, Redis subscription that may be lost.

**Browser upload manager** (`apps/web/src/uploads`), **object store and signed
URL cache**, **authentication and rate limiting** (`packages/core/auth`),
**budgets and circuit breaker** (`packages/ops`), **planning and editing
algorithms** (`packages/planning`), **media processing** (`packages/media`),
**prompts, providers and creative content**, **HTTP routers**, **web client**,
**deployment, scripts, migrations**: listed with their status and the reason in
`PROJECT.json`. The pure parts are candidates for checks against a reference
definition; the rest is I/O, rendering or configuration.

### How the parts interact

    browser -> API --(rows)--> Postgres <--(snapshots)-- activity threads
                |                  ^                        ^
                | start / signal   | scans                  | claims, heartbeats
                v                  |                        |
             Temporal <---- worker loops          run workflow, case controller

The API writes rows first and calls Temporal second; a lost call is repaired by a
worker loop that scans the rows. A controller workflow per case starts batch
runs. An activity hydrates a copy of the run, works, and syncs the copy back;
the sync protects durable rows by the guards of `_preserve_terminal_workflow_run`
and `_preserve_durable_job`. Activities call providers through the gateway and
reserve materials in the ledger.

## 2. Modules

| module | content |
|---|---|
| `RunContract` | abstract: what the rows of one run promise to their readers |
| `RunLifecycle` | one run, its job, its workflow, activities, API requests, worker loops |
| `MCRunLifecycle` | symmetry for TLC |
| `RunLifecycleProofs` | inductive invariants, type correctness, completeness, fence order, implementation of `RunContract`, the job goes with its run, a closed workflow has ended its run |
| `CaseAdmission` | the queue of one case, its controller and overlapping admission attempts |
| `MCCaseAdmission` | symmetry for TLC |
| `CaseAdmissionProofs` | inductive invariant, type correctness, every running row has a workflow; without faults the cap holds and the order is kept |
| `PurchaseContract` | abstract: what the gateway promises about money for one call of a job |
| `ProviderLimiter` | the slots of one concurrency key: leases in Redis, permits of the process |
| `ProviderInvocation` | extends `ProviderLimiter`: the durable rows of one call, over runs and attempts |
| `ProviderInvocationProofs` | type correctness, the purchase contract, forward-only rows, bills, tasks, slot bounds |
| `ProviderReplayProofs` | a success can be replayed and is billed once, while attempts do not overlap |
| `Uploads` | one upload: requests, reconciler, worker scans, objects, leases |
| `UploadsProofs` | type correctness, ready uploads are served, the status follows its table |
| `UploadOutcomesProofs` | a removed upload leaves nothing behind; with one worker process a sound upload is rejected only for an interrupted media tool |
| `SelectionLeases` | the leases that several runs of a case take on its material |
| `MCSelectionLeases` | symmetry for TLC |
| `SelectionLeasesProofs` | inductive invariant, type correctness, packs are disjoint, ended runs hold nothing, commits stand |
| `PublishBatch` | one publishing batch with overlapping submits, retries and edits |
| `MCPublishBatch` | symmetry for TLC |
| `PublishBatchProofs` | inductive invariant, type correctness, records match the vendor, an item is published again only for cause, statuses follow their tables |

`CaseAdmission` keeps of a run only what admission reads; its `RunEnds` stands
for `RunLifecycle`, whose property `WorkflowCloses` is the reason that
`CaseAdmission` may assume it to be fair. Conversely `AdmitRun`,
`AdmissionStartsWorkflow` and `AdmissionMarksRunStarted` of `RunLifecycle` are
the admission of `CaseAdmission` as far as it touches one run.

### RunLifecycle

*State.* `runStatus`, `cancelMode`, `jobStatus` are the columns; `committed` is
the set of nodes with a succeeded, degraded or skipped node run. `apiRun` and
`apiJob` are the API process's copies, `submit` and `cancel` its requests in
flight. `wf` is the workflow execution: open or closed, the awaited step, its
node, the attempt and the thread that holds it, the reuse plan, whether a cancel
signal arrived. Each `thread` keeps kind, position, copied statuses and nodes,
and its result.

*Transactions.* Each transaction that changes run rows locks the run row first
(`SELECT ... FOR UPDATE`), so it is one action. Hydration takes no lock: the run
and job rows are read by two adjacent primary-key reads (`HydrateRun`), the node
runs many queries later (`HydrateNodes`); anything may be committed in between.
What one transaction reads and a later one uses is in the process's copy.

*Synchronisation.* Under Temporal no per-node snapshot is configured, so a copy is
written once, at the end of the activity (`SyncActivity`), with the guards of the
repository in `SyncedRun`, `SyncedJob` and `SyncedNodes`. The transition check of the
domain tables happens on the copy, as in the code, so the tables bind a process
and not the database.

*Temporal* is external and modelled as the code uses it: a workflow with an id
that is open cannot be started again, a closed id can; a signal to a closed
execution fails; an activity that was asked to cancel is not retried; one that
nobody claimed is cancelled at once; a timed-out attempt's thread goes on as a
zombie whose result is ignored and whose snapshot is not. A start or signal call
that fails may or may not have reached the server.

*Faults.* `MaxFaults` bounds worker and API crashes, lost calls, timeouts, and
activity errors, all together.

*Left out, and why.* Statuses draft, created and archived are not reached by the
processes modelled here. A reuse plan has at most N - 1 nodes: every
template ends with `FinalizeRunReport`, whose side effect `ledger_commit` stops the
planner (`packages/production/pipeline/reuse.py:86`). The nodes' work, their artifacts, provider calls and
reservations are abstracted to the outcome of `ExecuteNode`. Deleting a run and
further runs of the same job are future work (section 6).

### CaseAdmission

*State.* Row status as admission tells it apart, the holder of each row lock
between two statements, the holder of the advisory lock, the workflow of each
run, the attempts of `admit_case_runs`, the controller, the two callers that
poke. Runs are numbered in `created_at` order.

*Statements.* Count, selection with SKIP LOCKED, the queued count and the
active count are separate actions because Postgres reads committed data per statement; a
mark is two actions (lock, commit), for the admission and for the run's own
`mark_run_started`, so that a selection can meet a locked row.

*Abstractions.* The poke flag and the 30 s timer only decide when the next cycle
begins, so they are one nondeterministic wait; `continue_as_new` is the same
loop. The three counts of the summary are used only in the test for zero, and
are kept as one flag. Connecting the client is part of the commit action. Job
row locks are left out: nobody waits for them while holding something admission needs.
Single jobs, retries and resumes do not go through admission. As the
cancellation finding of section 4 requires, `RunEnds` may leave a row in
`cancelling`, which the count does not include.

The other modules each open up something that `RunLifecycle` abstracts to an outcome:
`ProviderInvocation` and `SelectionLeases` are parts of the work of a node and of
its snapshot, and keep of a run only whether it is under way, fenced or ended;
`CaseAdmission` decides when it starts. `Uploads` and `PublishBatch` stand before and
after production.

### ProviderLimiter and ProviderInvocation

*State.* `row` are the invocation rows in the order of their insertion, `live` the
one that holds the key; `accepted` counts the vendor's tasks, which no row knows.
`caller` is a thread with its position, its run, whether it resumes a task,
and its copies of the rows. The limiter's `lease`, `leaked`, `queued`
and `permits` are the two mechanisms; `redis` is the client's state.

*Actions.* One transaction or one call to the vendor or to Redis is one action. `Load`
is the dispatch of `_invoke_durable` and `_recover_existing`; `ClaimSubmit` the
compare-and-set; `RecoverSubmitted` and `SubmitOutcomeUnknown` the wait for a
submitted row and its end; `SyncCall` the merge of the node's snapshot, by rank. The
slot is taken after the claim, as in the code, so the row ages while its holder waits.
The composition is by extension: `AcquireSlot` is an acquisition of the limiter and the
move of the thread in one step, `LeaveSlot` ends the vendor's part.

*Abstractions.* `adapter` is chosen once: synchronous or polling. Time is two facts: a
row is older than the stale limit (`aged`), a lease older than its lifetime. `Begin`
next to an attempt of the same run is a fault (an activity timeout); a new run needs
all earlier runs failed. `EvictMedia` stops at the last row so that `MaxRows` never
hides a reopening. The key belongs to one call of one node.

*Contract.* `PurchaseContract` has one entry per opening. The mapping sends every row to
an opening: its run, whether it is terminal, whether its media is gone, and
how many tasks the vendor accepted under it. Only `Open`, `Buy`, `Settle` and
`LoseMedia` exist, so a second task under an opening, an opening beside an unsettled
one, or one without a reason would be a step the contract does not have.

### Uploads

*State.* `row` is the session: status, whether a remote multipart exists, the lease
(owner, and whether it has not run out), whether the session is past its expiry
(`overdue`), retries, and whether the backoff is over (`due`). `staging`, `final`,
`artifact`, `thumbnail` are what the store and the tables hold. A thread is at one
position of a request or of a round of the reconciler.

*Actions.* A method under the row lock is one action; what reads first and writes in a
later transaction (`cancel_upload`, `sign_upload_parts`, `clear_lease`,
`mark_derivation_complete`) is two. Calls to the store are actions of their own, so a
cancellation can come between the copy and the commit. `Put` is the browser with a
url it was given earlier, also after the session has ended.

*Abstractions.* The bytes are sound or not (`valid`); size, type, hash and probe are one
verdict of `Verify`. Its other outcomes are the code's as well: an object that is missing is
rejected with the local store and an error to retry with S3, and a media tool that times out
or is killed leads to the rejection (`giveup`; `misjudged` is history and remembers it). A lease has no clock: `LeaseEnds` may happen when its thread is gone, and
as a fault under a live one. The worker's scans carry one common owner name, as
`apps/worker/main.py:90-95` configures it; `Token` makes the difference.

### SelectionLeases

*State.* `row` is the lease of each run on each asset with its expiry, in lifetimes of a
lease; `pack` the assets of the committed material pack. A thread keeps the copy it
has hydrated: its run's leases and, for planning, the expiry of the slots others hold.

*Actions.* `Begin` hydrates, `Plan` is `reserve_selection_candidates` with its rollback
and refresh, `Finalize` commits what shipped and releases the rest, `Sync` is the
snapshot with the fence of `Written`, `SyncRefused` the unique index refusing it.
`CancelRun`, `Fence`, `ReleaseDurable`, `Sync` are the four steps of the cancel request.

*Abstractions.* One medium; the planner takes every candidate it may (the code reserves
the whole candidate list, not its choice). Expiry is a sweep inside other transactions.

### PublishBatch

*State.* Statuses of batch and items, the ticked items, recorded publications
(`posted`) and the vendor's count. Each call keeps what it has read.

*Actions.* `Submit` is transaction A, `PublishItem` the window, `LoadOutcomeRows` and
`WriteOutcomes` or `Refuse` transaction B, which checks transitions on what it has read.
`Retry`, `RetryPublish` and `RetryWrite` are the one transaction of `retry_item`, split
where it calls the vendor. `Runner` is what `run_item_publish` makes of the item's accounts:
all of them have it, or the item has failed, with or without something published. This
needs no fault.

*History.* `doubtful` and `dropped` name the items whose publication no record can show:
the call was told that it failed, or the call that sent it out did not write it (refused,
rows gone, crashed, unticked in between). `disturbed` (crash, deletion, a tick under a call)
and `overlapped` name the condition under which a promise is stated. A refused write does not
disturb.

## 3. What is checked

`CHECK_DEADLOCK FALSE` everywhere: a run that has ended, or a case whose runs have
ended, stays as it is.

| run | question | instance |
|---|---|---|
| `run_safety` | do the rows keep their contract, is success complete, does the fence precede the signal, is the job of a cancelled run cancelled, is a closed run settled | 2 nodes, 2 threads, 1 cancelling client, 2 attempts of everything, 1 fault: 4.6 million states |
| `run_progress` | does every workflow close, every admitted run end, every cancel step finish | 2 nodes, 1 thread, 1 node attempt, 1 fault: 0.3 million states |
| `run_cancel_stuck` | is a cancellation always carried out (no) | 1 thread, no fault |
| `run_cancelled_stopped` | does cancelled mean stopped (no) | 1 thread, no fault |
| `run_job_reopened` | does an ended job follow its table (no) | 2 threads, 1 fault |
| `admission_safety` | does a running row always have a workflow; without faults, do cap and order hold | 3 runs, cap 2, 2 overlapping attempts, 1 fault: 1.6 million states |
| `admission_progress` | is every queued run started or ended, does the controller close | 2 runs, cap 1, 2 attempts, 1 fault |
| `admission_cap` | does the cap always hold (no) | 2 runs, cap 1, 1 attempt, 1 fault |
| `provider_calls` | do the rows keep the purchase contract, do bills match purchases, are slots bounded, does every call return | 2 threads, 1 slot, 2 runs of the job, 3 rows, 1 fault: 0.14 million states |
| `upload_sessions` | is what is ready served, is a sound upload rejected only for cause, does a removed one leave nothing, does everything settle | 2 threads, 1 worker process, 2 retries, 2 faults, both strategies, sound and unsound bytes: 0.4 million states |
| `publish_calls` | do records and publications agree, why is an item published again when calls do not overlap, do statuses follow their tables | 2 items, 2 callers, 4 calls, 2 edits, 1 crash: 4.7 million states |
| `selection_leases` | do runs plan with different assets, do ended runs block nobody, do commits stand | 2 runs, 2 threads, 2 assets, 2 lifetimes, 1 fault: 3.8 million states |

*Why these bounds.* Two threads are what a zombie and its successor need, and with
two attempts of each kind the zombie can be of any kind. Two nodes separate the
first, the last and the next node, and give a reuse plan of length 0 and 1. One
client suffices for the race of a cancellation with everything else; two clients
matter only for the mode (force is sticky), which the proof covers for any
number. `MarkAttempts` is 5 in the code and 2 here; a single fault leaves
`ClosedRunIsSettled` true for any value of it (section 5), while two faults can break it
for any value: the second is the schedule_to_close ceiling of `mark_run_failed`, which no
number of attempts survives. That is why this run allows one fault. Three
runs with a cap of two let a selection meet one counted, one locked and one
eligible row; two attempts are the given-up one and its successor.

Two provider callers are a holder and its rival, of one run or of two; one slot
makes one of them wait, three rows hold a first call, its reopening by the next run and a
reopening of that for lost media. Two upload threads are the worker and an API call, or two
calls; two retries separate a backed-off session from one that has failed; two faults
are a lost cleanup and a crash, an interrupted tool and a crash, or two lapses of a lease. `MaxWorkers = 1` is a
deployment with one worker replica; section 4 says what changes with two. Two
lifetimes let a lease run out, be taken by another run, and run out again. Four calls on
two items include submit, retry, and a pair that overlaps them; two edits untick and
tick, or delete. A third item would only repeat one of the others, because calls treat items
independently except for the two tests "all published" and "some failed".

*Fairness.* Request handlers in flight, claimed activities, workflow tasks, the
server's detection of a lost attempt, the delivery of a cancellation by
heartbeat, and the worker's two loops are weakly fair: each is a thread or a loop
that runs on, restarted with its process, or a duty of the Temporal server. Users
who cancel or queue, faults, and the outcome chosen by a node's work owe nothing.
In `CaseAdmission` the end of a run is fair because `WorkflowCloses` shows it.
In `ProviderInvocation` each thread's own steps and the ageing of leaked
leases are weakly fair: a thread runs on or dies, and Redis scores are timestamps. In
`Uploads` the steps of each thread, the end of a lease whose thread is gone and the
end of a backoff are weakly fair: they are threads and time. Strong fairness is
assumed in one place, for the worker's scan of `Uploads`: the scan repeats for ever with
a fixed period, but an API call may hold the lease at the moment of each look, and one
free moment has to be met at last. In the code calls are finite in number, so the scan
meets such a moment.

*Sensitivity.* For each property, `PROJECT.json` lists a plausible mistake in the
code (an unfenced sync, a missing reconciliation, an off-by-one in the resumed
index, a wake-up that forgets to reset, …) under which its run fails. The
mistaken operators stand next to the definitions they replace.

## 4. Where the code and its documentation part

Each is a behaviour that TLC found in the model and that was traced back in the source;
`PROJECT.json` quotes the lines.

1. *A cancellation can be forgotten* (`run_cancel_stuck`, no fault). The fence is
   written while the last activity completes. Its snapshot is kept at
   `cancelling`, but the workflow looks at the activity's in-memory result and
   returns. Every signal then fails, and the run stays `cancelling` for ever,
   although the worker scans it again and again.
2. *Cancelled while running* (`run_cancelled_stopped`, no fault). The submit
   request syncs its own copy, still `admitted`, after the start call; it can
   overwrite `running`. A cancellation then takes the run for one that never
   started, and writes `cancelled` while a node executes.
3. *An ended job runs again* (`run_job_reopened`). A start call that failed at the
   client but reached the server is compensated to failed; the activity's late
   snapshot leaves the run failed and writes its job copy, `running`, over the
   failed job.
4. *The cap is not atomic* (`admission_cap`). After a crash between the start of a
   run and its mark, the next selection counts the row as admitted, skips it
   because the run's own workflow holds its lock, and admits another one.

Further behaviours of the newer modules, seen in the model and traced in the code. They
are not asserted by a run: the properties are stated with the condition under which
they hold.

*Provider calls.* A copy with a terminal status replaces a durable terminal status of
equal rank, so a snapshot may turn `succeeded` into `failed` or the reverse (`ForwardOnly`
is about ranks; `ReplayableWithoutOverlap` needs attempts that do not overlap), and
a copy that failed before its submit is merged over a row that another attempt has in
flight, although the docstring at `sqlalchemy_repository.py:2745` says a snapshot
never rolls durable progress back. The loser of `mark_succeeded` writes nothing itself but bills through its
snapshot. A submit or poll that times out is recorded as `timed_out` without the
flag for an unknown outcome. `_is_operator_resume` only asks whether the run differs, so
a late attempt of the old run can reopen the failed row of the new one. A call
longer than the limiter's 30 s goes on without a lease, on top of `max_inflight`.

*Uploads.* All worker processes use the owner `temporal-worker`, so the owner does not
fence them from each other. With `MaxWorkers = 2` `RejectedForCause` fails: one worker
removes the staging object of a verified upload while the other, after a pause, looks for it,
rejects the upload and deletes its final object; `docs/architecture/resumable-upload.md:50`
describes the lease as the fence between replicas. A probe, a normalization or a
stabilization that times out or is killed raises the same `FfmpegCommandError` as bytes that
cannot be read (`packages/media/video/ffmpeg.py:211-252`), and `upload_reconciler.py:487`,
`:500` and `:567` turn it into a rejection: a sound upload is lost for good, with one worker and its
lease held, where an error of the store would be retried. `RejectedForCause` states that this
is the only way. `resumable-upload.md:97` says that a verified upload whose final object is
missing is rejected; with S3 its `head` raises a client error, which is retried until the
retries are used up. A cleanup that is lost leaves a final
object behind for ever; a late `Put`, or a multipart created after a cancellation,
leaves a staging object to the bucket's lifecycle rule (`resumable-upload.md:68`).

*Selection.* A lease lives 3600 s and nobody renews it, so an activity that takes
longer loses its whole snapshot once another run has taken the slot. Hydration leaves
out the run's own expired and released leases, so its next attempt mints new ids, which
the unique index over run and asset always refuses: the comment in `reserve_selections`
says they are taken up again. A cancel request that read the run before its last
snapshot writes `released` over committed leases (`CommitsStand` names that case), and a late
snapshot of a failed run may bring a released lease back until it expires.

*Publishing.* An item can go to the vendor twice in three ways, the first two of which need no
fault and no second call. A batch in `publishing` (after a retry that left other items
failed) or `completed` passes transaction A, which looks at the items only; what may be
submitted and is ticked is published, transaction B refuses the batch's status and records
nothing, and the next submit publishes it again. An item with several accounts has failed if
one of them has; the next submit or retry sends it to all, also to those that have it. And
overlapping submits publish what both have read. `RepublishedForCause` says that without
overlap, crash and deletion there is nothing but the first two and the answer that was
lost, and `RecordsMatchVendor` that no other publication is missing from the records.
Deselecting or deleting in the window loses outcomes. A failed retry records no attempt. Two
overlapping retries each miss the other's write and leave the batch in `publishing` with
every item published. No document or test of the repository promises that an item goes out
at most once, so this is described here and not run as a finding.

## 5. What is proved

Eight modules of proofs are checked by TLAPS to the last leaf, from the constants'
assumptions alone: any number of nodes, threads, clients, attempts, runs, rows, assets,
items, retries, any cap, any bound on faults. Where a theorem has a condition of its own
(one worker process, no overlapping attempts, at most one fault) it is in its statement,
and it is the condition under which the code keeps the property: sections 3 and 4 say what
happens without it. Two assumptions on constants exist for the proofs only: the callers
of a batch and of a provider are finitely many, and the name that all worker processes
share as owner of a lease is not the token of a thread.

**RunLifecycle.** The contract alone is not inductive: whether a snapshot may be written
depends on what its process read long before. `IInv` adds what every copy may be
worth: the API's copy is never ahead of the row except in ways the sync absorbs
(`ApiOK`); a workflow stands at node *n* only when the nodes before it are
committed or the fence holds (`WorkflowOK`, `Reached`); a thread that has read
only the run and job rows (`RunRead`) and one that has read all (`CopyOK`) hold a prefix
of the nodes, a `succeeded` copy holds all of them, a fenced copy implies a
fenced row; and the attempt the workflow waits for has the step the workflow
awaits (`CurrentOK`), which zombies need not.
The argument: (1) every step of the system is a step or a stutter of the
contract (`StepContract`), from `IInv`; (2) hence the rows only grow
(`ContractGrows`): nodes are not lost, the fence and success are not taken back;
(3) therefore all clauses about processes that did not move are stable
(`ThreadStable`, `WorkflowStable`, `ApiStable`); (4) per action, the process that
moved keeps its own clause. Theorems: `Invariant`, `TypeCorrect`, `Completeness`,
`FenceFirst`, and `Implementation`, the refinement of `RunContract`.

*The job.* `CancelledRunCancelsJob` would be inductive if only the rows were written, but
every process writes a copy of the job that it read earlier. `JobOK` pairs run and job in
every copy: a cancelled copy of the run carries a cancelled job, an admitted or running
one a job that is queued or running (`Paired`), so that what a sync writes is a pair again
whatever part of it the fence refuses (`SyncFits`). *The end of the workflow.* The run is
`Settled` when it has ended or must end, and no step leads out of that. `JobOK` also says
that a copy with the last node or with an ended run has settled the run once it is
written, which is why the workflow may close (`OutcomeOK`, `ResumedPosition`), and
`OneFaultOK` that an attempt that fails while the run is not settled has met the one
fault: without a fault an attempt errs only on a run that is settled (`JobMoveOK`), and
what comes after the fault, `mark_run_failed`, does not fail again. Theorems:
`FaultInvariant`, `CancelledTogether`, and `SettledAtEnd`, which holds until a second fault.

**CaseAdmission.** `RunningHasWorkflow` needs to know why a mark may write `running`:
`IInv` adds that the run an attempt is about to mark has been started (`MarkOK`),
that the row lock taken by a mark keeps the row admitted until its commit, and
that a closed workflow has taken its run out of admitted and running first (`FlowOK`).
Theorems: `AdmissionInvariant`, `AdmissionTypes`, `RunningRunsHaveWorkflows`.

The cap and the order are about one attempt that counts, locks, starts and marks in
separate statements while runs end, are cancelled and mark themselves. `Calm` holds as
long as there was no fault: one attempt is at work; the running rows are at most what it
has counted; the running rows and those it has picked fit the cap together; whatever is
still admitted and older than a picked row has been picked as well, since new rows queue
behind; and a run's own workflow marks its row only after the attempt has started it
(`SoloOK`, `PickedOK`, `RowOK`).
`OldestFits` says that the n oldest of a set are at most n, for any n. Theorems:
`CalmInvariance`, `CapKeptWithoutFaults`, `FirstQueuedFirstStarted`.

**Uploads.** `ReadyIsServed` needs to know why the final object is there when a
thread registers it, and why nobody removes it afterwards. `IInv` adds per thread
(`ThreadOK`): past the request the status is past the transfer; a thread that
cleans up belongs to a removed row; a thread that is about to register has seen the
final object, unless the row has been removed since. Nothing in it mentions the lease: the row
lock, the checked transition and the order of the steps suffice. The argument: an action
changes the status along the table or not at all (`StatusMoves`), takes the final object
only from a removed row (`FinalStays`), and registers exactly when it writes ready
(`Registered`); from the first two `ThreadOK` of every other thread is stable
(`Stable`), because the table leads nowhere from a removed status and never back before
the transfer. Theorems: `UploadTypes`, `ReadyServed`, `TableFollowed`.

`RemovedIsClean` follows from a debt (`Owed`): while a removed row has its final object, some
thread is at a step from which it still comes to the cleanup, however cancel and promotion
overtook each other. It is kept per action by asking only of the thread that moved that
it takes the debt over. `RejectedForCause` is where the lease counts. `Kept` ties the
objects to the status (a transfer that is complete has its object, a verified row its final
object), and `ThreadSound` says that a thread which still holds the lease stands where the
row's status is, so a rejection under the lease is about bytes that are unsound, or about a
tool of this thread that was interrupted. The lease
names a worker process, not a thread, so this needs at most one thread that scans
(`OneScan`), hence the condition `MaxWorkers <= 1`. Theorems: `CleanupIsOwed`,
`RemovedClean`, `LeaseCarriesStatus`, `RejectionHasCause`.

**ProviderInvocation.** That a row buys once needs a reason why no second thread submits
under it. `IInv` adds: the rows are inserted in order and the last one holds the key
(`Shape`); a row that waits for its submit has bought nothing, one that polls or is
billed has bought once, and one that polls has its task (`RowOK`); a thread that polls, resumes or finalizes a success
stands at a row that has bought, and so does every copy that a snapshot may merge as
polling or as unbilled usage (`CallerOK`); between the claim and the vendor's answer a
thread owns its row alone, the row has bought nothing and is past `prepared`
(`OwnerOK`). The argument: every step leaves the rows alone, writes one row forward,
inserts one after a settled one, accepts a task, or evicts media (`RowStep`); from this
alone follow the rows' part of the invariant, forward-only statuses and what never
goes back (`RowStepPreserves`, `Grows`), and that is all the threads that did not move need
(`Concludes`). Per action, the thread that moved shows its own clause. In the contract the five
kinds of `RowStep` are a stutter, `Settle` or a stutter, `Open`, `Buy` and `LoseMedia`.
Neither the limiter nor the clock is used: a row judged stale too early costs
a timed-out call, never a second purchase under that row. The limiter's own bound needs
that a thread with a lease never queues for a permit and that a lease left behind moves
from the young to the leaked ones, so that the sum stays (`SlotInv`, `LeakCounts`); its
only assumption beyond the bounds is that the threads are finitely many. Theorems:
`PurchasesFollowContract`, `NeverBackwards`, `BillsFollowPurchases`, `PollingResumable`,
`SlotsBounded`, `CallTypesKept`.

`ReplayableWithoutOverlap` is about the payload and the bill, which overlapping attempts may
tear apart. `LoneInv` says what holds until then: each row is sold (succeeded, replayable
and billed once) or not at all (`Sold`), one thread is at work, and its position and its
copies agree with the rows as it left them (`LoneOK`), because nobody else writes them.
It is proved beside `IInv`, from the same cases. Theorems: `LoneInvariance`, `ReplayableAlone`.

**SelectionLeases.** Disjoint packs rest on the unique index, but a copy that was read before
a lease lapsed may still be written. `IInv` keeps for a running run a lease for each
asset of its pack, reserved or run out (`RowsOK`), of which the index leaves one
reserved per asset; for a copy, that what it writes under a running run is reserved or
run out as well (`CopyOK`). Hydration, the sweep and the release are described asset by
asset (`Aged`, the lemmas on `LeaseMap`), so that a step is one run's leases changed and
the others aged. That a run lets go is the work of one attempt: while attempts of a run do not
overlap, its copy knows every lease the row holds, and what it releases is all there is
(`AloneOK`, `AloneCopyOK`). Theorems: `Invariance`, `LeaseTypes`, `PlansAreDisjoint` (whatever
overlaps), `EndedRunsLetGo`, `CommitsAreKept`.

**PublishBatch.** The vendor, the rows and the calls are related by counting:
what the vendor has taken is at least what is recorded plus what calls hold in their hands,
and more only for an item that is deleted, `doubtful` or `dropped`. Each step moves one caller
into or out of the sets of those who will publish an item (`Due`), hold its success
(`Holding`) or are at work (`Busy`), and `CountsMove` says once what that does to the three
cardinalities. `Counted` bounds the counts by the calls made. Every way in which a call ends
is an instance of `EndsCall`, but for a retry that failed. While calls do not overlap, what a
call read before the publish window still stands when it writes, and what it publishes is
ticked and may be submitted (`AloneOK`); so its write is legal but for the batch's status, a
refusal that drops something finds the batch `Closed`, which it stays, and what the vendor has
is published or held once, unless it is doubtful or dropped (`Once`). Theorems: `Invariance`,
`BatchTypes`, `RecordsAreTrue` (whatever overlaps), `RepublicationHasCause`, `TablesFollowed`.

**Only model-checked.** Liveness (the prover does no ENABLED or fairness reasoning) and
the counterexamples of section 4. Every safety invariant and every action property of
a passing run is stated by a theorem; what remains with TLC alone is what the theorems'
conditions leave out, which sections 3 and 4 describe.

## 6. Not modelled

*Inside the modelled parts.* Several runs over one job row, and `delete_run_record`,
which reads without a lock while snapshots of the run may be on their way; several
cases or uploads in one scan, so the windows of 100 cases, 100 cancelling rows and the
upload batch; the choice of a reuse plan; fallback keys of an older scheme and calls
without a durable key; the ledger's usage records; packages, scheduled times and funnel
events of publishing.

*Whole parts.* Outbox and event hub, the browser's upload manager, rate limiting and
budgets are protocols that a model could cover and that are not modelled yet. Everything
else (planning heuristics, audio and video processing, annotation, prompts, provider
adapters, CDP connectors, HTTP and request models, the web client, table
declarations, scripts) is by far the greater part of the source. It computes,
renders, validates or talks to the outside, with no shared state of its own; its
results appear in the models as the outcomes of a node, a vendor or a request. A state
machine of it would restate its text, which is why the map covers the protocol core and a
small share of all lines.

## 7. Plan

1. *Proofs that say more*: what exactly two faults may leave of a run, beside `SettledAtEnd`;
   how far the cap can be passed after a crash (section 4, 4); that a lease which lapses under a
   slow attempt costs that attempt its snapshot and no other run anything.
2. *Abstract specifications* of the leases and of a batch, like `PurchaseContract`, with the
   refinement proved.
3. `JobRuns`: several runs of one job and `delete_run_record`, over the sync guards
   of `RunLifecycle`; several cases and the scan limits of admission.
4. `Outbox`: dispatch, degradation, cursor replay. At-least-once, nothing skipped.
5. Browser upload manager against `Uploads`; budgets; rate limiting; reuse planning and
   the signed URL cache against reference definitions.

The modules avoid recursive operators so that theorems can be stated about them;
`hazards` in `PROJECT.json` lists what each of them has to catch.
