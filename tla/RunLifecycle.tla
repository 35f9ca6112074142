---------------------------- MODULE RunLifecycle ----------------------------
(***************************************************************************)
(* The life of ONE workflow run under the Temporal runtime: the durable    *)
(* rows of Postgres (workflow_runs, jobs, node_runs), the API process that *)
(* submits and cancels the run, the Temporal workflow                      *)
(* DigitalHumanVideoWorkflow, the worker threads that execute its          *)
(* activities, the case admission activity and the worker's recovery loop. *)
(*                                                                         *)
(* Every database transaction below first takes the row lock of the run    *)
(* (SELECT ... FOR UPDATE), so a transaction is one action; everything a   *)
(* process reads in one transaction and uses in a later one is kept in the *)
(* process's own variables (apiRun, apiJob, the fields of thread[t]).      *)
(***************************************************************************)
EXTENDS Integers, FiniteSets

CONSTANTS
  N,             \* number of nodes of the workflow template
  Threads,       \* activity threads of the worker (worker_max_activities)
  NoThread,      \* an activity that no worker thread has claimed
  Clients,       \* API requests that ask for cancellation, one each
  NodeAttempts,  \* retry_policy.max_attempts of run_node
  ReuseAttempts, \* maximum_attempts of apply_reuse_plan
  MarkAttempts,  \* maximum_attempts of mark_run_failed
  MaxFaults      \* bound on crashes, timeouts, errors and lost calls

ASSUME NodesAssumption == N \in Nat \ {0}
ASSUME ThreadsAssumption == NoThread \notin Threads
ASSUME AttemptsAssumption ==
  /\ NodeAttempts \in Nat \ {0}
  /\ ReuseAttempts \in Nat \ {0}
  /\ MarkAttempts \in Nat \ {0}
ASSUME FaultsAssumption == MaxFaults \in Nat

VARIABLES
  runStatus,   \* workflow_runs.status ("absent" before the row exists)
  cancelMode,  \* workflow_runs.cancel_mode
  jobStatus,   \* jobs.status
  committed,   \* nodes with a succeeded/degraded/skipped node_runs row
  apiRun,      \* the API process's in-memory copy of the run's status
  apiJob,      \* and of the job's status
  submit,      \* the API request that submits the run
  cancel,      \* the API requests that cancel it, by client
  wf,          \* the Temporal workflow execution with the run's id
  thread,      \* the worker's activity threads
  admission,   \* the admit_case_runs activity, as far as this run goes
  faults       \* faults so far

db      == <<runStatus, cancelMode, jobStatus, committed>>
api     == <<apiRun, apiJob, submit, cancel>>
worker  == <<thread, admission>>
vars    == <<runStatus, cancelMode, jobStatus, committed, apiRun, apiJob,
             submit, cancel, wf, thread, admission, faults>>

-----------------------------------------------------------------------------
(* State machine tables and record types.                                  *)

Nodes  == 1..N
NoPlan == -1           \* started without a reuse plan

RunTransitions ==
  [absent     |-> {},
   admitted   |-> {"running", "cancelled", "failed"},
   running    |-> {"succeeded", "failed", "cancelling", "cancelled"},
   cancelling |-> {"cancelled"},
   succeeded  |-> {},
   failed     |-> {},
   cancelled  |-> {}]

JobTransitions ==
  [absent    |-> {},
   queued    |-> {"running", "cancelled", "failed"},
   running   |-> {"succeeded", "failed", "cancelled"},
   succeeded |-> {"queued", "archived"},
   failed    |-> {"queued", "archived"},
   cancelled |-> {"archived"}]

RunStatuses == {"absent", "admitted", "running", "cancelling",
                "succeeded", "failed", "cancelled"}
JobStatuses == {"absent", "queued", "running", "succeeded", "failed",
                "cancelled"}
Terminal    == {"succeeded", "failed", "cancelled"}
Fence       == {"cancelling", "cancelled"}

\* assert_transition: repeating the current status is always allowed.
JobMay(from, to) == from = to \/ to \in JobTransitions[from]

Plans == (0..(N - 1)) \cup {NoPlan}

SubmitType ==
  [pc : {"idle", "admitted", "started", "start_failed", "done"}, plan : Plans]

WorkflowType ==
  [state : {"none", "open", "closed"},
   step  : {"begin", "reuse", "node", "cancel", "fail"},
   node  : 0..N, plan : Plans, attempt : Nat,
   cancelRequested : BOOLEAN, worker : Threads \cup {NoThread}]

ThreadType ==
  [pc   : {"idle", "start", "hydrate", "nodes", "exec", "sync", "return"},
   kind : {"reuse", "node", "cancel", "fail"}, node : 0..N,
   run  : RunStatuses, job : JobStatuses, done : SUBSET Nodes,
   result : {"ok", "cancelled", "error"}, cancelSeen : BOOLEAN]

Hydrating == {"hydrate", "nodes"}

IdleThread ==
  [pc |-> "idle", kind |-> "node", node |-> 0, run |-> "absent",
   job |-> "absent", done |-> {}, result |-> "ok", cancelSeen |-> FALSE]

NoWorkflow ==
  [state |-> "none", step |-> "begin", node |-> 0, plan |-> NoPlan,
   attempt |-> 0, cancelRequested |-> FALSE, worker |-> NoThread]

Init ==
  /\ runStatus = "absent" /\ cancelMode = "none" /\ jobStatus = "absent"
  /\ committed = {}
  /\ apiRun = "absent" /\ apiJob = "absent"
  /\ submit = [pc |-> "idle", plan |-> NoPlan]
  /\ cancel = [c \in Clients |-> "idle"]
  /\ wf = NoWorkflow
  /\ thread = [t \in Threads |-> IdleThread]
  /\ admission = "idle"
  /\ faults = 0

Fault == faults < MaxFaults /\ faults' = faults + 1

-----------------------------------------------------------------------------
(* sync_workflow_snapshot: one transaction under the run's row lock writes *)
(* a process's copy of the run (r), of the job (j) and of the committed    *)
(* nodes (d) over the durable rows.                                        *)

\* Mutant: the fence of the run is not respected, only its outcome.
SyncedRunUnfenced(r) == IF runStatus \in Terminal THEN runStatus ELSE r

SyncedRun(r) ==
  CASE runStatus = "cancelling" -> IF r = "cancelled" THEN r ELSE "cancelling"
    [] runStatus \in Terminal   -> runStatus
    [] OTHER                    -> r

\* Mutant: the job is written without looking at the run's fence.
SyncedJobUnfenced(j) == j

SyncedJob(j) ==
  IF runStatus \in Fence /\ j # "cancelled" THEN jobStatus ELSE j

\* Mutant: nodes commit whatever the run's status.
SyncedNodesUnfenced(d) == committed \cup d

SyncedNodes(d) ==
  IF runStatus \in Fence THEN committed ELSE committed \cup d

Sync(r, j, d) ==
  /\ runStatus' = SyncedRun(r)
  /\ jobStatus' = SyncedJob(j)
  /\ committed' = SyncedNodes(d)
  /\ UNCHANGED cancelMode

-----------------------------------------------------------------------------
(* The API process.                                                        *)

StartWorkflow(plan) ==      \* start_workflow; AlreadyStarted is a success
  wf' = IF wf.state = "open" THEN wf
        ELSE [NoWorkflow EXCEPT !.state = "open", !.plan = plan]

\* _admit_run and the first sync.  A batch item is queued and left to the
\* admission controller; a single job, a retry or a resume is started below.
ApiSubmit ==
  /\ submit.pc = "idle"
  /\ apiRun' = "admitted" /\ apiJob' = "queued"
  /\ Sync("admitted", "queued", {})
  /\ \/ \E plan \in Plans : submit' = [pc |-> "admitted", plan |-> plan]
     \/ submit' = [submit EXCEPT !.pc = "done"]
  /\ UNCHANGED <<cancel, wf, worker, faults>>

\* A start call that fails may or may not have reached the server.
ApiStartWorkflow ==
  /\ submit.pc = "admitted"
  /\ \/ /\ StartWorkflow(submit.plan)
        /\ submit' = [submit EXCEPT !.pc = "started"]
        /\ UNCHANGED faults
     \/ /\ Fault
        /\ StartWorkflow(submit.plan) \/ UNCHANGED wf
        /\ submit' = [submit EXCEPT !.pc = "start_failed"]
  /\ UNCHANGED <<db, apiRun, apiJob, cancel, worker>>

\* The last line of _start_submitted_run syncs the API's own copy again.
ApiFinishSubmit ==
  /\ submit.pc = "started"
  /\ Sync(apiRun, apiJob, {})
  /\ submit' = [submit EXCEPT !.pc = "done"]
  /\ UNCHANGED <<apiRun, apiJob, cancel, wf, worker, faults>>

\* _compensate_failed_start
ApiCompensate ==
  /\ submit.pc = "start_failed"
  /\ submit' = [submit EXCEPT !.pc = "done"]
  /\ IF "failed" \in RunTransitions[apiRun]
     THEN /\ apiRun' = "failed"
          /\ apiJob' = IF "failed" \in JobTransitions[apiJob] THEN "failed"
                                                             ELSE apiJob
          /\ Sync(apiRun', apiJob', {})
     ELSE UNCHANGED <<db, apiRun, apiJob>>
  /\ UNCHANGED <<cancel, wf, worker, faults>>

\* _runtime_run: only a run the process has no copy of is read again.
ApiHydrate(c) ==
  /\ cancel[c] = "idle"
  /\ runStatus # "absent" /\ apiRun = "absent"
  /\ apiRun' = runStatus /\ apiJob' = jobStatus
  /\ UNCHANGED <<db, submit, cancel, wf, worker, faults>>

\* request_run_cancellation: the durable fence, before any signal.
RequestCancellation(c, force) ==
  /\ cancel[c] = "idle" /\ apiRun # "absent"
  /\ IF runStatus \in Terminal
     THEN UNCHANGED <<runStatus, cancelMode, jobStatus>>
     ELSE /\ cancelMode' = IF force \/ cancelMode = "force" THEN "force"
                                                          ELSE "graceful"
          /\ IF runStatus \in {"running", "cancelling"}
             THEN runStatus' = "cancelling" /\ UNCHANGED jobStatus
             ELSE /\ runStatus' = "cancelled"
                  /\ jobStatus' = IF jobStatus \in {"succeeded", "failed"}
                                  THEN jobStatus ELSE "cancelled"
  /\ apiRun' = runStatus'
  /\ cancel' = [cancel EXCEPT ![c] =
                  IF runStatus' \in Terminal THEN "sync" ELSE "signal"]
  /\ UNCHANGED <<committed, apiJob, submit, wf, worker, faults>>

\* _cancel_workflow: a signal to an execution that is not open is an error, and
\* so is a call that fails, delivered or not; the request then ends.
SignalCancel(c) ==
  /\ cancel[c] = "signal"
  /\ \/ /\ wf.state = "open"
        /\ wf' = [wf EXCEPT !.cancelRequested = TRUE]
        /\ \/ cancel' = [cancel EXCEPT ![c] = "sync"] /\ UNCHANGED faults
           \/ cancel' = [cancel EXCEPT ![c] = "done"] /\ Fault
     \/ /\ (wf.state # "open" /\ UNCHANGED faults) \/ Fault
        /\ cancel' = [cancel EXCEPT ![c] = "done"]
        /\ UNCHANGED wf
  /\ UNCHANGED <<db, apiRun, apiJob, submit, worker>>

\* The tail of cancel_run: sync the API's copy of the run and of the job.
ApiFinishCancel(c) ==
  /\ cancel[c] = "sync"
  /\ Sync(apiRun, apiJob, {})
  /\ cancel' = [cancel EXCEPT ![c] = "done"]
  /\ UNCHANGED <<apiRun, apiJob, submit, wf, worker, faults>>

\* The API process restarts: its memory and the requests in flight are gone.
ApiCrash ==
  /\ Fault
  /\ submit.pc # "idle"
  /\ apiRun' = "absent" /\ apiJob' = "absent"
  /\ submit' = [submit EXCEPT !.pc = "done"]
  /\ cancel' = [c \in Clients |-> IF cancel[c] = "idle" THEN "idle" ELSE "done"]
  /\ UNCHANGED <<db, wf, worker>>

-----------------------------------------------------------------------------
(* The Temporal workflow.  The schedule of its activities is the workflow's *)
(* code; claiming, retrying and timing out attempts is the Temporal server. *)

\* start_activity / execute_activity: scheduled, first attempt, unclaimed.
Schedule(step, n) ==
  [wf EXCEPT !.step = step, !.node = n, !.attempt = 1, !.worker = NoThread]

Closed == [wf EXCEPT !.state = "closed", !.worker = NoThread]

\* Mutant: the loop over the nodes runs one past the last.
NextNodePastLast(n) ==
  IF n > N THEN Closed
  ELSE IF wf.cancelRequested THEN Schedule("cancel", n)
  ELSE Schedule("node", n + 1)

\* The top of the loop over the nodes, after the first n of them.
NextNode(n) ==
  IF n = N THEN Closed
  ELSE IF wf.cancelRequested THEN Schedule("cancel", n)
  ELSE Schedule("node", n + 1)

\* The first workflow task: run() up to its first activity.
WorkflowBegin ==
  /\ wf.state = "open" /\ wf.step = "begin"
  /\ wf' = IF wf.plan = NoPlan THEN NextNode(0)
           ELSE IF wf.cancelRequested THEN Schedule("cancel", 0)
           ELSE Schedule("reuse", 0)
  /\ UNCHANGED <<db, api, worker, faults>>

\* Mutant: a lost activity ends the workflow with nobody to fail the run.
ActivityLostUnreconciled == Closed

\* The except clause of run(): a lost activity is reconciled to failed, and
\* when that activity is lost too the workflow itself fails.
ActivityLost == IF wf.step = "fail" THEN Closed ELSE Schedule("fail", wf.node)

\* An attempt failed.  mark_run_cancelled has no maximum_attempts; the server
\* does not retry an activity whose cancellation was requested.
MayRetry ==
  CASE wf.step = "reuse"  -> wf.attempt < ReuseAttempts
    [] wf.step = "node"   -> wf.attempt < NodeAttempts /\ ~wf.cancelRequested
    [] wf.step = "cancel" -> TRUE
    [] OTHER              -> wf.attempt < MarkAttempts

AttemptFailed ==
  IF ~MayRetry THEN ActivityLost
  ELSE [wf EXCEPT !.worker = NoThread,
                  !.attempt = IF wf.step = "cancel" THEN @ ELSE @ + 1]

\* run() takes the outcome "ok" of the activity it awaits.
AfterActivity(run) ==
  CASE wf.step = "reuse" -> NextNode(wf.plan)
    [] wf.step = "node"  -> IF run \in Terminal THEN Closed ELSE NextNode(wf.node)
    [] OTHER             -> Closed

\* Mutant: the loop resumes one node after the reused prefix.
ResumedAfterPlan(result, run) ==
  IF result = "error" THEN AttemptFailed
  ELSE IF result = "cancelled" THEN Schedule("cancel", wf.node)
  ELSE IF wf.step = "reuse" THEN NextNode(wf.plan + 1)
  ELSE AfterActivity(run)

\* Mutant: the error of a node's last attempt is taken for its completion.
ResumedPastError(result, run) ==
  IF result = "error" /\ (MayRetry \/ wf.step # "node") THEN AttemptFailed
  ELSE IF result = "cancelled" THEN Schedule("cancel", wf.node)
  ELSE AfterActivity(run)

\* run() resumes with the outcome of the activity it awaits.
Resumed(result, run) ==
  IF result = "error" THEN AttemptFailed
  ELSE IF result = "cancelled" THEN Schedule("cancel", wf.node)
  ELSE AfterActivity(run)

Scheduled == wf.state = "open" /\ wf.step # "begin"

\* A cancelled activity nobody has claimed is cancelled by the server.
CancelUnclaimed ==
  /\ Scheduled /\ wf.step = "node" /\ wf.worker = NoThread
  /\ wf.cancelRequested
  /\ wf' = Schedule("cancel", wf.node)
  /\ UNCHANGED <<db, api, worker, faults>>

\* Mutant: only the attempts of nodes are watched.
LostNodeAttempt ==
  /\ Scheduled /\ wf.worker # NoThread /\ thread[wf.worker].pc = "idle"
  /\ wf.step = "node"
  /\ wf' = AttemptFailed
  /\ UNCHANGED <<db, api, worker, faults>>

\* The heartbeats of an attempt that died with its worker stop.
LostAttempt ==
  /\ Scheduled /\ wf.worker # NoThread /\ thread[wf.worker].pc = "idle"
  /\ wf' = AttemptFailed
  /\ UNCHANGED <<db, api, worker, faults>>

\* start_to_close or heartbeat_timeout of an attempt whose thread still runs:
\* the thread is not stopped.
AttemptTimeout ==
  /\ Fault
  /\ Scheduled /\ wf.worker # NoThread /\ thread[wf.worker].pc # "idle"
  /\ wf' = AttemptFailed
  /\ UNCHANGED <<db, api, worker>>

\* schedule_to_close, the ceiling across all attempts.
ActivityTimeout ==
  /\ Fault
  /\ Scheduled
  /\ wf' = ActivityLost
  /\ UNCHANGED <<db, api, worker>>

-----------------------------------------------------------------------------
(* The worker's activity threads.                                           *)

ThreadDo(t, rec) == thread' = [thread EXCEPT ![t] = rec]

Fail(m)    == [m EXCEPT !.pc = "return", !.result = "error"]
ToSync(m)  == [m EXCEPT !.pc = "sync", !.result = "ok"]

ClaimActivity(t) ==
  /\ Scheduled /\ wf.worker = NoThread /\ thread[t].pc = "idle"
  /\ ThreadDo(t, [IdleThread EXCEPT
       !.pc = IF wf.step = "node" THEN "start" ELSE "hydrate",
       !.kind = wf.step,
       !.node = IF wf.step = "reuse" THEN wf.plan ELSE wf.node])
  /\ wf' = [wf EXCEPT !.worker = t]
  /\ UNCHANGED <<db, api, admission, faults>>

\* mark_run_started: only an admitted run is started.
MarkRunStarted ==
  IF runStatus = "admitted"
  THEN runStatus' = "running" /\ jobStatus' = "running"
  ELSE UNCHANGED <<runStatus, jobStatus>>

\* run_node calls it before it reads anything.
NodeMarksRunStarted(t) ==
  /\ thread[t].pc = "start"
  /\ MarkRunStarted
  /\ ThreadDo(t, [thread[t] EXCEPT !.pc = "hydrate"])
  /\ UNCHANGED <<cancelMode, committed, api, wf, admission, faults>>

\* hydrate_workflow_runtime_snapshot into the activity's own repository, without
\* a lock: the rows of the run and of the job first, the node runs many queries
\* later.
HydrateRun(t) ==
  /\ thread[t].pc = "hydrate"
  /\ ThreadDo(t, [thread[t] EXCEPT !.pc = "nodes", !.run = runStatus,
                                   !.job = jobStatus])
  /\ UNCHANGED <<db, api, wf, admission, faults>>

HydrateNodes(t) ==
  /\ thread[t].pc = "nodes"
  /\ ThreadDo(t, [thread[t] EXCEPT !.pc = "exec", !.done = committed])
  /\ UNCHANGED <<db, api, wf, admission, faults>>

\* _mark_cancelled on the activity's copy; an illegal job transition raises.
MarkCancelled(m) ==
  IF m.run = "cancelled" THEN ToSync(m)
  ELSE IF JobMay(m.job, "cancelled")
       THEN ToSync([m EXCEPT !.run = "cancelled", !.job = "cancelled"])
       ELSE Fail(m)

\* _complete_run
CompleteRun(m) ==
  IF JobMay(m.job, "succeeded")
  THEN ToSync([m EXCEPT !.run = "succeeded", !.job = "succeeded"])
  ELSE Fail(m)

\* The end of _execute_node and of run_node_activity for a node that returned,
\* and for one that raised NodeExecutionError.
NodeSucceeded(m) ==
  LET finished == [m EXCEPT !.done = @ \cup {m.node}]
  IN  IF m.node = N THEN CompleteRun(finished) ELSE ToSync(finished)

NodeFailed(m) == ToSync([m EXCEPT !.run = "failed", !.job = "failed"])

\* run_node_activity before it executes the node: the job and the run are
\* running in the activity's copy.
Entered(m) == [m EXCEPT !.run = "running", !.job = "running"]

WillExecute(m) == m.node \notin m.done /\ m.run \in {"admitted", "running"}

InNode(t, pc) == thread[t].kind = "node" /\ thread[t].pc = pc

\* run_node_activity when it does not execute the node: a replay of a node
\* that is committed, a run that is cancelling, or one that has ended.
PassOverNode(t) ==
  LET m == thread[t]
  IN  /\ InNode(t, "exec") /\ ~WillExecute(m)
      /\ ThreadDo(t,
           IF m.node \in m.done
           THEN IF m.node = N /\ m.run = "running" THEN CompleteRun(m) ELSE ToSync(m)
           ELSE IF m.run \in Fence THEN MarkCancelled(m)
           ELSE IF JobMay(m.job, "running") THEN ToSync([m EXCEPT !.job = "running"])
           ELSE Fail(m))
      /\ UNCHANGED <<db, api, wf, admission, faults>>

\* The node runs for minutes and returns, raises, or (when it runs a media
\* process, which polls the token) sees the cancellation and stops.
ExecuteNode(t) ==
  LET m == thread[t]
  IN  /\ InNode(t, "exec") /\ WillExecute(m)
      /\ IF ~JobMay(m.job, "running") THEN ThreadDo(t, Fail(m))
         ELSE \/ ThreadDo(t, NodeSucceeded(Entered(m)))
              \/ ThreadDo(t, NodeFailed(Entered(m)))
              \/ /\ m.cancelSeen \/ runStatus \in Fence
                 /\ ThreadDo(t, [m EXCEPT !.pc = "return",
                                          !.result = "cancelled"])
      /\ UNCHANGED <<db, api, wf, admission, faults>>

\* apply_reuse_plan: the reused prefix becomes skipped node runs.
ApplyReusePlan(t) ==
  /\ thread[t].kind = "reuse" /\ thread[t].pc = "exec"
  /\ ThreadDo(t, ToSync([thread[t] EXCEPT !.done = @ \cup 1..thread[t].node]))
  /\ UNCHANGED <<db, api, wf, admission, faults>>

\* mark_run_cancelled: request_cancel on the activity's copy.
MarkRunCancelled(t) ==
  LET m == thread[t]
  IN  /\ m.kind = "cancel" /\ m.pc = "exec"
      /\ ThreadDo(t, IF m.run \in {"succeeded", "failed"} THEN Fail(m)
                                                          ELSE MarkCancelled(m))
      /\ UNCHANGED <<db, api, wf, admission, faults>>

\* Mutant: a lost run that is being cancelled is taken for settled.
MarkRunFailedUnlessFenced(t) ==
  LET m == thread[t]
  IN  /\ m.kind = "fail" /\ m.pc = "exec"
      /\ ThreadDo(t,
           IF m.run \in Terminal \cup Fence THEN ToSync(m)
           ELSE ToSync([m EXCEPT !.run = "failed",
                          !.job = IF @ = "running" THEN "failed" ELSE @]))
      /\ UNCHANGED <<db, api, wf, admission, faults>>

\* mark_run_failed: a run that is being cancelled is completed to cancelled.
MarkRunFailed(t) ==
  LET m == thread[t]
  IN  /\ m.kind = "fail" /\ m.pc = "exec"
      /\ ThreadDo(t,
           CASE m.run \in Terminal     -> ToSync(m)
             [] m.run = "cancelling"   -> MarkCancelled(m)
             [] OTHER -> ToSync([m EXCEPT !.run = "failed",
                                   !.job = IF @ = "running" THEN "failed" ELSE @]))
      /\ UNCHANGED <<db, api, wf, admission, faults>>

\* _sync_if_configured
SyncActivity(t) ==
  LET m == thread[t]
  IN  /\ m.pc = "sync"
      /\ Sync(m.run, m.job, m.done)
      /\ ThreadDo(t, [m EXCEPT !.pc = "return"])
      /\ UNCHANGED <<api, wf, admission, faults>>

\* A heartbeat's answer tells the thread that its activity was cancelled, or
\* that the server no longer knows the attempt.
HeartbeatCancels(t) ==
  /\ thread[t].kind = "node" /\ thread[t].pc # "idle"
  /\ ~thread[t].cancelSeen
  /\ wf.worker # t \/ (wf.step = "node" /\ wf.cancelRequested)
  /\ ThreadDo(t, [thread[t] EXCEPT !.cancelSeen = TRUE])
  /\ UNCHANGED <<db, api, wf, admission, faults>>

\* Outside shield_thread_cancel_exception the cancellation is thrown at once.
InterruptActivity(t) ==
  /\ thread[t].pc \in {"start"} \cup Hydrating /\ thread[t].cancelSeen
  /\ ThreadDo(t, [thread[t] EXCEPT !.pc = "return", !.result = "cancelled"])
  /\ UNCHANGED <<db, api, wf, admission, faults>>

\* A database or object store error in the activity.
ActivityError(t) ==
  /\ Fault
  /\ thread[t].pc \in {"start", "exec", "sync"} \cup Hydrating
  /\ ThreadDo(t, Fail(thread[t]))
  /\ UNCHANGED <<db, api, wf, admission>>

\* The outcome goes to the workflow, unless the attempt is no longer its own;
\* a cancellation pending at the end of the shield replaces any outcome.
ReturnActivity(t) ==
  LET m == thread[t]
  IN  /\ m.pc = "return"
      /\ wf' = IF wf.worker = t
               THEN Resumed(IF m.cancelSeen THEN "cancelled" ELSE m.result, m.run)
               ELSE wf
      /\ ThreadDo(t, IdleThread)
      /\ UNCHANGED <<db, api, admission, faults>>

\* The worker process dies with its threads and its admission activity.
WorkerCrash ==
  /\ Fault
  /\ thread' = [t \in Threads |-> IdleThread]
  /\ admission' = "idle"
  /\ UNCHANGED <<db, api, wf>>

-----------------------------------------------------------------------------
(* Case admission and the worker's recovery loop, for this run.             *)

\* Mutant: admission looks for the runs the API process remembers.
AdmitRememberedRun ==
  /\ admission = "idle" /\ runStatus = "admitted" /\ apiRun = "admitted"
  /\ admission' = "selected"
  /\ UNCHANGED <<db, api, wf, thread, faults>>

\* admit_case_runs selects a durable admitted run ...
AdmitRun ==
  /\ admission = "idle" /\ runStatus = "admitted"
  /\ admission' = "selected"
  /\ UNCHANGED <<db, api, wf, thread, faults>>

\* ... its workflow is started, or the call (or the mark after it) fails and the
\* run stays admitted ...
AdmissionStartsWorkflow ==
  /\ admission = "selected"
  /\ \/ StartWorkflow(NoPlan) /\ admission' = "started" /\ UNCHANGED faults
     \/ Fault /\ admission' = "idle" /\ (StartWorkflow(NoPlan) \/ UNCHANGED wf)
  /\ UNCHANGED <<db, api, thread>>

\* ... and the row is marked.
AdmissionMarksRunStarted ==
  /\ admission = "started"
  /\ MarkRunStarted
  /\ admission' = "idle"
  /\ UNCHANGED <<cancelMode, committed, api, wf, thread, faults>>

\* _reconcile_cancelling_runs signals again; a closed workflow cannot be.
RecoverCancelling ==
  /\ runStatus = "cancelling" /\ wf.state = "open" /\ ~wf.cancelRequested
  /\ wf' = [wf EXCEPT !.cancelRequested = TRUE]
  /\ UNCHANGED <<db, api, worker, faults>>

-----------------------------------------------------------------------------
ApiNext ==
  \/ ApiSubmit \/ ApiStartWorkflow \/ ApiFinishSubmit \/ ApiCompensate
  \/ ApiCrash
  \/ \E c \in Clients :
       \/ ApiHydrate(c)
       \/ \E force \in BOOLEAN : RequestCancellation(c, force)
       \/ SignalCancel(c)
       \/ ApiFinishCancel(c)

WorkflowNext ==
  \/ WorkflowBegin \/ CancelUnclaimed \/ LostAttempt
  \/ AttemptTimeout \/ ActivityTimeout

ThreadNext(t) ==
  \/ ClaimActivity(t) \/ NodeMarksRunStarted(t)
  \/ HydrateRun(t) \/ HydrateNodes(t)
  \/ PassOverNode(t) \/ ExecuteNode(t) \/ ApplyReusePlan(t)
  \/ MarkRunCancelled(t) \/ MarkRunFailed(t) \/ SyncActivity(t)
  \/ HeartbeatCancels(t) \/ InterruptActivity(t) \/ ActivityError(t)
  \/ ReturnActivity(t)

RecoveryNext ==
  \/ AdmitRun \/ AdmissionStartsWorkflow \/ AdmissionMarksRunStarted
  \/ RecoverCancelling \/ WorkerCrash

Next == ApiNext \/ WorkflowNext \/ RecoveryNext \/ \E t \in Threads : ThreadNext(t)

Spec == Init /\ [][Next]_vars

(***************************************************************************)
(* Fairness: a request handler in flight, a claimed activity, a workflow   *)
(* task and the two loops of the worker keep running; users, faults and    *)
(* the choice of an outcome owe nothing.                                   *)
(***************************************************************************)
ThreadWork(t) ==
  \/ NodeMarksRunStarted(t) \/ HydrateRun(t) \/ HydrateNodes(t)
  \/ PassOverNode(t) \/ ExecuteNode(t)
  \/ ApplyReusePlan(t) \/ MarkRunCancelled(t) \/ MarkRunFailed(t)
  \/ SyncActivity(t) \/ ReturnActivity(t)

Fairness ==
  /\ WF_vars(ApiStartWorkflow) /\ WF_vars(ApiFinishSubmit)
  /\ WF_vars(ApiCompensate)
  /\ \A c \in Clients : WF_vars(SignalCancel(c)) /\ WF_vars(ApiFinishCancel(c))
  /\ WF_vars(WorkflowBegin) /\ WF_vars(CancelUnclaimed) /\ WF_vars(LostAttempt)
  /\ WF_vars(\E t \in Threads : ClaimActivity(t))
  /\ \A t \in Threads : WF_vars(ThreadWork(t)) /\ WF_vars(HeartbeatCancels(t))
  /\ WF_vars(AdmitRun) /\ WF_vars(AdmissionStartsWorkflow)
  /\ WF_vars(AdmissionMarksRunStarted) /\ WF_vars(RecoverCancelling)

FairSpec == Spec /\ Fairness

-----------------------------------------------------------------------------
(* Type invariant.                                                          *)
TypeOK ==
  /\ runStatus \in RunStatuses
  /\ cancelMode \in {"none", "graceful", "force"}
  /\ jobStatus \in JobStatuses
  /\ committed \in SUBSET Nodes
  /\ apiRun \in RunStatuses /\ apiJob \in JobStatuses
  /\ submit \in SubmitType
  /\ cancel \in [Clients -> {"idle", "signal", "sync", "done"}]
  /\ wf \in WorkflowType
  /\ thread \in [Threads -> ThreadType]
  /\ admission \in {"idle", "selected", "started"}
  /\ faults \in 0..MaxFaults

(* Safety.                                                                  *)

\* A run that reads succeeded has every node committed: no node whose result
\* the fence dropped, or whose attempt was lost, hides behind success.
SucceededIsComplete == runStatus = "succeeded" => committed = Nodes

\* The SQL fence precedes the signal: a workflow that was told to cancel
\* belongs to a run whose row already says so, whatever snapshot is written
\* over the row after that.
SignalFollowsFence == wf.cancelRequested => runStatus \in Fence

\* A cancelled run has a cancelled job: no late snapshot of the API or of an
\* activity brings the job back.
CancelledRunCancelsJob == runStatus = "cancelled" => jobStatus = "cancelled"

\* A run whose workflow has closed is never left admitted or running.
ClosedRunIsSettled ==
  wf.state = "closed" => runStatus \in Terminal \cup {"cancelling"}

\* The node's work is under way in this thread.
Executing(t) == InNode(t, "exec") /\ WillExecute(thread[t])

\* Cancelled means that the run's activity has stopped
\* (docs/architecture/workflow-cancellation.md).
CancelledMeansStopped ==
  runStatus = "cancelled" => \A t \in Threads : ~Executing(t)

(***************************************************************************)
(* Why the rows keep their contract.  The invariant relates every copy of  *)
(* the rows that a process holds to the rows themselves.                   *)
(***************************************************************************)

\* The first k nodes are committed, or the fence keeps the run from going on.
Reached(k) == 1..k \subseteq committed \/ runStatus \in Fence

IsPrefix(d) == \E k \in 0..N : d = 1..k

\* Nodes commit in order, success is complete, a fence says how it was asked.
RowsOK ==
  /\ IsPrefix(committed)
  /\ SucceededIsComplete
  /\ cancelMode = "none" => runStatus \notin Fence

\* The API's copy may be old, but never ahead of the row.
ApiOK ==
  /\ submit.pc = "idle" => runStatus = "absent"
  /\ submit.pc \in {"admitted", "started", "start_failed"} => apiRun # "absent"
  /\ apiRun # "absent" => runStatus # "absent"
  /\ apiRun \in {"succeeded", "cancelled"} => runStatus = apiRun
  /\ apiRun = "cancelling" => runStatus \in Fence
  /\ \A c \in Clients :
       /\ cancel[c] = "signal" => runStatus \in Fence
       /\ cancel[c] \in {"signal", "sync"} => apiRun # "absent"

\* What the position of a workflow w says of the rows.
WorkflowOK(w) ==
  /\ w.state # "none" => runStatus # "absent"
  /\ w.cancelRequested \/ w.step = "cancel" => runStatus \in Fence
  /\ w.step = "node" => w.node \in Nodes /\ Reached(w.node - 1)
  /\ w.step = "reuse" => w.plan # NoPlan

\* What a copy of the run, read before the node runs, says of the rows.
RunRead(m) ==
  /\ m.run # "absent"
  /\ m.run = "succeeded" => committed = Nodes
  /\ m.run \in Fence => runStatus \in Fence
  /\ m.kind = "node" /\ m.run \notin Fence => 1..(m.node - 1) \subseteq committed

\* What an activity's copy says of the rows it was read from.
CopyOK(m) ==
  /\ IsPrefix(m.done)
  /\ m.run # "absent"
  /\ m.run = "succeeded" => m.done = Nodes
  /\ m.run \in Fence => runStatus \in Fence

\* What a thread in state m knows and is about to write.
ThreadOK(m) ==
  m.pc # "idle" =>
    /\ runStatus # "absent"
    /\ m.kind = "cancel" => runStatus \in Fence
    /\ m.kind = "node" => m.node \in Nodes
    /\ m.pc \in {"start", "hydrate"} /\ m.kind = "node" => Reached(m.node - 1)
    /\ m.pc = "nodes" => RunRead(m)
    /\ m.pc \in {"exec", "sync"} => CopyOK(m)
    /\ m.pc = "exec" /\ m.kind = "node" /\ m.run \notin Fence
         => 1..(m.node - 1) \subseteq m.done
    /\ m.pc = "sync" /\ m.kind = "node" /\ m.run \notin Terminal
         => 1..m.node \subseteq m.done
    /\ m.pc = "sync" /\ m.kind = "reuse" => 1..m.node \subseteq m.done

\* What the workflow may conclude from the attempt it waits for.
CurrentOK(m) ==
  /\ m.kind = wf.step
  /\ m.kind = "node" => m.node = wf.node
  /\ m.kind = "reuse" => m.node = wf.plan
  /\ m.cancelSeen \/ m.result = "cancelled" => runStatus \in Fence
  /\ m.pc = "return" /\ m.result = "ok" =>
       /\ m.kind = "node" /\ m.run \notin Terminal => Reached(m.node)
       /\ m.kind = "reuse" => Reached(m.node)

ThreadsOK ==
  \A t \in Threads :
    /\ ThreadOK(thread[t])
    /\ wf.worker = t /\ thread[t].pc # "idle" => CurrentOK(thread[t])

\* The inductive invariant: every process that may still write the rows holds
\* a copy, or waits for an outcome, that the fence and the order of the nodes
\* can absorb.
IInv ==
  /\ TypeOK
  /\ RowsOK /\ ApiOK
  /\ WorkflowOK(wf) /\ (admission # "idle" => runStatus # "absent")
  /\ ThreadsOK

(* The contract of the rows, with admitted and running not told apart.      *)
rowState == IF runStatus \in {"admitted", "running"} THEN "active" ELSE runStatus

Contract == INSTANCE RunContract
              WITH state <- rowState, mode <- cancelMode, done <- committed

\* Whatever the processes of this module do to the rows is a step of the
\* contract.
ImplementsContract == Contract!ContractSpec

(* Action properties.                                                       *)

\* A job that has ended leaves its outcome only as JOB_TRANSITIONS allows: a
\* retry queues it again, nothing makes it running.
EndedJobFollowsTable ==
  [][(jobStatus \in Terminal) => JobMay(jobStatus, jobStatus')]_vars

(* Liveness.                                                                *)

\* An execution that is open closes, through crashes, lost attempts and
\* timeouts.
WorkflowCloses == wf.state = "open" ~> wf.state = "closed"

\* A run that was admitted does not wait for ever, even when the API died
\* before it started the workflow.
AdmittedRunEnds ==
  runStatus = "admitted" ~> runStatus \in Terminal \cup {"cancelling"}

\* A workflow that reached _cancel brings the run to cancelled, also when
\* mark_run_cancelled is lost or times out.
CancelStepFinishes ==
  (wf.state = "open" /\ wf.step = "cancel") ~> runStatus = "cancelled"

\* A run that is being cancelled becomes cancelled.
CancellationCompletes == runStatus = "cancelling" ~> runStatus = "cancelled"
=============================================================================
