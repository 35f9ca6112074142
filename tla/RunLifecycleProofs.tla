------------------------- MODULE RunLifecycleProofs -------------------------
(***************************************************************************)
(* Proofs about RunLifecycle, for every template, pool of threads, number  *)
(* of cancel requests, retry policy and number of faults.  IInv holds the  *)
(* rows and every copy of them together (success is complete, the fence    *)
(* precedes the signal, the contract is kept); JobOK adds the job, which   *)
(* goes with its run in the rows and in every copy; OneFaultOK follows the *)
(* workflow to its end, as long as it met one fault at most.               *)
(***************************************************************************)
EXTENDS RunLifecycle, TLAPS

-----------------------------------------------------------------------------
(* Types.  An action that only moves a thread, or only the workflow, is     *)
(* typed through the lemma about the value it writes.                       *)

\* A thread may be given any record of the thread type.
LEMMA ThreadTyped ==
  ASSUME TypeOK, NEW t \in Threads, NEW rec \in ThreadType, ThreadDo(t, rec)
  PROVE  thread' \in [Threads -> ThreadType]
BY DEF ThreadDo, TypeOK

\* The helpers on an activity's copy return records of the thread type.
LEMMA EndTyped ==
  ASSUME NEW m \in ThreadType
  PROVE  Fail(m) \in ThreadType /\ ToSync(m) \in ThreadType
BY DEF Fail, ToSync, ThreadType

\* Writing statuses into a copy keeps it a thread record.
LEMMA StatusTyped ==
  ASSUME NEW m \in ThreadType, NEW r \in RunStatuses, NEW j \in JobStatuses
  PROVE  [m EXCEPT !.run = r, !.job = j] \in ThreadType
BY DEF ThreadType

\* _mark_cancelled returns a thread record.
LEMMA MarkCancelledTyped ==
  ASSUME NEW m \in ThreadType
  PROVE  MarkCancelled(m) \in ThreadType
<1>1. [m EXCEPT !.run = "cancelled", !.job = "cancelled"] \in ThreadType
  BY StatusTyped DEF RunStatuses, JobStatuses
<1> QED BY <1>1, EndTyped DEF MarkCancelled

\* _complete_run returns a thread record.
LEMMA CompleteRunTyped ==
  ASSUME NEW m \in ThreadType
  PROVE  CompleteRun(m) \in ThreadType
<1>1. [m EXCEPT !.run = "succeeded", !.job = "succeeded"] \in ThreadType
  BY StatusTyped DEF RunStatuses, JobStatuses
<1> QED BY <1>1, EndTyped DEF CompleteRun

\* The outcomes of a node are thread records.
LEMMA NodeTyped ==
  ASSUME NEW m \in ThreadType, m.node \in Nodes
  PROVE  /\ Entered(m) \in ThreadType
         /\ NodeSucceeded(Entered(m)) \in ThreadType
         /\ NodeFailed(Entered(m)) \in ThreadType
<1>1. Entered(m) \in ThreadType
  BY StatusTyped DEF Entered, RunStatuses, JobStatuses
<1>2. Entered(m).node \in Nodes
  BY <1>1 DEF Entered, ThreadType
<1> DEFINE e == Entered(m)
           f == [e EXCEPT !.done = @ \cup {e.node}]
<1> HIDE DEF e
<1>3. f \in ThreadType
  BY <1>1, <1>2 DEF e, ThreadType
<1>4. NodeSucceeded(e) \in ThreadType
  BY <1>3, EndTyped, CompleteRunTyped DEF NodeSucceeded
<1>5. NodeFailed(e) \in ThreadType
  BY <1>1, StatusTyped, EndTyped DEF e, NodeFailed, RunStatuses, JobStatuses
<1> QED BY <1>1, <1>4, <1>5 DEF e

\* An idle thread is a thread record.
LEMMA IdleThreadTyped == IdleThread \in ThreadType
BY NodesAssumption DEF IdleThread, ThreadType, RunStatuses, JobStatuses

\* The workflow's own moves keep it a well typed workflow.
LEMMA ScheduleTyped ==
  ASSUME wf \in WorkflowType,
         NEW step \in {"begin", "reuse", "node", "cancel", "fail"}, NEW n \in 0..N
  PROVE  Schedule(step, n) \in WorkflowType
BY DEF Schedule, WorkflowType

\* Closing an execution keeps it a workflow.
LEMMA ClosedTyped ==
  ASSUME wf \in WorkflowType
  PROVE  Closed \in WorkflowType
BY DEF Closed, WorkflowType

\* The top of the node loop yields a workflow.
LEMMA NextNodeTyped ==
  ASSUME wf \in WorkflowType, NEW n \in 0..N
  PROVE  NextNode(n) \in WorkflowType
<1>1. n # N => n + 1 \in 0..N
  BY NodesAssumption
<1> QED BY <1>1, ScheduleTyped, ClosedTyped DEF NextNode

\* Losing an activity yields a workflow.
LEMMA ActivityLostTyped ==
  ASSUME wf \in WorkflowType
  PROVE  ActivityLost \in WorkflowType
<1>1. wf.node \in 0..N
  BY DEF WorkflowType
<1> QED BY <1>1, ScheduleTyped, ClosedTyped DEF ActivityLost

\* A failed attempt yields a workflow.
LEMMA AttemptFailedTyped ==
  ASSUME wf \in WorkflowType
  PROVE  AttemptFailed \in WorkflowType
<1> DEFINE a == IF wf.step = "cancel" THEN wf.attempt ELSE wf.attempt + 1
<1>1. a \in Nat
  BY DEF WorkflowType
<1> HIDE DEF a
<1>2. [wf EXCEPT !.worker = NoThread, !.attempt = a] \in WorkflowType
  BY <1>1 DEF WorkflowType
<1> QED BY <1>2, ActivityLostTyped DEF AttemptFailed, a

\* Whatever the outcome run() resumes with, the workflow stays typed.
LEMMA ResumedTyped ==
  ASSUME wf \in WorkflowType, NEW result, NEW run,
         wf.step = "reuse" => wf.plan # NoPlan
  PROVE  Resumed(result, run) \in WorkflowType
<1>1. wf.node \in 0..N
  BY DEF WorkflowType
<1>2. wf.step = "reuse" => wf.plan \in 0..N
  BY NodesAssumption DEF WorkflowType, Plans
<1> QED
  BY <1>1, <1>2, AttemptFailedTyped, ScheduleTyped, NextNodeTyped, ClosedTyped
  DEF Resumed, AfterActivity

\* Starting an execution yields a workflow.
LEMMA StartWorkflowTyped ==
  ASSUME wf \in WorkflowType, NEW plan \in Plans, StartWorkflow(plan)
  PROVE  wf' \in WorkflowType
<1>1. NoWorkflow \in WorkflowType
  BY NodesAssumption DEF NoWorkflow, WorkflowType, Plans
<1>2. [NoWorkflow EXCEPT !.state = "open", !.plan = plan] \in WorkflowType
  BY <1>1 DEF WorkflowType
<1> QED BY <1>2 DEF StartWorkflow

\* A snapshot of well typed copies leaves the rows well typed.
LEMMA SyncTyped ==
  ASSUME TypeOK, NEW r \in RunStatuses, NEW j \in JobStatuses,
         NEW d \in SUBSET Nodes, Sync(r, j, d)
  PROVE  /\ runStatus' \in RunStatuses /\ jobStatus' \in JobStatuses
         /\ committed' \in SUBSET Nodes
         /\ cancelMode' \in {"none", "graceful", "force"}
BY DEF TypeOK, Sync, SyncedRun, SyncedJob, SyncedNodes, RunStatuses

\* Every step keeps every variable within its type.
LEMMA TypeStep ==
  ASSUME IInv, [Next]_vars
  PROVE  TypeOK'
<1> USE DEF IInv
<1>1. ASSUME UNCHANGED vars PROVE TypeOK'
  BY <1>1 DEF TypeOK, vars
<1>2. ASSUME ApiNext PROVE TypeOK'
  <2> USE DEF api, db, worker
  <2>1. CASE ApiSubmit
    <3>1. submit' \in SubmitType
      BY <2>1 DEF ApiSubmit, TypeOK, SubmitType
    <3> QED BY <2>1, <3>1, SyncTyped DEF ApiSubmit, TypeOK, RunStatuses, JobStatuses
  <2>2. CASE ApiStartWorkflow
    <3>1. submit.plan \in Plans
      BY DEF TypeOK, SubmitType
    <3>2. wf' \in WorkflowType
      BY <2>2, <3>1, StartWorkflowTyped DEF ApiStartWorkflow, TypeOK
    <3>3. submit' \in SubmitType
      BY <2>2 DEF ApiStartWorkflow, TypeOK, SubmitType
    <3> QED BY <2>2, <3>2, <3>3, FaultsAssumption DEF ApiStartWorkflow, TypeOK, Fault
  <2>3. CASE ApiFinishSubmit
    <3>1. submit' \in SubmitType
      BY <2>3 DEF ApiFinishSubmit, TypeOK, SubmitType
    <3> QED BY <2>3, <3>1, SyncTyped DEF ApiFinishSubmit, TypeOK
  <2>4. CASE ApiCompensate
    <3>1. submit' \in SubmitType
      BY <2>4 DEF ApiCompensate, TypeOK, SubmitType
    <3>2. apiRun' \in RunStatuses /\ apiJob' \in JobStatuses
      BY <2>4 DEF ApiCompensate, TypeOK, RunStatuses, JobStatuses
    <3> QED BY <2>4, <3>1, <3>2, SyncTyped DEF ApiCompensate, TypeOK
  <2>5. CASE ApiCrash
    <3>1. submit' \in SubmitType
      BY <2>5 DEF ApiCrash, TypeOK, SubmitType
    <3> QED
      BY <2>5, <3>1, FaultsAssumption
      DEF ApiCrash, TypeOK, Fault, RunStatuses, JobStatuses
  <2>6. ASSUME NEW c \in Clients, ApiHydrate(c) PROVE TypeOK'
    BY <2>6 DEF ApiHydrate, TypeOK
  <2>7. ASSUME NEW c \in Clients, NEW force \in BOOLEAN, RequestCancellation(c, force)
        PROVE  TypeOK'
    <3>1. runStatus' \in RunStatuses /\ jobStatus' \in JobStatuses
      BY <2>7 DEF RequestCancellation, TypeOK, RunStatuses, JobStatuses
    <3>2. cancel' \in [Clients -> {"idle", "signal", "sync", "done"}]
      BY <2>7 DEF RequestCancellation, TypeOK
    <3> QED BY <2>7, <3>1, <3>2 DEF RequestCancellation, TypeOK
  <2>8. ASSUME NEW c \in Clients, SignalCancel(c) PROVE TypeOK'
    <3>1. wf' \in WorkflowType
      BY <2>8 DEF SignalCancel, TypeOK, WorkflowType
    <3>2. cancel' \in [Clients -> {"idle", "signal", "sync", "done"}]
      BY <2>8 DEF SignalCancel, TypeOK
    <3> QED BY <2>8, <3>1, <3>2, FaultsAssumption DEF SignalCancel, TypeOK, Fault
  <2>9. ASSUME NEW c \in Clients, ApiFinishCancel(c) PROVE TypeOK'
    <3>1. cancel' \in [Clients -> {"idle", "signal", "sync", "done"}]
      BY <2>9 DEF ApiFinishCancel, TypeOK
    <3> QED BY <2>9, <3>1, SyncTyped DEF ApiFinishCancel, TypeOK
  <2> QED
    BY <1>2, <2>1, <2>2, <2>3, <2>4, <2>5, <2>6, <2>7, <2>8, <2>9 DEF ApiNext
<1>3. ASSUME WorkflowNext PROVE TypeOK'
  <2> USE DEF api, db, worker
  <2>1. wf \in WorkflowType /\ wf.node \in 0..N /\ 0 \in 0..N
    BY NodesAssumption DEF TypeOK, WorkflowType
  <2>2. wf' \in WorkflowType
    BY <1>3, <2>1, ScheduleTyped, NextNodeTyped, AttemptFailedTyped, ActivityLostTyped
    DEF WorkflowNext, WorkflowBegin, CancelUnclaimed, LostAttempt, AttemptTimeout,
        ActivityTimeout
  <2>3. UNCHANGED <<db, api, worker>> /\ faults' \in 0..MaxFaults
    BY <1>3, FaultsAssumption
    DEF WorkflowNext, WorkflowBegin, CancelUnclaimed, LostAttempt, AttemptTimeout,
        ActivityTimeout, TypeOK, Fault
  <2> QED BY <2>2, <2>3 DEF TypeOK
<1>4. ASSUME RecoveryNext PROVE TypeOK'
  <2> USE DEF api, db, worker
  <2>1. CASE AdmitRun
    BY <2>1 DEF AdmitRun, TypeOK
  <2>2. CASE AdmissionStartsWorkflow
    <3>1. wf' \in WorkflowType
      BY <2>2, StartWorkflowTyped DEF AdmissionStartsWorkflow, TypeOK, Plans
    <3> QED BY <2>2, <3>1, FaultsAssumption DEF AdmissionStartsWorkflow, TypeOK, Fault
  <2>3. CASE AdmissionMarksRunStarted
    BY <2>3 DEF AdmissionMarksRunStarted, MarkRunStarted, TypeOK, RunStatuses, JobStatuses
  <2>4. CASE RecoverCancelling
    <3>1. wf' \in WorkflowType
      BY <2>4 DEF RecoverCancelling, TypeOK, WorkflowType
    <3> QED BY <2>4, <3>1 DEF RecoverCancelling, TypeOK
  <2>5. CASE WorkerCrash
    <3>1. thread' \in [Threads -> ThreadType]
      BY <2>5, IdleThreadTyped DEF WorkerCrash
    <3> QED BY <2>5, <3>1, FaultsAssumption DEF WorkerCrash, TypeOK, Fault
  <2> QED BY <1>4, <2>1, <2>2, <2>3, <2>4, <2>5 DEF RecoveryNext
<1>5. ASSUME NEW t \in Threads, ThreadNext(t) PROVE TypeOK'
  <2> USE DEF api, db, worker
  <2> DEFINE m == thread[t]
  <2>0. m \in ThreadType
    BY DEF TypeOK
  <2>1. CASE ClaimActivity(t)
    <3>1. wf' \in WorkflowType
      BY <2>1 DEF ClaimActivity, TypeOK, WorkflowType
    <3>2. wf.step = "reuse" => wf.plan \in 0..N
      BY NodesAssumption DEF TypeOK, WorkflowType, WorkflowOK, Plans
    <3>3. wf.step # "begin" /\ wf.step \in {"begin", "reuse", "node", "cancel", "fail"}
          /\ wf.node \in 0..N
      BY <2>1 DEF ClaimActivity, Scheduled, TypeOK, WorkflowType
    <3> DEFINE pc == IF wf.step = "node" THEN "start" ELSE "hydrate"
               node == IF wf.step = "reuse" THEN wf.plan ELSE wf.node
    <3>4. pc \in {"start", "hydrate"} /\ node \in 0..N
      BY <3>2, <3>3
    <3> HIDE DEF pc, node
    <3>5. [IdleThread EXCEPT !.pc = pc, !.kind = wf.step, !.node = node] \in ThreadType
      BY <3>3, <3>4, IdleThreadTyped DEF ThreadType
    <3>6. thread' \in [Threads -> ThreadType]
      BY <2>1, <3>5, ThreadTyped DEF ClaimActivity, pc, node
    <3> QED BY <2>1, <3>1, <3>6 DEF ClaimActivity, TypeOK
  <2>2. CASE NodeMarksRunStarted(t)
    <3>1. [m EXCEPT !.pc = "hydrate"] \in ThreadType
      BY <2>0 DEF ThreadType
    <3>2. thread' \in [Threads -> ThreadType]
      BY <2>2, <3>1, ThreadTyped DEF NodeMarksRunStarted
    <3> QED
      BY <2>2, <3>2
      DEF NodeMarksRunStarted, MarkRunStarted, TypeOK, RunStatuses, JobStatuses
  <2>3. CASE HydrateRun(t) \/ HydrateNodes(t)
    <3>1. /\ [m EXCEPT !.pc = "nodes", !.run = runStatus, !.job = jobStatus]
               \in ThreadType
          /\ [m EXCEPT !.pc = "exec", !.done = committed] \in ThreadType
      BY <2>0 DEF ThreadType, TypeOK
    <3>2. thread' \in [Threads -> ThreadType]
      BY <2>3, <3>1, ThreadTyped DEF HydrateRun, HydrateNodes
    <3> QED BY <2>3, <3>2 DEF HydrateRun, HydrateNodes, TypeOK
  <2>4. CASE PassOverNode(t)
    <3> DEFINE j == [m EXCEPT !.job = "running"]
    <3>1. j \in ThreadType
      BY <2>0 DEF ThreadType, JobStatuses
    <3> HIDE DEF j
    <3>2. /\ CompleteRun(m) \in ThreadType /\ ToSync(m) \in ThreadType
          /\ MarkCancelled(m) \in ThreadType /\ Fail(m) \in ThreadType
          /\ ToSync(j) \in ThreadType
      BY <2>0, <3>1, EndTyped, CompleteRunTyped, MarkCancelledTyped
    <3>3. thread' \in [Threads -> ThreadType]
      BY <2>4, <3>2, ThreadTyped DEF PassOverNode, j
    <3> QED BY <2>4, <3>3 DEF PassOverNode, TypeOK
  <2>5. CASE ExecuteNode(t)
    <3>1. m.node \in Nodes
      BY <2>5 DEF ExecuteNode, InNode, ThreadsOK, ThreadOK
    <3>2. /\ NodeSucceeded(Entered(m)) \in ThreadType /\ NodeFailed(Entered(m)) \in ThreadType
          /\ Fail(m) \in ThreadType
      BY <2>0, <3>1, NodeTyped, EndTyped
    <3>3. [m EXCEPT !.pc = "return", !.result = "cancelled"] \in ThreadType
      BY <2>0 DEF ThreadType
    <3>4. thread' \in [Threads -> ThreadType]
      BY <2>5, <3>2, <3>3, ThreadTyped DEF ExecuteNode
    <3> QED BY <2>5, <3>4 DEF ExecuteNode, TypeOK
  <2>6. CASE ApplyReusePlan(t)
    <3> DEFINE d == [m EXCEPT !.done = @ \cup 1..m.node]
    <3>1. d \in ThreadType
      BY <2>0, NodesAssumption DEF ThreadType, Nodes
    <3> HIDE DEF d
    <3>2. thread' \in [Threads -> ThreadType]
      BY <2>6, <3>1, EndTyped, ThreadTyped DEF ApplyReusePlan, d
    <3> QED BY <2>6, <3>2 DEF ApplyReusePlan, TypeOK
  <2>7. CASE MarkRunCancelled(t)
    <3>1. thread' \in [Threads -> ThreadType]
      BY <2>0, <2>7, EndTyped, MarkCancelledTyped, ThreadTyped DEF MarkRunCancelled
    <3> QED BY <2>7, <3>1 DEF MarkRunCancelled, TypeOK
  <2>8. CASE MarkRunFailed(t)
    <3> DEFINE f == [m EXCEPT !.run = "failed",
                              !.job = IF @ = "running" THEN "failed" ELSE @]
    <3>1. f \in ThreadType
      BY <2>0 DEF ThreadType, RunStatuses, JobStatuses
    <3> HIDE DEF f
    <3>2. /\ ToSync(m) \in ThreadType /\ MarkCancelled(m) \in ThreadType
          /\ ToSync(f) \in ThreadType
      BY <2>0, <3>1, EndTyped, MarkCancelledTyped
    <3>3. thread' \in [Threads -> ThreadType]
      BY <2>8, <3>2, ThreadTyped DEF MarkRunFailed, f
    <3> QED BY <2>8, <3>3 DEF MarkRunFailed, TypeOK
  <2>9. CASE SyncActivity(t)
    <3>1. [m EXCEPT !.pc = "return"] \in ThreadType
      BY <2>0 DEF ThreadType
    <3>2. thread' \in [Threads -> ThreadType]
      BY <2>9, <3>1, ThreadTyped DEF SyncActivity
    <3>3. m.run \in RunStatuses /\ m.job \in JobStatuses /\ m.done \in SUBSET Nodes
      BY <2>0 DEF ThreadType
    <3> QED BY <2>9, <3>2, <3>3, SyncTyped DEF SyncActivity, TypeOK
  <2>10. CASE HeartbeatCancels(t) \/ InterruptActivity(t)
    <3>1. /\ [m EXCEPT !.cancelSeen = TRUE] \in ThreadType
          /\ [m EXCEPT !.pc = "return", !.result = "cancelled"] \in ThreadType
      BY <2>0 DEF ThreadType
    <3>2. thread' \in [Threads -> ThreadType]
      BY <2>10, <3>1, ThreadTyped DEF HeartbeatCancels, InterruptActivity
    <3> QED BY <2>10, <3>2 DEF HeartbeatCancels, InterruptActivity, TypeOK
  <2>11. CASE ActivityError(t)
    <3>1. thread' \in [Threads -> ThreadType]
      BY <2>0, <2>11, EndTyped, ThreadTyped DEF ActivityError
    <3> QED BY <2>11, <3>1, FaultsAssumption DEF ActivityError, TypeOK, Fault
  <2>12. CASE ReturnActivity(t)
    <3>1. wf.step = "reuse" => wf.plan # NoPlan
      BY DEF WorkflowOK
    <3>2. wf' \in WorkflowType
      BY <2>12, <3>1, ResumedTyped DEF ReturnActivity, TypeOK
    <3>3. thread' \in [Threads -> ThreadType]
      BY <2>12, IdleThreadTyped, ThreadTyped DEF ReturnActivity
    <3> QED BY <2>12, <3>2, <3>3 DEF ReturnActivity, TypeOK
  <2> QED
    BY <1>5, <2>1, <2>2, <2>3, <2>4, <2>5, <2>6, <2>7, <2>8, <2>9, <2>10, <2>11, <2>12
    DEF ThreadNext
<1> QED BY <1>1, <1>2, <1>3, <1>4, <1>5 DEF Next

-----------------------------------------------------------------------------
(* Prefixes of the sequence of nodes.                                       *)

\* Two prefixes together are the longer of the two.
LEMMA PrefixUnion ==
  ASSUME NEW d, IsPrefix(d), NEW e, IsPrefix(e)
  PROVE  IsPrefix(d \cup e)
<1>1. PICK k \in 0..N : d = 1..k
  BY DEF IsPrefix
<1>2. PICK l \in 0..N : e = 1..l
  BY DEF IsPrefix
<1>3. d \cup e = 1..k \/ d \cup e = 1..l
  BY <1>1, <1>2, NodesAssumption
<1> QED BY <1>3 DEF IsPrefix

\* The node after a prefix makes it a longer prefix.
LEMMA PrefixAdd ==
  ASSUME NEW d, IsPrefix(d), NEW n \in Nodes, 1..(n - 1) \subseteq d
  PROVE  IsPrefix(d \cup {n})
<1>1. PICK k \in 0..N : d = 1..k
  BY DEF IsPrefix
<1>2. d \cup {n} = 1..k \/ d \cup {n} = 1..n
  BY <1>1, NodesAssumption DEF Nodes
<1>3. n \in 0..N
  BY NodesAssumption DEF Nodes
<1> QED BY <1>1, <1>2, <1>3 DEF IsPrefix

\* A prefix that holds a node holds the nodes before it.
LEMMA PrefixHolds ==
  ASSUME NEW d, IsPrefix(d), NEW n \in d
  PROVE  n \in Nodes /\ 1..n \subseteq d /\ (n = N => d = Nodes)
BY NodesAssumption DEF IsPrefix, Nodes

\* The prefixes that the initial rows and a reuse plan are made of.
LEMMA SomePrefixes ==
  /\ IsPrefix({}) /\ IsPrefix(Nodes)
  /\ \A k \in 0..N : IsPrefix(1..k)
<1>1. {} = 1..0 /\ 0 \in 0..N /\ N \in 0..N
  BY NodesAssumption
<1> QED BY <1>1 DEF IsPrefix, Nodes

-----------------------------------------------------------------------------
(* Every step takes the rows along their contract.                          *)

ContractStep == [Contract!ContractNext]_(Contract!contractVars)

\* A snapshot of a copy that is not ahead of the rows is a step of the contract.
LEMMA SyncContract ==
  ASSUME TypeOK, RowsOK,
         NEW r \in RunStatuses, NEW j \in JobStatuses, NEW d \in SUBSET Nodes,
         Sync(r, j, d),
         IsPrefix(d), r # "absent",
         runStatus = "absent" => r = "admitted" /\ committed \cup d = committed,
         r = "succeeded" => runStatus = "succeeded" \/ d = Nodes,
         r \in Fence => runStatus \in Fence
  PROVE  ContractStep
<1> USE DEF RowsOK, SucceededIsComplete, rowState, Fence, Terminal, Sync,
            ContractStep, Contract!contractVars
<1>1. PICK k \in 0..N : committed \cup d = 1..k
  BY PrefixUnion DEF IsPrefix
<1>2. CASE runStatus \in Fence
  <2>1. committed' = committed /\ cancelMode' = cancelMode
    BY <1>2 DEF SyncedNodes
  <2>2. runStatus' = runStatus \/ (runStatus = "cancelling" /\ runStatus' = "cancelled")
    BY <1>2 DEF SyncedRun
  <2> QED BY <1>2, <2>1, <2>2 DEF Contract!ContractNext, Contract!Stopped
<1>3. CASE runStatus \notin Fence
  <2>1. committed' = 1..k /\ committed \subseteq committed' /\ cancelMode' = cancelMode
    BY <1>1, <1>3 DEF SyncedNodes
  <2>2. r \notin Fence
    BY <1>3
  <2>3. CASE runStatus = "absent"
    <3>1. runStatus' = "admitted" /\ committed' = committed
      BY <1>1, <2>1, <2>3 DEF SyncedRun
    <3> QED BY <2>1, <2>3, <3>1 DEF Contract!ContractNext, Contract!Submit
  <2>4. CASE runStatus = "succeeded"
    <3>1. runStatus' = "succeeded" /\ committed' = committed
      BY <2>4 DEF SyncedRun, SyncedNodes
    <3> QED BY <2>1, <2>4, <3>1
  <2>5. CASE runStatus = "failed"
    <3>1. runStatus' = "failed"
      BY <2>5 DEF SyncedRun
    <3> QED BY <2>1, <2>5, <3>1 DEF Contract!ContractNext, Contract!Commit
  <2>6. CASE runStatus \in {"admitted", "running"}
    <3>1. runStatus' = r
      BY <2>6 DEF SyncedRun
    <3>2. r = "succeeded" => committed' = 1..N
      BY <1>1, <2>1, <2>6 DEF Nodes, TypeOK
    <3>3. r \in {"admitted", "running", "succeeded", "failed"}
      BY <2>2 DEF RunStatuses
    <3> QED
      BY <2>1, <2>6, <3>1, <3>2, <3>3 DEF Contract!ContractNext, Contract!Commit
  <2> QED BY <1>3, <2>3, <2>4, <2>5, <2>6 DEF TypeOK, RunStatuses
<1> QED BY <1>2, <1>3

\* mark_run_started is a stutter of the contract.
LEMMA StartedContract ==
  ASSUME TypeOK, MarkRunStarted, UNCHANGED <<cancelMode, committed>>
  PROVE  ContractStep
BY DEF MarkRunStarted, ContractStep, Contract!contractVars, rowState

\* Every step from a state of the invariant is a step of the contract.
LEMMA StepContract ==
  ASSUME IInv, [Next]_vars
  PROVE  ContractStep
<1> USE DEF IInv
<1>1. ASSUME UNCHANGED db PROVE ContractStep
  BY <1>1 DEF db, ContractStep, Contract!contractVars, rowState
<1>2. ASSUME ApiNext PROVE ContractStep
  <2>1. CASE ApiSubmit
    <3>1. Sync("admitted", "queued", {})
      BY <2>1 DEF ApiSubmit
    <3> QED
      BY <3>1, SyncContract, SomePrefixes DEF RunStatuses, JobStatuses, Fence
  <2>2. CASE ApiFinishSubmit \/ \E c \in Clients : ApiFinishCancel(c)
    <3>1. Sync(apiRun, apiJob, {}) /\ apiRun # "absent"
      BY <2>2 DEF ApiFinishSubmit, ApiFinishCancel, ApiOK
    <3>2. /\ runStatus # "absent"
          /\ apiRun = "succeeded" => runStatus = "succeeded"
          /\ apiRun \in Fence => runStatus \in Fence
      BY <3>1 DEF ApiOK, Fence
    <3> QED BY <3>1, <3>2, SyncContract, SomePrefixes DEF TypeOK
  <2>3. CASE ApiCompensate
    <3>1. CASE "failed" \in RunTransitions[apiRun]
      <4>1. Sync("failed", apiJob', {}) /\ apiJob' \in JobStatuses
        BY <2>3, <3>1 DEF ApiCompensate, TypeOK, JobStatuses
      <4>2. runStatus # "absent"
        BY <2>3 DEF ApiCompensate, ApiOK
      <4> QED
        BY <4>1, <4>2, SyncContract, SomePrefixes DEF RunStatuses, Fence
    <3> QED BY <1>1, <2>3, <3>1 DEF ApiCompensate
  <2>4. ASSUME NEW c \in Clients, NEW force \in BOOLEAN, RequestCancellation(c, force)
        PROVE  ContractStep
    <3>1. runStatus # "absent"
      BY <2>4 DEF RequestCancellation, ApiOK
    <3> QED
      BY <2>4, <3>1
      DEF RequestCancellation, ContractStep, Contract!contractVars, rowState,
          Contract!ContractNext, Contract!AskCancel, TypeOK, RunStatuses, Terminal
  <2> QED
    BY <1>1, <1>2, <2>1, <2>2, <2>3, <2>4
    DEF ApiNext, ApiStartWorkflow, ApiCrash, ApiHydrate, SignalCancel
<1>3. ASSUME NEW t \in Threads, ThreadNext(t) PROVE ContractStep
  <2>1. CASE NodeMarksRunStarted(t)
    BY <2>1, StartedContract DEF NodeMarksRunStarted
  <2>2. CASE SyncActivity(t)
    <3> DEFINE m == thread[t]
    <3>1. m \in ThreadType /\ m.pc = "sync" /\ ThreadOK(m)
      BY <2>2 DEF SyncActivity, TypeOK, ThreadsOK
    <3>2. runStatus # "absent" /\ CopyOK(m)
      BY <3>1 DEF ThreadOK
    <3>3. m.run \in RunStatuses /\ m.job \in JobStatuses /\ m.done \in SUBSET Nodes
      BY <3>1 DEF ThreadType
    <3>4. Sync(m.run, m.job, m.done)
      BY <2>2 DEF SyncActivity
    <3> QED BY <3>2, <3>3, <3>4, SyncContract DEF CopyOK
  <2> QED
    BY <1>1, <1>3, <2>1, <2>2
    DEF ThreadNext, ClaimActivity, HydrateRun, HydrateNodes, PassOverNode, ExecuteNode,
        ApplyReusePlan, MarkRunCancelled, MarkRunFailed, HeartbeatCancels,
        InterruptActivity, ActivityError, ReturnActivity
<1>4. ASSUME RecoveryNext PROVE ContractStep
  <2>1. CASE AdmissionMarksRunStarted
    BY <2>1, StartedContract DEF AdmissionMarksRunStarted
  <2> QED
    BY <1>1, <1>4, <2>1
    DEF RecoveryNext, AdmitRun, AdmissionStartsWorkflow, RecoverCancelling, WorkerCrash
<1>5. ASSUME WorkflowNext PROVE ContractStep
  BY <1>1, <1>5
  DEF WorkflowNext, WorkflowBegin, CancelUnclaimed, LostAttempt, AttemptTimeout,
      ActivityTimeout
<1> QED BY <1>1, <1>2, <1>3, <1>4, <1>5 DEF Next, vars, db

\* What every other process may rely on: nothing commits or ends backwards.
RowsGrow ==
  /\ committed \subseteq committed' /\ committed' \subseteq Nodes
  /\ runStatus \in Fence => runStatus' \in Fence
  /\ runStatus # "absent" => runStatus' # "absent"
  /\ runStatus \in {"succeeded", "cancelled"} => runStatus' = runStatus

\* What every step of the contract leaves true of the rows: a fence stays, an
\* outcome stays, committed nodes stay.
LEMMA ContractGrows ==
  ASSUME TypeOK, TypeOK', RowsOK, ContractStep
  PROVE  RowsGrow /\ RowsOK'
<1> USE DEF ContractStep, Contract!contractVars, rowState, Fence, RowsOK,
            SucceededIsComplete, TypeOK, RunStatuses
<1>1. CASE Contract!Submit
  BY <1>1 DEF Contract!Submit, RowsGrow
<1>2. CASE Contract!Commit
  <2>1. IsPrefix(committed')
    BY <1>2 DEF Contract!Commit, IsPrefix
  <2>2. cancelMode' = cancelMode /\ committed \subseteq committed'
    BY <1>2 DEF Contract!Commit
  <2>3. runStatus \in {"admitted", "running", "failed"}
        /\ runStatus' \in {"admitted", "running", "failed", "succeeded"}
        /\ (runStatus' = "succeeded" => committed' = 1..N)
    BY <1>2 DEF Contract!Commit
  <2> QED BY <2>1, <2>2, <2>3 DEF RowsGrow, Nodes
<1>3. CASE Contract!AskCancel
  BY <1>3 DEF Contract!AskCancel, RowsGrow
<1>4. CASE Contract!Stopped
  BY <1>4 DEF Contract!Stopped, RowsGrow
<1>5. CASE UNCHANGED Contract!contractVars
  BY <1>5 DEF RowsGrow
<1> QED BY <1>1, <1>2, <1>3, <1>4, <1>5 DEF Contract!ContractNext

-----------------------------------------------------------------------------
(* The workflow stays where the rows allow it to be.                        *)

\* Scheduling an activity at a place the rows allow.
LEMMA ScheduleOK ==
  ASSUME wf \in WorkflowType, WorkflowOK(wf),
         NEW step \in {"reuse", "node", "cancel", "fail"}, NEW n \in 0..N,
         step = "cancel" => runStatus \in Fence,
         step = "node" => n \in Nodes /\ Reached(n - 1),
         step = "reuse" => wf.plan # NoPlan
  PROVE  WorkflowOK(Schedule(step, n)) /\ Schedule(step, n).worker = NoThread
<1> DEFINE s == Schedule(step, n)
<1>1. /\ s.state = wf.state /\ s.step = step /\ s.node = n /\ s.plan = wf.plan
      /\ s.cancelRequested = wf.cancelRequested /\ s.worker = NoThread
  BY DEF Schedule, WorkflowType
<1> HIDE DEF s
<1> QED BY <1>1 DEF WorkflowOK, s

\* A closed execution asks nothing of the rows but that there are some.
LEMMA ClosedOK ==
  ASSUME wf \in WorkflowType, WorkflowOK(wf), runStatus # "absent"
  PROVE  WorkflowOK(Closed) /\ Closed.worker = NoThread
<1>1. /\ Closed.state = "closed" /\ Closed.step = wf.step /\ Closed.node = wf.node
      /\ Closed.plan = wf.plan /\ Closed.cancelRequested = wf.cancelRequested
      /\ Closed.worker = NoThread
  BY DEF Closed, WorkflowType
<1> QED BY <1>1 DEF WorkflowOK

\* The top of the node loop, once the first n nodes are reached.
LEMMA NextNodeOK ==
  ASSUME wf \in WorkflowType, WorkflowOK(wf), runStatus # "absent",
         NEW n \in 0..N, Reached(n)
  PROVE  WorkflowOK(NextNode(n)) /\ NextNode(n).worker = NoThread
<1>1. CASE n = N
  BY <1>1, ClosedOK DEF NextNode
<1>2. CASE n # N /\ wf.cancelRequested
  <2>1. runStatus \in Fence
    BY <1>2 DEF WorkflowOK
  <2> QED BY <1>2, <2>1, ScheduleOK DEF NextNode
<1>3. CASE n # N /\ ~wf.cancelRequested
  <2>1. n + 1 \in 0..N /\ n + 1 \in Nodes /\ (n + 1) - 1 = n
    BY <1>3, NodesAssumption DEF Nodes
  <2>2. Reached((n + 1) - 1)
    BY <2>1
  <2>3. WorkflowOK(Schedule("node", n + 1)) /\ Schedule("node", n + 1).worker = NoThread
    BY <2>1, <2>2, ScheduleOK
  <2> QED BY <1>3, <2>3 DEF NextNode
<1> QED BY <1>1, <1>2, <1>3

\* A lost activity is reconciled from any place.
LEMMA ActivityLostOK ==
  ASSUME wf \in WorkflowType, WorkflowOK(wf), runStatus # "absent"
  PROVE  WorkflowOK(ActivityLost) /\ ActivityLost.worker = NoThread
<1>1. wf.node \in 0..N
  BY DEF WorkflowType
<1> QED BY <1>1, ClosedOK, ScheduleOK DEF ActivityLost

\* A failed attempt is repeated at its place or reconciled.
LEMMA AttemptFailedOK ==
  ASSUME wf \in WorkflowType, WorkflowOK(wf), runStatus # "absent"
  PROVE  WorkflowOK(AttemptFailed) /\ AttemptFailed.worker = NoThread
<1> DEFINE a == IF wf.step = "cancel" THEN wf.attempt ELSE wf.attempt + 1
           w == [wf EXCEPT !.worker = NoThread, !.attempt = a]
<1> HIDE DEF a
<1>1. /\ w.state = wf.state /\ w.step = wf.step /\ w.node = wf.node
      /\ w.plan = wf.plan /\ w.cancelRequested = wf.cancelRequested
      /\ w.worker = NoThread
  BY DEF WorkflowType
<1>2. WorkflowOK(w)
  <2> HIDE DEF w
  <2> QED BY <1>1 DEF WorkflowOK
<1>3. CASE MayRetry
  <2>1. AttemptFailed = w
    BY <1>3 DEF AttemptFailed, a
  <2> QED BY <1>1, <1>2, <2>1
<1>4. CASE ~MayRetry
  BY <1>4, ActivityLostOK DEF AttemptFailed
<1> QED BY <1>3, <1>4

\* run() resumes where the outcome of its activity allows it to.
LEMMA ResumedOK ==
  ASSUME wf \in WorkflowType, WorkflowOK(wf), runStatus # "absent",
         NEW result, NEW run,
         result = "cancelled" => runStatus \in Fence,
         result \notin {"error", "cancelled"} =>
           /\ wf.step = "reuse" => Reached(wf.plan)
           /\ wf.step = "node" /\ run \notin Terminal => Reached(wf.node)
  PROVE  WorkflowOK(Resumed(result, run)) /\ Resumed(result, run).worker = NoThread
<1>1. wf.node \in 0..N
  BY DEF WorkflowType
<1>2. wf.step = "reuse" => wf.plan \in 0..N
  BY NodesAssumption DEF WorkflowType, Plans, WorkflowOK
<1>3. CASE result = "error"
  BY <1>3, AttemptFailedOK DEF Resumed
<1>4. CASE result = "cancelled"
  BY <1>1, <1>4, ScheduleOK DEF Resumed
<1>5. CASE result \notin {"error", "cancelled"} /\ wf.step = "reuse"
  BY <1>2, <1>5, NextNodeOK DEF Resumed, AfterActivity
<1>6. CASE result \notin {"error", "cancelled"} /\ wf.step = "node"
  BY <1>1, <1>6, NextNodeOK, ClosedOK DEF Resumed, AfterActivity
<1>7. CASE result \notin {"error", "cancelled"} /\ wf.step \notin {"reuse", "node"}
  BY <1>7, ClosedOK DEF Resumed, AfterActivity
<1> QED BY <1>3, <1>4, <1>5, <1>6, <1>7

\* A workflow that fits the rows still fits them when the rows grow.
LEMMA WorkflowStable ==
  ASSUME NEW w, WorkflowOK(w), RowsGrow, wf' = w
  PROVE  WorkflowOK(wf)'
BY DEF WorkflowOK, RowsGrow, Reached

\* A new execution starts from the beginning, an open one is left alone.
LEMMA StartedOK ==
  ASSUME NEW plan \in Plans, StartWorkflow(plan), WorkflowOK(wf), RowsGrow,
         runStatus # "absent"
  PROVE  WorkflowOK(wf)' /\ (wf' = wf \/ wf'.worker = NoThread)
<1>1. CASE wf.state = "open"
  BY <1>1, WorkflowStable DEF StartWorkflow
<1>2. CASE wf.state # "open"
  <2> DEFINE w == [NoWorkflow EXCEPT !.state = "open", !.plan = plan]
  <2>1. wf' = w
    BY <1>2 DEF StartWorkflow
  <2>2. w.step = "begin" /\ w.cancelRequested = FALSE /\ w.worker = NoThread
    BY DEF NoWorkflow
  <2> HIDE DEF w
  <2>3. WorkflowOK(w)
    BY <2>2 DEF WorkflowOK
  <2> QED BY <2>1, <2>2, <2>3, WorkflowStable
<1> QED BY <1>1, <1>2

-----------------------------------------------------------------------------
(* The threads.                                                             *)

\* Attempt t of the workflow, if it still is one, is where it was.
SameAttempt(t) ==
  wf'.worker = t => /\ wf.worker = t
                    /\ wf'.step = wf.step /\ wf'.node = wf.node /\ wf'.plan = wf.plan

\* A thread that does nothing is not disturbed by the others.
LEMMA ThreadStable ==
  ASSUME NEW t \in Threads, RowsGrow, thread'[t] = thread[t], SameAttempt(t),
         ThreadOK(thread[t]),
         wf.worker = t /\ thread[t].pc # "idle" => CurrentOK(thread[t])
  PROVE  /\ ThreadOK(thread[t])'
         /\ (wf.worker = t /\ thread[t].pc # "idle" => CurrentOK(thread[t]))'
<1>1. ThreadOK(thread[t])'
  BY DEF RowsGrow, ThreadOK, RunRead, CopyOK, Reached
<1>2. ASSUME wf'.worker = t, thread'[t].pc # "idle"
      PROVE  CurrentOK(thread[t])'
  <2>1. CurrentOK(thread[t])
    BY <1>2 DEF SameAttempt
  <2> QED BY <1>2, <2>1 DEF RowsGrow, CurrentOK, Reached, SameAttempt
<1> QED BY <1>1, <1>2

\* Steps that touch no thread.
LEMMA ThreadsStable ==
  ASSUME ThreadsOK, RowsGrow, UNCHANGED thread,
         \A t \in Threads : SameAttempt(t)
  PROVE  ThreadsOK'
BY ThreadStable DEF ThreadsOK

\* e is what thread t may become, short of syncing or giving its outcome back.
MoveOK(t, e) ==
  /\ ThreadOK(e)
  /\ e.pc # "idle" /\ e.kind = thread[t].kind /\ e.node = thread[t].node
  /\ (e.cancelSeen \/ e.result = "cancelled") /\ wf.worker = t => runStatus \in Fence
  /\ e.pc = "return" /\ e.result = "ok"
       => /\ thread[t].pc = "return" /\ thread[t].result = "ok"
          /\ e.run = thread[t].run

\* A step of one thread that leaves the rows and the workflow alone.
LEMMA ThreadMoves ==
  ASSUME TypeOK, ThreadsOK, RowsGrow, UNCHANGED wf,
         NEW t \in Threads, thread[t].pc # "idle",
         NEW e, MoveOK(t, e), ThreadDo(t, e)
  PROVE  ThreadsOK'
<1>1. thread'[t] = e /\ \A u \in Threads \ {t} : thread'[u] = thread[u]
  BY DEF ThreadDo, TypeOK
<1>2. ASSUME NEW u \in Threads \ {t}
      PROVE  /\ ThreadOK(thread[u])'
             /\ (wf.worker = u /\ thread[u].pc # "idle" => CurrentOK(thread[u]))'
  BY <1>1, ThreadStable DEF ThreadsOK, SameAttempt
<1>3. ThreadOK(thread[t])'
  BY <1>1 DEF RowsGrow, ThreadOK, RunRead, CopyOK, Reached, MoveOK
<1>4. ASSUME wf'.worker = t, thread'[t].pc # "idle"
      PROVE  CurrentOK(thread[t])'
  <2>1. CurrentOK(thread[t])
    BY <1>4 DEF ThreadsOK
  <2> QED BY <1>1, <1>4, <2>1 DEF RowsGrow, CurrentOK, MoveOK, Reached
<1> QED BY <1>2, <1>3, <1>4 DEF ThreadsOK

\* Fields of what the helpers return.
LEMMA EndFields ==
  ASSUME NEW m \in ThreadType
  PROVE  /\ ToSync(m).pc = "sync" /\ ToSync(m).result = "ok"
         /\ ToSync(m).kind = m.kind /\ ToSync(m).node = m.node
         /\ ToSync(m).run = m.run /\ ToSync(m).done = m.done
         /\ ToSync(m).cancelSeen = m.cancelSeen
         /\ Fail(m).pc = "return" /\ Fail(m).result = "error"
         /\ Fail(m).kind = m.kind /\ Fail(m).node = m.node
         /\ Fail(m).cancelSeen = m.cancelSeen
BY DEF ToSync, Fail, ThreadType

\* A thread at work has a copy that the rows can absorb, and so has one that is
\* about to sync what it made of it.
LEMMA ToSyncOK ==
  ASSUME NEW t \in Threads, NEW m \in ThreadType,
         m.kind = thread[t].kind, m.node = thread[t].node,
         m.cancelSeen /\ wf.worker = t => runStatus \in Fence,
         runStatus # "absent",
         m.kind = "cancel" => runStatus \in Fence,
         m.kind = "node" => m.node \in Nodes,
         CopyOK(m),
         m.kind = "node" /\ m.run \notin Terminal => 1..m.node \subseteq m.done,
         m.kind = "reuse" => 1..m.node \subseteq m.done
  PROVE  MoveOK(t, ToSync(m))
<1> DEFINE e == ToSync(m)
<1>1. /\ e.pc = "sync" /\ e.result = "ok" /\ e.kind = m.kind /\ e.node = m.node
      /\ e.run = m.run /\ e.done = m.done /\ e.cancelSeen = m.cancelSeen
  BY EndFields
<1> HIDE DEF e
<1>2. MoveOK(t, e)
  BY <1>1 DEF MoveOK, ThreadOK, CopyOK
<1> QED BY <1>2 DEF e

\* A thread that failed writes nothing.
LEMMA FailOK ==
  ASSUME NEW t \in Threads, NEW m \in ThreadType,
         m.kind = thread[t].kind, m.node = thread[t].node,
         m.cancelSeen /\ wf.worker = t => runStatus \in Fence,
         runStatus # "absent",
         m.kind = "cancel" => runStatus \in Fence,
         m.kind = "node" => m.node \in Nodes
  PROVE  MoveOK(t, Fail(m))
<1> DEFINE e == Fail(m)
<1>1. /\ e.pc = "return" /\ e.result = "error" /\ e.kind = m.kind
      /\ e.node = m.node /\ e.cancelSeen = m.cancelSeen
  BY EndFields
<1> HIDE DEF e
<1>2. MoveOK(t, e)
  BY <1>1 DEF MoveOK, ThreadOK
<1> QED BY <1>2 DEF e

\* The copy of a thread that executes, and what a change of its status needs.
LEMMA ExecFacts ==
  ASSUME IInv, NEW t \in Threads, thread[t].pc # "idle"
  PROVE  /\ thread[t] \in ThreadType /\ ThreadOK(thread[t])
         /\ runStatus # "absent"
         /\ thread[t].kind = "cancel" => runStatus \in Fence
         /\ thread[t].kind = "node" => thread[t].node \in Nodes
         /\ thread[t].cancelSeen /\ wf.worker = t => runStatus \in Fence
         /\ thread[t].pc \in {"exec", "sync"} => CopyOK(thread[t])
BY DEF IInv, TypeOK, ThreadsOK, ThreadOK, CurrentOK

\* _mark_cancelled is only reached behind the fence.
LEMMA MarkCancelledOK ==
  ASSUME IInv, NEW t \in Threads, thread[t].pc = "exec", runStatus \in Fence,
         thread[t].kind # "reuse"
  PROVE  MoveOK(t, MarkCancelled(thread[t]))
<1> DEFINE m == thread[t]
           e == [m EXCEPT !.run = "cancelled", !.job = "cancelled"]
<1>1. /\ m \in ThreadType /\ CopyOK(m) /\ runStatus # "absent"
      /\ m.kind = "node" => m.node \in Nodes
  BY ExecFacts
<1>2. /\ e \in ThreadType /\ e.kind = m.kind /\ e.node = m.node
      /\ e.done = m.done /\ e.run = "cancelled" /\ e.cancelSeen = m.cancelSeen
  <2>1. e \in ThreadType
    BY <1>1, StatusTyped DEF RunStatuses, JobStatuses
  <2> QED BY <1>1, <2>1 DEF ThreadType
<1> HIDE DEF e
<1>3. CopyOK(e)
  BY <1>1, <1>2 DEF CopyOK
<1>4. MoveOK(t, ToSync(e))
  BY <1>1, <1>2, <1>3, ToSyncOK DEF Terminal
<1>5. m.run = "cancelled" => MoveOK(t, ToSync(m))
  BY <1>1, ToSyncOK DEF Terminal
<1>6. MoveOK(t, Fail(m))
  BY <1>1, FailOK
<1> QED BY <1>4, <1>5, <1>6 DEF MarkCancelled, e

\* _complete_run is only reached with the whole sequence in the copy.
LEMMA CompleteRunOK ==
  ASSUME NEW t \in Threads, NEW m \in ThreadType,
         m.kind = thread[t].kind, m.node = thread[t].node,
         m.cancelSeen /\ wf.worker = t => runStatus \in Fence,
         runStatus # "absent", m.kind = "node", m.node \in Nodes, m.done = Nodes
  PROVE  MoveOK(t, CompleteRun(m))
<1> DEFINE e == [m EXCEPT !.run = "succeeded", !.job = "succeeded"]
<1>1. /\ e \in ThreadType /\ e.kind = m.kind /\ e.node = m.node
      /\ e.done = m.done /\ e.run = "succeeded" /\ e.cancelSeen = m.cancelSeen
  <2>1. e \in ThreadType
    BY StatusTyped DEF RunStatuses, JobStatuses
  <2> QED BY <2>1 DEF ThreadType
<1> HIDE DEF e
<1>2. CopyOK(e)
  BY <1>1, SomePrefixes DEF CopyOK, Fence
<1>3. MoveOK(t, ToSync(e))
  BY <1>1, <1>2, ToSyncOK DEF Terminal
<1>4. MoveOK(t, Fail(m))
  BY FailOK
<1> QED BY <1>3, <1>4 DEF CompleteRun, e

\* Executing a node: the copy is a prefix up to the node before it.
LEMMA ExecuteOK ==
  ASSUME IInv, NEW t \in Threads, ExecuteNode(t)
  PROVE  \E e : MoveOK(t, e) /\ ThreadDo(t, e)
<1> DEFINE m == thread[t]
<1>1. /\ m.pc = "exec" /\ m.kind = "node" /\ m.node \notin m.done
      /\ m.run \in {"admitted", "running"}
  BY DEF ExecuteNode, InNode, WillExecute
<1>2. /\ m \in ThreadType /\ ThreadOK(m) /\ CopyOK(m) /\ runStatus # "absent"
      /\ m.node \in Nodes
      /\ m.cancelSeen /\ wf.worker = t => runStatus \in Fence
  BY <1>1, ExecFacts
<1>3. 1..(m.node - 1) \subseteq m.done
  BY <1>1, <1>2 DEF ThreadOK, Fence
<1>4. MoveOK(t, Fail(m))
  BY <1>1, <1>2, FailOK
<1> DEFINE r == Entered(m)
           f == [r EXCEPT !.done = @ \cup {r.node}]
           x == [r EXCEPT !.run = "failed", !.job = "failed"]
<1>5. /\ r \in ThreadType /\ r.kind = "node" /\ r.node = m.node /\ r.done = m.done
      /\ r.run = "running" /\ r.cancelSeen = m.cancelSeen
  <2>1. r \in ThreadType
    BY <1>2, NodeTyped
  <2> QED BY <1>1, <1>2, <2>1 DEF Entered, ThreadType
<1> HIDE DEF r
<1>6. /\ f \in ThreadType /\ f.kind = "node" /\ f.node = m.node
      /\ f.done = m.done \cup {m.node} /\ f.run = "running"
      /\ f.cancelSeen = m.cancelSeen
  BY <1>2, <1>5 DEF ThreadType
<1>7. /\ x \in ThreadType /\ x.kind = "node" /\ x.node = m.node /\ x.done = m.done
      /\ x.run = "failed" /\ x.cancelSeen = m.cancelSeen
  <2>1. x \in ThreadType
    BY <1>5, StatusTyped DEF RunStatuses, JobStatuses
  <2> QED BY <1>5, <2>1 DEF ThreadType
<1> HIDE DEF f, x
<1>8. IsPrefix(m.done \cup {m.node})
  BY <1>2, <1>3, PrefixAdd DEF CopyOK
<1>9. 1..m.node \subseteq f.done /\ (m.node = N => f.done = Nodes)
  BY <1>6, <1>8, PrefixHolds
<1>10. MoveOK(t, NodeSucceeded(r))
  <2>1. CASE m.node = N
    <3>1. MoveOK(t, CompleteRun(f))
      BY <1>1, <1>2, <1>6, <1>9, <2>1, CompleteRunOK
    <3> QED BY <1>5, <2>1, <3>1 DEF NodeSucceeded, f
  <2>2. CASE m.node # N
    <3>1. CopyOK(f)
      BY <1>6, <1>8 DEF CopyOK, Fence
    <3>2. MoveOK(t, ToSync(f))
      BY <1>1, <1>2, <1>6, <1>9, <3>1, ToSyncOK
    <3> QED BY <1>5, <2>2, <3>2 DEF NodeSucceeded, f
  <2> QED BY <2>1, <2>2
<1>11. MoveOK(t, NodeFailed(r))
  <2>1. CopyOK(x)
    BY <1>2, <1>7 DEF CopyOK, Fence
  <2>2. MoveOK(t, ToSync(x))
    BY <1>1, <1>2, <1>7, <2>1, ToSyncOK DEF Terminal
  <2> QED BY <2>2 DEF NodeFailed, x
<1>12. ASSUME m.cancelSeen \/ runStatus \in Fence
       PROVE  MoveOK(t, [m EXCEPT !.pc = "return", !.result = "cancelled"])
  <2> DEFINE c == [m EXCEPT !.pc = "return", !.result = "cancelled"]
  <2>1. /\ c.pc = "return" /\ c.result = "cancelled" /\ c.kind = m.kind
        /\ c.node = m.node /\ c.cancelSeen = m.cancelSeen
    BY <1>2 DEF ThreadType
  <2> HIDE DEF c
  <2>2. MoveOK(t, c)
    BY <1>1, <1>2, <1>12, <2>1 DEF MoveOK, ThreadOK
  <2> QED BY <2>2 DEF c
<1> QED BY <1>4, <1>10, <1>11, <1>12 DEF ExecuteNode, r

\* Passing over a node that is committed, cancelled or past the end.
LEMMA PassOverOK ==
  ASSUME IInv, NEW t \in Threads, PassOverNode(t)
  PROVE  \E e : MoveOK(t, e) /\ ThreadDo(t, e)
<1> DEFINE m == thread[t]
<1>1. m.pc = "exec" /\ m.kind = "node" /\ ~WillExecute(m)
  BY DEF PassOverNode, InNode
<1>2. /\ m \in ThreadType /\ ThreadOK(m) /\ CopyOK(m) /\ runStatus # "absent"
      /\ m.node \in Nodes
      /\ m.cancelSeen /\ wf.worker = t => runStatus \in Fence
  BY <1>1, ExecFacts
<1>3. MoveOK(t, Fail(m))
  BY <1>1, <1>2, FailOK
<1>4. CASE m.node \in m.done
  <2>1. 1..m.node \subseteq m.done /\ (m.node = N => m.done = Nodes)
    BY <1>2, <1>4, PrefixHolds DEF CopyOK
  <2>2. MoveOK(t, ToSync(m))
    BY <1>1, <1>2, <2>1, ToSyncOK
  <2>3. m.node = N => MoveOK(t, CompleteRun(m))
    BY <1>1, <1>2, <2>1, CompleteRunOK
  <2> QED BY <1>4, <2>2, <2>3 DEF PassOverNode
<1>5. CASE m.node \notin m.done /\ m.run \in Fence
  <2>1. MoveOK(t, MarkCancelled(m))
    BY <1>1, <1>2, <1>5, MarkCancelledOK DEF CopyOK
  <2> QED BY <1>5, <2>1 DEF PassOverNode
<1>6. CASE m.node \notin m.done /\ m.run \notin Fence
  <2> DEFINE j == [m EXCEPT !.job = "running"]
  <2>1. /\ j \in ThreadType /\ j.kind = m.kind /\ j.node = m.node /\ j.done = m.done
        /\ j.run = m.run /\ j.cancelSeen = m.cancelSeen
    BY <1>2 DEF ThreadType, JobStatuses
  <2> HIDE DEF j
  <2>2. m.run \in Terminal
    BY <1>1, <1>2, <1>6 DEF WillExecute, CopyOK, ThreadType, RunStatuses, Fence, Terminal
  <2>3. CopyOK(j)
    BY <1>2, <2>1 DEF CopyOK
  <2>4. MoveOK(t, ToSync(j))
    BY <1>1, <1>2, <2>1, <2>2, <2>3, ToSyncOK
  <2> QED BY <1>3, <1>6, <2>4 DEF PassOverNode, j
<1> QED BY <1>4, <1>5, <1>6

\* The three activities that do not execute a node.
LEMMA OtherActivityOK ==
  ASSUME IInv, NEW t \in Threads,
         ApplyReusePlan(t) \/ MarkRunCancelled(t) \/ MarkRunFailed(t)
  PROVE  \E e : MoveOK(t, e) /\ ThreadDo(t, e)
<1> DEFINE m == thread[t]
<1>1. m.pc = "exec" /\ m.kind \in {"reuse", "cancel", "fail"}
  BY DEF ApplyReusePlan, MarkRunCancelled, MarkRunFailed
<1>2. /\ m \in ThreadType /\ ThreadOK(m) /\ CopyOK(m) /\ runStatus # "absent"
      /\ m.kind = "cancel" => runStatus \in Fence
      /\ m.cancelSeen /\ wf.worker = t => runStatus \in Fence
  BY <1>1, ExecFacts
<1>3. MoveOK(t, Fail(m))
  BY <1>1, <1>2, FailOK
<1>4. CASE ApplyReusePlan(t)
  <2> DEFINE d == [m EXCEPT !.done = @ \cup 1..m.node]
  <2>1. m.node \in 0..N /\ m.done \in SUBSET Nodes /\ 1..m.node \subseteq Nodes
    BY <1>2, NodesAssumption DEF ThreadType, Nodes
  <2>2. /\ d \in ThreadType /\ d.kind = m.kind /\ d.node = m.node /\ d.run = m.run
        /\ d.done = m.done \cup 1..m.node /\ d.cancelSeen = m.cancelSeen
    BY <1>2, <2>1 DEF ThreadType
  <2> HIDE DEF d
  <2>3. IsPrefix(m.done \cup 1..m.node)
    BY <1>2, <2>1, SomePrefixes, PrefixUnion DEF CopyOK
  <2>4. CopyOK(d)
    BY <1>2, <2>1, <2>2, <2>3 DEF CopyOK
  <2>5. MoveOK(t, ToSync(d))
    BY <1>1, <1>2, <1>4, <2>2, <2>4, ToSyncOK DEF ApplyReusePlan
  <2> QED BY <1>4, <2>5 DEF ApplyReusePlan, d
<1>5. CASE MarkRunCancelled(t)
  <2>1. m.kind = "cancel"
    BY <1>5 DEF MarkRunCancelled
  <2>2. MoveOK(t, MarkCancelled(m))
    BY <1>1, <1>2, <2>1, MarkCancelledOK
  <2> QED BY <1>3, <1>5, <2>2 DEF MarkRunCancelled
<1>6. CASE MarkRunFailed(t)
  <2>1. m.kind = "fail"
    BY <1>6 DEF MarkRunFailed
  <2>2. MoveOK(t, ToSync(m))
    BY <1>2, <2>1, ToSyncOK
  <2>3. m.run = "cancelling" => MoveOK(t, MarkCancelled(m))
    BY <1>1, <1>2, <2>1, MarkCancelledOK DEF CopyOK, Fence
  <2> DEFINE f == [m EXCEPT !.run = "failed",
                            !.job = IF @ = "running" THEN "failed" ELSE @]
  <2>4. /\ f \in ThreadType /\ f.kind = m.kind /\ f.node = m.node
        /\ f.done = m.done /\ f.run = "failed" /\ f.cancelSeen = m.cancelSeen
    BY <1>2 DEF ThreadType, RunStatuses, JobStatuses
  <2> HIDE DEF f
  <2>5. CopyOK(f)
    BY <1>2, <2>4 DEF CopyOK, Fence
  <2>6. MoveOK(t, ToSync(f))
    BY <1>2, <2>1, <2>4, <2>5, ToSyncOK
  <2> QED BY <1>6, <2>2, <2>3, <2>6 DEF MarkRunFailed, f, Terminal
<1> QED BY <1>4, <1>5, <1>6

\* Starting, reading, being told of a cancellation, breaking off.
LEMMA SmallMoveOK ==
  ASSUME IInv, RowsGrow, NEW t \in Threads,
         \/ NodeMarksRunStarted(t) \/ HydrateRun(t) \/ HydrateNodes(t)
         \/ HeartbeatCancels(t) \/ InterruptActivity(t) \/ ActivityError(t)
  PROVE  thread[t].pc # "idle" /\ \E e : MoveOK(t, e) /\ ThreadDo(t, e)
<1> DEFINE m == thread[t]
<1>1. m.pc # "idle"
  BY DEF NodeMarksRunStarted, HydrateRun, HydrateNodes, HeartbeatCancels,
         InterruptActivity, ActivityError, Hydrating
<1>2. /\ m \in ThreadType /\ ThreadOK(m) /\ runStatus # "absent"
      /\ m.kind = "cancel" => runStatus \in Fence
      /\ m.kind = "node" => m.node \in Nodes
      /\ m.cancelSeen /\ wf.worker = t => runStatus \in Fence
  BY <1>1, ExecFacts
<1>3. m.result = "cancelled" /\ wf.worker = t => runStatus \in Fence
  BY <1>1 DEF IInv, ThreadsOK, CurrentOK
<1>4. CASE NodeMarksRunStarted(t)
  <2> DEFINE e == [m EXCEPT !.pc = "hydrate"]
  <2>1. /\ e.pc = "hydrate" /\ e.kind = m.kind /\ e.node = m.node
        /\ e.cancelSeen = m.cancelSeen /\ e.result = m.result
    BY <1>2 DEF ThreadType
  <2>2. m.pc = "start" /\ ThreadDo(t, e)
    BY <1>4 DEF NodeMarksRunStarted
  <2> HIDE DEF e
  <2>3. MoveOK(t, e)
    BY <1>1, <1>2, <1>3, <2>1, <2>2 DEF MoveOK, ThreadOK
  <2> QED BY <1>1, <2>2, <2>3
<1>5. CASE HydrateRun(t)
  <2> DEFINE e == [m EXCEPT !.pc = "nodes", !.run = runStatus, !.job = jobStatus]
  <2>1. /\ e.pc = "nodes" /\ e.kind = m.kind /\ e.node = m.node
        /\ e.cancelSeen = m.cancelSeen /\ e.result = m.result
        /\ e.run = runStatus
    BY <1>2 DEF ThreadType
  <2>2. m.pc = "hydrate" /\ ThreadDo(t, e)
    BY <1>5 DEF HydrateRun
  <2> HIDE DEF e
  <2>3. m.kind = "node" => Reached(m.node - 1)
    BY <1>2, <2>2 DEF ThreadOK
  <2>4. RunRead(e)
    BY <1>2, <2>1, <2>3 DEF RunRead, Reached, IInv, RowsOK, SucceededIsComplete
  <2>5. MoveOK(t, e)
    BY <1>1, <1>2, <1>3, <2>1, <2>2, <2>4 DEF MoveOK, ThreadOK
  <2> QED BY <1>1, <2>2, <2>5
<1>9. CASE HydrateNodes(t)
  <2> DEFINE e == [m EXCEPT !.pc = "exec", !.done = committed]
  <2>1. /\ e.pc = "exec" /\ e.kind = m.kind /\ e.node = m.node
        /\ e.cancelSeen = m.cancelSeen /\ e.result = m.result
        /\ e.run = m.run /\ e.done = committed
    BY <1>2 DEF ThreadType
  <2>2. m.pc = "nodes" /\ ThreadDo(t, e)
    BY <1>9 DEF HydrateNodes
  <2> HIDE DEF e
  <2>3. RunRead(m)
    BY <1>2, <2>2 DEF ThreadOK
  <2>4. CopyOK(e)
    BY <2>1, <2>3 DEF CopyOK, RunRead, IInv, RowsOK
  <2>5. MoveOK(t, e)
    BY <1>1, <1>2, <1>3, <2>1, <2>2, <2>3, <2>4 DEF MoveOK, ThreadOK, RunRead
  <2> QED BY <1>1, <2>2, <2>5
<1>6. CASE HeartbeatCancels(t)
  <2> DEFINE e == [m EXCEPT !.cancelSeen = TRUE]
  <2>1. /\ e.pc = m.pc /\ e.kind = m.kind /\ e.node = m.node /\ e.run = m.run
        /\ e.done = m.done /\ e.cancelSeen = TRUE /\ e.result = m.result
    BY <1>2 DEF ThreadType
  <2>2. ThreadDo(t, e) /\ (wf.worker = t => runStatus \in Fence)
    BY <1>6 DEF HeartbeatCancels, IInv, WorkflowOK
  <2> HIDE DEF e
  <2>3. ThreadOK(e)
    BY <1>2, <2>1 DEF ThreadOK, RunRead, CopyOK
  <2> QED BY <1>1, <2>1, <2>2, <2>3 DEF MoveOK
<1>7. CASE InterruptActivity(t)
  <2> DEFINE e == [m EXCEPT !.pc = "return", !.result = "cancelled"]
  <2>1. /\ e.pc = "return" /\ e.kind = m.kind /\ e.node = m.node
        /\ e.cancelSeen = m.cancelSeen /\ e.result = "cancelled"
    BY <1>2 DEF ThreadType
  <2>2. m.cancelSeen /\ ThreadDo(t, e)
    BY <1>7 DEF InterruptActivity
  <2> HIDE DEF e
  <2>3. MoveOK(t, e)
    BY <1>1, <1>2, <2>1, <2>2 DEF MoveOK, ThreadOK
  <2> QED BY <1>1, <2>2, <2>3
<1>8. CASE ActivityError(t)
  <2>1. MoveOK(t, Fail(m))
    BY <1>2, FailOK
  <2> QED BY <1>1, <1>8, <2>1 DEF ActivityError
<1> QED BY <1>4, <1>5, <1>6, <1>7, <1>8, <1>9

\* The sync of an activity carries its nodes into the rows, or meets the fence.
LEMMA SyncActivityOK ==
  ASSUME IInv, RowsGrow, NEW t \in Threads, SyncActivity(t)
  PROVE  ThreadsOK'
<1> DEFINE m == thread[t]
           e == [m EXCEPT !.pc = "return"]
<1>1. /\ m.pc = "sync" /\ Sync(m.run, m.job, m.done) /\ ThreadDo(t, e) /\ UNCHANGED wf
  BY DEF SyncActivity
<1>2. /\ m \in ThreadType /\ ThreadOK(m) /\ runStatus # "absent"
      /\ m.kind = "cancel" => runStatus \in Fence
      /\ m.kind = "node" => m.node \in Nodes
  BY <1>1, ExecFacts
<1>3. /\ e.pc = "return" /\ e.kind = m.kind /\ e.node = m.node /\ e.run = m.run
      /\ e.cancelSeen = m.cancelSeen /\ e.result = m.result
  BY <1>2 DEF ThreadType
<1> HIDE DEF e
<1>4. thread'[t] = e /\ \A u \in Threads \ {t} : thread'[u] = thread[u]
  BY <1>1 DEF ThreadDo, IInv, TypeOK
<1>5. ASSUME NEW u \in Threads \ {t}
      PROVE  /\ ThreadOK(thread[u])'
             /\ (wf.worker = u /\ thread[u].pc # "idle" => CurrentOK(thread[u]))'
  BY <1>1, <1>4, ThreadStable DEF IInv, ThreadsOK, SameAttempt
<1>6. ThreadOK(thread[t])'
  BY <1>2, <1>3, <1>4 DEF ThreadOK, RowsGrow
<1>7. m.done \subseteq committed' \/ runStatus' \in Fence
  BY <1>1 DEF Sync, SyncedNodes, RowsGrow
<1>8. (m.kind = "node" /\ m.run \notin Terminal) \/ m.kind = "reuse"
        => 1..m.node \subseteq committed' \/ runStatus' \in Fence
  BY <1>1, <1>2, <1>7 DEF ThreadOK
<1>9. ASSUME wf'.worker = t, thread'[t].pc # "idle"
      PROVE  CurrentOK(thread[t])'
  <2>1. CurrentOK(m)
    BY <1>1, <1>9 DEF IInv, ThreadsOK
  <2> QED BY <1>1, <1>3, <1>4, <1>8, <2>1 DEF CurrentOK, RowsGrow, Reached
<1> QED BY <1>5, <1>6, <1>9 DEF ThreadsOK

\* The API's copy still is not ahead when only the rows move on.
LEMMA ApiStable ==
  ASSUME ApiOK, RowsGrow, UNCHANGED api,
         runStatus = "absent" => runStatus' = "absent"
  PROVE  ApiOK'
BY DEF ApiOK, RowsGrow, api

-----------------------------------------------------------------------------
(* One step, every part of the invariant.                                   *)

\* The API process preserves the invariant.
LEMMA ApiStep ==
  ASSUME IInv, RowsGrow, ApiNext
  PROVE  ApiOK' /\ WorkflowOK(wf)' /\ (admission # "idle" => runStatus # "absent")'
         /\ ThreadsOK'
<1> USE DEF IInv, api, db, worker
<1>1. admission' = admission /\ thread' = thread
  BY DEF ApiNext, ApiSubmit, ApiStartWorkflow, ApiFinishSubmit, ApiCompensate, ApiCrash,
         ApiHydrate, RequestCancellation, SignalCancel, ApiFinishCancel
<1>2. (admission # "idle" => runStatus # "absent")'
  BY <1>1 DEF RowsGrow
<1>3. ASSUME wf' = wf PROVE WorkflowOK(wf)' /\ ThreadsOK'
  BY <1>1, <1>3, WorkflowStable, ThreadsStable DEF SameAttempt
<1>4. CASE ApiSubmit
  <2>1. /\ apiRun' = "admitted" /\ runStatus' = "admitted" /\ cancel' = cancel
        /\ submit'.pc \in {"admitted", "done"} /\ wf' = wf
    BY <1>4
    DEF ApiSubmit, ApiOK, Sync, SyncedRun, Terminal, TypeOK, SubmitType
  <2>2. \A c \in Clients : cancel[c] \notin {"signal", "sync"}
    BY <1>4 DEF ApiSubmit, ApiOK, Fence
  <2>3. ApiOK'
    BY <2>1, <2>2 DEF ApiOK
  <2> QED BY <1>2, <1>3, <2>1, <2>3
<1>5. CASE ApiStartWorkflow
  <2>1. /\ submit.pc = "admitted" /\ submit'.pc \in {"started", "start_failed"}
        /\ UNCHANGED <<db, apiRun, apiJob, cancel>>
    BY <1>5 DEF ApiStartWorkflow, TypeOK, SubmitType
  <2>2. ApiOK'
    BY <2>1 DEF ApiOK
  <2>3. submit.plan \in Plans /\ runStatus # "absent"
    BY <2>1 DEF TypeOK, SubmitType, ApiOK
  <2>4. StartWorkflow(submit.plan) \/ UNCHANGED wf
    BY <1>5 DEF ApiStartWorkflow
  <2>5. CASE StartWorkflow(submit.plan)
    <3>1. WorkflowOK(wf)' /\ (wf' = wf \/ wf'.worker = NoThread)
      BY <2>3, <2>5, StartedOK
    <3>2. ThreadsOK'
      BY <1>1, <3>1, ThreadsAssumption, ThreadsStable DEF SameAttempt
    <3> QED BY <1>2, <2>2, <3>1, <3>2
  <2> QED BY <1>2, <1>3, <2>2, <2>4, <2>5
<1>6. CASE ApiFinishSubmit
  <2>1. /\ submit.pc = "started" /\ submit'.pc = "done"
        /\ UNCHANGED <<apiRun, cancel, wf>>
    BY <1>6 DEF ApiFinishSubmit, TypeOK, SubmitType
  <2>2. ApiOK'
    BY <2>1 DEF ApiOK, RowsGrow
  <2> QED BY <1>2, <1>3, <2>1, <2>2
<1>7. CASE ApiCompensate
  <2>1. /\ submit.pc = "start_failed" /\ submit'.pc = "done" /\ UNCHANGED <<cancel, wf>>
        /\ apiRun' = "failed" \/ apiRun' = apiRun
    BY <1>7 DEF ApiCompensate, TypeOK, SubmitType
  <2>2. ApiOK'
    BY <2>1 DEF ApiOK, RowsGrow
  <2> QED BY <1>2, <1>3, <2>1, <2>2
<1>8. CASE ApiCrash
  <2>1. /\ apiRun' = "absent" /\ submit'.pc = "done" /\ wf' = wf
        /\ \A c \in Clients : cancel'[c] \in {"idle", "done"}
    BY <1>8 DEF ApiCrash, TypeOK, SubmitType
  <2>2. ApiOK'
    BY <2>1 DEF ApiOK
  <2> QED BY <1>2, <1>3, <2>1, <2>2
<1>9. ASSUME NEW c \in Clients, ApiHydrate(c)
      PROVE  ApiOK' /\ wf' = wf
  BY <1>9 DEF ApiHydrate, ApiOK, Fence
<1>10. ASSUME NEW c \in Clients, NEW force \in BOOLEAN, RequestCancellation(c, force)
       PROVE  ApiOK' /\ wf' = wf
  <2>1. /\ runStatus # "absent" /\ apiRun' = runStatus' /\ submit' = submit
        /\ submit.pc # "idle" /\ wf' = wf
    BY <1>10 DEF RequestCancellation, ApiOK
  <2>2. runStatus' \in Terminal \/ runStatus' = "cancelling"
    BY <1>10 DEF RequestCancellation, Terminal
  <2>3. \A d \in Clients :
          /\ cancel'[d] = "signal" => cancel[d] = "signal" \/ runStatus' \notin Terminal
          /\ cancel'[d] \in {"signal", "sync"} => cancel[d] \in {"signal", "sync"} \/ d = c
    BY <1>10 DEF RequestCancellation, TypeOK
  <2>4. runStatus' # "absent"
    BY <2>1 DEF RowsGrow
  <2> QED BY <2>1, <2>2, <2>3, <2>4 DEF ApiOK, RowsGrow, Fence
<1>11. ASSUME NEW c \in Clients, ApiFinishCancel(c)
       PROVE  ApiOK' /\ wf' = wf
  <2>1. /\ UNCHANGED <<apiRun, submit, wf>> /\ cancel[c] = "sync"
        /\ \A d \in Clients : cancel'[d] = cancel[d] \/ cancel'[d] = "done"
    BY <1>11 DEF ApiFinishCancel, TypeOK
  <2>2. submit.pc # "idle"
    BY <2>1 DEF ApiOK
  <2> QED BY <2>1, <2>2 DEF ApiOK, RowsGrow
<1>12. ASSUME NEW c \in Clients, SignalCancel(c)
       PROVE  ApiOK' /\ WorkflowOK(wf)' /\ ThreadsOK'
  <2>1. /\ UNCHANGED <<db, apiRun, submit>> /\ cancel[c] = "signal"
        /\ \A d \in Clients : cancel'[d] = cancel[d] \/ cancel'[d] = "done"
                                \/ (d = c /\ cancel'[d] = "sync")
    BY <1>12 DEF SignalCancel, TypeOK
  <2>2. ApiOK'
    BY <2>1 DEF ApiOK
  <2>3. runStatus \in Fence
    BY <2>1 DEF ApiOK
  <2> DEFINE w == [wf EXCEPT !.cancelRequested = TRUE]
  <2>4. /\ w.state = wf.state /\ w.step = wf.step /\ w.node = wf.node
        /\ w.plan = wf.plan /\ w.worker = wf.worker
    BY DEF TypeOK, WorkflowType
  <2>5. wf' = w \/ wf' = wf
    BY <1>12 DEF SignalCancel
  <2> HIDE DEF w
  <2>6. WorkflowOK(w)
    BY <2>3, <2>4 DEF WorkflowOK
  <2>7. WorkflowOK(wf)'
    BY <2>5, <2>6, WorkflowStable
  <2>8. ThreadsOK'
    BY <1>1, <2>4, <2>5, ThreadsStable DEF SameAttempt
  <2> QED BY <2>2, <2>7, <2>8
<1> QED
  BY <1>2, <1>3, <1>4, <1>5, <1>6, <1>7, <1>8, <1>9, <1>10, <1>11, <1>12 DEF ApiNext

\* The workflow and the server's timeouts preserve the invariant.
LEMMA WorkflowStep ==
  ASSUME IInv, RowsGrow, WorkflowNext
  PROVE  ApiOK' /\ WorkflowOK(wf)' /\ (admission # "idle" => runStatus # "absent")'
         /\ ThreadsOK'
<1> USE DEF IInv
<1>1. UNCHANGED <<db, api, worker>> /\ runStatus # "absent"
  BY DEF WorkflowNext, WorkflowBegin, CancelUnclaimed, LostAttempt, AttemptTimeout,
         ActivityTimeout, Scheduled, WorkflowOK
<1>2. ApiOK' /\ (admission # "idle" => runStatus # "absent")'
  BY <1>1, ApiStable DEF db, worker
<1>3. wf \in WorkflowType /\ wf.node \in 0..N /\ wf.plan \in Plans
  BY DEF TypeOK, WorkflowType
<1>4. \E w : wf' = w /\ WorkflowOK(w) /\ w.worker = NoThread
  <2>1. CASE WorkflowBegin
    <3>1. 0 \in 0..N /\ Reached(0)
      BY NodesAssumption DEF Reached
    <3>2. WorkflowOK(NextNode(0)) /\ NextNode(0).worker = NoThread
      BY <1>1, <1>3, <3>1, NextNodeOK
    <3>3. wf.cancelRequested => /\ WorkflowOK(Schedule("cancel", 0))
                                /\ Schedule("cancel", 0).worker = NoThread
      BY <1>3, <3>1, ScheduleOK DEF WorkflowOK
    <3>4. wf.plan # NoPlan => /\ WorkflowOK(Schedule("reuse", 0))
                              /\ Schedule("reuse", 0).worker = NoThread
      BY <1>3, <3>1, ScheduleOK
    <3> QED BY <2>1, <3>2, <3>3, <3>4 DEF WorkflowBegin
  <2>2. CASE CancelUnclaimed
    <3>1. runStatus \in Fence
      BY <2>2 DEF CancelUnclaimed, WorkflowOK
    <3>2. /\ WorkflowOK(Schedule("cancel", wf.node))
          /\ Schedule("cancel", wf.node).worker = NoThread
      BY <1>3, <3>1, ScheduleOK
    <3> QED BY <2>2, <3>2 DEF CancelUnclaimed
  <2>3. CASE LostAttempt \/ AttemptTimeout
    BY <1>1, <1>3, <2>3, AttemptFailedOK DEF LostAttempt, AttemptTimeout
  <2>4. CASE ActivityTimeout
    BY <1>1, <1>3, <2>4, ActivityLostOK DEF ActivityTimeout
  <2> QED BY <2>1, <2>2, <2>3, <2>4 DEF WorkflowNext
<1>5. WorkflowOK(wf)'
  BY <1>4, WorkflowStable
<1>6. ThreadsOK'
  BY <1>1, <1>4, ThreadsAssumption, ThreadsStable DEF worker, SameAttempt
<1> QED BY <1>2, <1>5, <1>6

\* Admission, the recovery loop and a crash of the worker preserve it.
LEMMA RecoveryStep ==
  ASSUME IInv, RowsGrow, RecoveryNext
  PROVE  ApiOK' /\ WorkflowOK(wf)' /\ (admission # "idle" => runStatus # "absent")'
         /\ ThreadsOK'
<1> USE DEF IInv
<1>1. UNCHANGED api
  BY DEF RecoveryNext, AdmitRun, AdmissionStartsWorkflow, AdmissionMarksRunStarted,
         RecoverCancelling, WorkerCrash
<1>2. runStatus = "absent" => runStatus' = "absent"
  BY DEF RecoveryNext, AdmitRun, AdmissionStartsWorkflow, AdmissionMarksRunStarted,
         MarkRunStarted, RecoverCancelling, WorkerCrash, db
<1>3. ApiOK'
  BY <1>1, <1>2, ApiStable
<1>4. (admission # "idle" => runStatus # "absent")'
  <2>1. admission' # "idle" => runStatus # "absent"
    BY DEF RecoveryNext, AdmitRun, AdmissionStartsWorkflow, AdmissionMarksRunStarted,
           RecoverCancelling, WorkerCrash, worker
  <2> QED BY <2>1 DEF RowsGrow
<1>5. ASSUME wf' = wf, thread' = thread PROVE WorkflowOK(wf)' /\ ThreadsOK'
  BY <1>5, WorkflowStable, ThreadsStable DEF SameAttempt
<1>6. CASE AdmitRun \/ AdmissionMarksRunStarted
  BY <1>3, <1>4, <1>5, <1>6 DEF AdmitRun, AdmissionMarksRunStarted
<1>7. CASE AdmissionStartsWorkflow
  <2>1. runStatus # "absent" /\ thread' = thread /\ NoPlan \in Plans
    BY <1>7 DEF AdmissionStartsWorkflow, Plans
  <2>2. CASE StartWorkflow(NoPlan)
    <3>1. WorkflowOK(wf)' /\ (wf' = wf \/ wf'.worker = NoThread)
      BY <2>1, <2>2, StartedOK
    <3>2. ThreadsOK'
      BY <2>1, <3>1, ThreadsAssumption, ThreadsStable DEF SameAttempt
    <3> QED BY <1>3, <1>4, <3>1, <3>2
  <2>3. CASE UNCHANGED wf
    BY <1>3, <1>4, <1>5, <2>1, <2>3
  <2> QED BY <1>7, <2>2, <2>3 DEF AdmissionStartsWorkflow
<1>8. CASE RecoverCancelling
  <2> DEFINE w == [wf EXCEPT !.cancelRequested = TRUE]
  <2>1. /\ w.state = wf.state /\ w.step = wf.step /\ w.node = wf.node
        /\ w.plan = wf.plan /\ w.worker = wf.worker
    BY DEF TypeOK, WorkflowType
  <2>2. wf' = w /\ runStatus \in Fence /\ thread' = thread
    BY <1>8 DEF RecoverCancelling, Fence, worker
  <2> HIDE DEF w
  <2>3. WorkflowOK(w)
    BY <2>1, <2>2 DEF WorkflowOK
  <2>4. WorkflowOK(wf)'
    BY <2>2, <2>3, WorkflowStable
  <2>5. ThreadsOK'
    BY <2>1, <2>2, ThreadsStable DEF SameAttempt
  <2> QED BY <1>3, <1>4, <2>4, <2>5
<1>9. CASE WorkerCrash
  <2>1. \A t \in Threads : thread'[t].pc = "idle"
    BY <1>9 DEF WorkerCrash, IdleThread
  <2>2. ThreadsOK'
    BY <2>1 DEF ThreadsOK, ThreadOK
  <2>3. WorkflowOK(wf)'
    BY <1>9, WorkflowStable DEF WorkerCrash
  <2> QED BY <1>3, <1>4, <2>2, <2>3
<1> QED BY <1>6, <1>7, <1>8, <1>9 DEF RecoveryNext

\* The activity threads preserve it.
LEMMA ThreadStep ==
  ASSUME IInv, RowsGrow, NEW t \in Threads, ThreadNext(t)
  PROVE  ApiOK' /\ WorkflowOK(wf)' /\ (admission # "idle" => runStatus # "absent")'
         /\ ThreadsOK'
<1> USE DEF IInv
<1> DEFINE m == thread[t]
<1>1. UNCHANGED <<api, admission>>
  BY DEF ThreadNext, ClaimActivity, NodeMarksRunStarted, HydrateRun, HydrateNodes, PassOverNode,
         ExecuteNode, ApplyReusePlan, MarkRunCancelled, MarkRunFailed, SyncActivity,
         HeartbeatCancels, InterruptActivity, ActivityError, ReturnActivity
<1>2. runStatus = "absent" => runStatus' = "absent"
  <2>1. CASE SyncActivity(t)
    <3>1. m.pc # "idle"
      BY <2>1 DEF SyncActivity
    <3> QED BY <3>1, ExecFacts
  <2> QED
    BY <2>1
    DEF ThreadNext, ClaimActivity, NodeMarksRunStarted, MarkRunStarted, HydrateRun, HydrateNodes,
        PassOverNode, ExecuteNode, ApplyReusePlan, MarkRunCancelled, MarkRunFailed,
        HeartbeatCancels, InterruptActivity, ActivityError, ReturnActivity, db
<1>3. ApiOK' /\ (admission # "idle" => runStatus # "absent")'
  BY <1>1, <1>2, ApiStable DEF RowsGrow
<1>4. CASE ClaimActivity(t)
  <2> DEFINE e == [IdleThread EXCEPT
                    !.pc = IF wf.step = "node" THEN "start" ELSE "hydrate",
                    !.kind = wf.step,
                    !.node = IF wf.step = "reuse" THEN wf.plan ELSE wf.node]
             w == [wf EXCEPT !.worker = t]
  <2>1. /\ e.pc \in {"start", "hydrate"} /\ e.kind = wf.step
        /\ e.node = (IF wf.step = "reuse" THEN wf.plan ELSE wf.node)
        /\ e.cancelSeen = FALSE /\ e.result = "ok"
    BY DEF IdleThread
  <2>2. /\ w.state = wf.state /\ w.step = wf.step /\ w.node = wf.node
        /\ w.plan = wf.plan /\ w.worker = t /\ w.cancelRequested = wf.cancelRequested
    BY DEF TypeOK, WorkflowType
  <2>3. wf' = w /\ ThreadDo(t, e) /\ wf.state = "open" /\ UNCHANGED db
    BY <1>4 DEF ClaimActivity, Scheduled
  <2> HIDE DEF e, w
  <2>4. WorkflowOK(w)
    BY <2>2 DEF WorkflowOK
  <2>5. WorkflowOK(wf)'
    BY <2>3, <2>4, WorkflowStable
  <2>6. thread'[t] = e /\ \A u \in Threads \ {t} : thread'[u] = thread[u]
    BY <2>3 DEF ThreadDo, TypeOK
  <2>7. ASSUME NEW u \in Threads \ {t}
        PROVE  /\ ThreadOK(thread[u])'
               /\ (wf.worker = u /\ thread[u].pc # "idle" => CurrentOK(thread[u]))'
    BY <2>2, <2>3, <2>6, ThreadStable DEF ThreadsOK, SameAttempt
  <2>8. ThreadOK(e)
    BY <2>1, <2>3 DEF ThreadOK, WorkflowOK
  <2>9. ThreadOK(thread[t])'
    BY <2>1, <2>6, <2>8 DEF ThreadOK, RowsGrow, Reached
  <2>10. CurrentOK(thread[t])'
    BY <2>1, <2>2, <2>3, <2>6 DEF CurrentOK
  <2> QED BY <1>3, <2>5, <2>7, <2>9, <2>10 DEF ThreadsOK
<1>5. ASSUME UNCHANGED wf PROVE WorkflowOK(wf)'
  BY <1>5, WorkflowStable
<1>6. CASE \/ NodeMarksRunStarted(t) \/ HydrateRun(t) \/ HydrateNodes(t)
           \/ HeartbeatCancels(t)
           \/ InterruptActivity(t) \/ ActivityError(t)
  <2>1. UNCHANGED wf
    BY <1>6 DEF NodeMarksRunStarted, HydrateRun, HydrateNodes, HeartbeatCancels, InterruptActivity,
                ActivityError
  <2>2. m.pc # "idle" /\ \E e : MoveOK(t, e) /\ ThreadDo(t, e)
    BY <1>6, SmallMoveOK
  <2> QED BY <1>3, <1>5, <2>1, <2>2, ThreadMoves
<1>7. CASE \/ PassOverNode(t) \/ ExecuteNode(t)
           \/ ApplyReusePlan(t) \/ MarkRunCancelled(t) \/ MarkRunFailed(t)
  <2>1. UNCHANGED wf /\ m.pc # "idle"
    BY <1>7 DEF PassOverNode, ExecuteNode, ApplyReusePlan, MarkRunCancelled,
                MarkRunFailed, InNode
  <2>2. \E e : MoveOK(t, e) /\ ThreadDo(t, e)
    BY <1>7, PassOverOK, ExecuteOK, OtherActivityOK
  <2> QED BY <1>3, <1>5, <2>1, <2>2, ThreadMoves
<1>8. CASE SyncActivity(t)
  <2>1. UNCHANGED wf
    BY <1>8 DEF SyncActivity
  <2> QED BY <1>3, <1>5, <1>8, <2>1, SyncActivityOK
<1>9. CASE ReturnActivity(t)
  <2>1. /\ m.pc = "return" /\ ThreadDo(t, IdleThread)
        /\ wf' = IF wf.worker = t
                 THEN Resumed(IF m.cancelSeen THEN "cancelled" ELSE m.result, m.run)
                 ELSE wf
    BY <1>9 DEF ReturnActivity
  <2>2. thread'[t] = IdleThread /\ \A u \in Threads \ {t} : thread'[u] = thread[u]
    BY <2>1 DEF ThreadDo, TypeOK
  <2>3. CASE wf.worker # t
    <3>1. ThreadsOK'
      BY <2>1, <2>2, <2>3, ThreadStable
      DEF ThreadsOK, ThreadOK, SameAttempt, IdleThread
    <3> QED BY <1>3, <1>5, <2>1, <2>3, <3>1
  <2>4. CASE wf.worker = t
    <3> DEFINE r == IF m.cancelSeen THEN "cancelled" ELSE m.result
    <3>1. CurrentOK(m) /\ runStatus # "absent" /\ wf \in WorkflowType
      BY <2>1, <2>4 DEF ThreadsOK, ThreadOK, TypeOK
    <3>2. r = "cancelled" => runStatus \in Fence
      BY <3>1 DEF CurrentOK
    <3>3. m.result \in {"ok", "cancelled", "error"}
      BY DEF TypeOK, ThreadType
    <3>4. r \notin {"error", "cancelled"} =>
            /\ wf.step = "reuse" => Reached(wf.plan)
            /\ wf.step = "node" /\ m.run \notin Terminal => Reached(wf.node)
      BY <2>1, <3>1, <3>3 DEF CurrentOK
    <3>5. wf' = Resumed(r, m.run)
      BY <2>1, <2>4
    <3> HIDE DEF r
    <3>6. WorkflowOK(Resumed(r, m.run)) /\ Resumed(r, m.run).worker = NoThread
      BY <3>1, <3>2, <3>4, ResumedOK
    <3>7. WorkflowOK(wf)'
      BY <3>5, <3>6, WorkflowStable
    <3>8. ThreadsOK'
      BY <2>2, <3>5, <3>6, ThreadsAssumption, ThreadStable
      DEF ThreadsOK, ThreadOK, SameAttempt, IdleThread
    <3> QED BY <1>3, <3>7, <3>8
  <2> QED BY <2>3, <2>4
<1> QED BY <1>4, <1>6, <1>7, <1>8, <1>9 DEF ThreadNext

\* The initial state satisfies the invariant.
LEMMA InitInvariant == Init => IInv
<1> SUFFICES ASSUME Init PROVE IInv
  OBVIOUS
<1> USE DEF Init
<1>1. TypeOK
  <2>1. NoWorkflow \in WorkflowType
    BY NodesAssumption DEF NoWorkflow, WorkflowType, Plans
  <2>2. submit \in SubmitType
    BY DEF SubmitType, Plans
  <2>3. thread \in [Threads -> ThreadType]
    BY IdleThreadTyped
  <2> QED BY <2>1, <2>2, <2>3, FaultsAssumption DEF TypeOK, RunStatuses, JobStatuses
<1>2. RowsOK
  BY SomePrefixes DEF RowsOK, SucceededIsComplete, Fence
<1>3. ApiOK
  BY DEF ApiOK, Fence
<1>4. WorkflowOK(wf)
  BY DEF WorkflowOK, NoWorkflow
<1>5. ThreadsOK
  BY DEF ThreadsOK, ThreadOK, IdleThread
<1> QED BY <1>1, <1>2, <1>3, <1>4, <1>5 DEF IInv

\* The invariant is inductive.
LEMMA InvariantStep == IInv /\ [Next]_vars => IInv'
<1> SUFFICES ASSUME IInv, [Next]_vars PROVE IInv'
  OBVIOUS
<1>1. TypeOK'
  BY TypeStep
<1>2. RowsGrow /\ RowsOK'
  BY <1>1, StepContract, ContractGrows DEF IInv
<1>3. CASE Next
  <2>1. ApiOK' /\ WorkflowOK(wf)' /\ (admission # "idle" => runStatus # "absent")'
        /\ ThreadsOK'
    BY <1>2, <1>3, ApiStep, WorkflowStep, RecoveryStep, ThreadStep DEF Next
  <2> QED BY <1>1, <1>2, <2>1 DEF IInv
<1>4. CASE UNCHANGED vars
  <2>1. UNCHANGED <<db, api, wf, thread, admission>>
    BY <1>4 DEF vars, db, api
  <2>2. ApiOK'
    BY <1>2, <2>1, ApiStable DEF IInv, db
  <2>3. WorkflowOK(wf)'
    BY <1>2, <2>1, WorkflowStable DEF IInv
  <2>4. ThreadsOK'
    BY <1>2, <2>1, ThreadsStable DEF IInv, SameAttempt
  <2>5. (admission # "idle" => runStatus # "absent")'
    BY <1>2, <2>1 DEF IInv, RowsGrow
  <2> QED BY <1>1, <1>2, <2>2, <2>3, <2>4, <2>5 DEF IInv
<1> QED BY <1>3, <1>4

-----------------------------------------------------------------------------
(* The results.                                                             *)

\* In every reachable state the copies that processes hold, and the outcomes
\* they wait for, are ones that the rows can absorb.
THEOREM Invariant == Spec => []IInv
BY InitInvariant, InvariantStep, PTL DEF Spec

\* Every variable stays within its type: no position past the last node, no
\* status outside the state machines.
THEOREM TypeCorrect == Spec => []TypeOK
<1>1. IInv => TypeOK
  BY DEF IInv
<1> QED BY <1>1, Invariant, PTL

\* Success is complete: whatever snapshots race over the rows, a run never
\* reads succeeded while a node of its sequence has not committed.
THEOREM Completeness == Spec => []SucceededIsComplete
<1>1. IInv => SucceededIsComplete
  BY DEF IInv, RowsOK
<1> QED BY <1>1, Invariant, PTL

\* The fence precedes the signal: no workflow is told to cancel before the row
\* says so, and no snapshot takes that back.
THEOREM FenceFirst == Spec => []SignalFollowsFence
<1>1. IInv => SignalFollowsFence
  BY DEF IInv, WorkflowOK, SignalFollowsFence
<1> QED BY <1>1, Invariant, PTL

\* The API, the workflow, the worker and the recovery loop together keep the
\* contract of the rows.
THEOREM Implementation == Spec => ImplementsContract
<1>1. Init => Contract!ContractInit
  BY DEF Init, Contract!ContractInit, rowState
<1>2. IInv /\ [Next]_vars => [Contract!ContractNext]_(Contract!contractVars)
  BY StepContract DEF ContractStep
<1> QED
  BY <1>1, <1>2, Invariant, PTL DEF Spec, ImplementsContract, Contract!ContractSpec

-----------------------------------------------------------------------------
(* How the job follows the run, and how a run ends with its workflow.        *)

\* A run that has ended or must end; no step leads out of it.
Settled == runStatus \in Terminal \cup {"cancelling"}

Active == {"admitted", "running"}

\* A copy j of the job fits a copy r of the run.
Paired(r, j) ==
  /\ r = "cancelled" => j = "cancelled"
  /\ r \in Active => j \in {"queued", "running"}

\* What a thread in state m knows of the job and of the last node.
JobCopyOK(m) ==
  /\ m.pc \in {"nodes", "exec", "sync"} => Paired(m.run, m.job)
  /\ m.pc \in {"nodes", "exec"} /\ m.run \notin Active => Settled
  /\ m.pc \in {"exec", "sync"} /\ N \in m.done => Settled \/ m.run = "succeeded"
  /\ m.pc = "sync" => m.result = "ok"
  /\ m.pc = "sync" /\ m.kind = "fail" => m.run \in Terminal
  /\ m.pc # "idle" /\ m.kind = "reuse" => m.node # N

\* What the workflow may conclude from the attempt it waits for.
OutcomeOK(m) ==
  m.pc = "return" /\ m.result = "ok" =>
    /\ m.kind = "node" /\ (m.run \in Terminal \/ m.node = N) => Settled
    /\ m.kind = "fail" => Settled

RowsJobOK ==
  /\ Paired(runStatus, jobStatus)
  /\ N \in committed => Settled

ApiJobOK == apiRun \in Active => apiJob \in {"queued", "running"}

ThreadsJobOK ==
  \A t \in Threads : /\ JobCopyOK(thread[t])
                     /\ wf.worker = t => OutcomeOK(thread[t])

ClosedReleased == wf.state # "open" => wf.worker = NoThread

JobOK == RowsJobOK /\ ApiJobOK /\ ThreadsJobOK /\ ClosedReleased

\* An attempt that is lost or has failed.
Lost(m) == m.pc = "idle" \/ (m.pc = "return" /\ m.result = "error")

\* An attempt that is lost or fails while the run is not settled is the work of
\* a fault, and the attempt to mark the run failed comes after that fault.
OneFaultOK ==
  /\ wf.state = "closed" => Settled
  /\ wf.state = "open" /\ wf.step = "fail" => Settled \/ faults = 1
  /\ \A t \in Threads :
       /\ wf.worker = t /\ (faults = 0 \/ wf.step = "fail")
       /\ Lost(thread[t])
       => Settled

\* The rows, and how the job and the workflow go with them: before a second fault
\* the end of the workflow is the end of the run.
JobInv == IInv /\ JobOK
FaultInv == JobInv /\ (faults <= 1 => OneFaultOK)

-----------------------------------------------------------------------------
(* The rows.                                                                *)

\* What a step does to the rows that a copy may be written over.
RowsFit == RowsJobOK' /\ (Settled => Settled')

\* Writing a copy over the rows keeps run and job together, and settles the run
\* when the copy is settled or brings the last node.
LEMMA SyncFits ==
  ASSUME TypeOK, RowsJobOK, NEW r \in RunStatuses, NEW j \in JobStatuses, NEW d,
         Sync(r, j, d), r # "absent",
         r = "cancelled" => j = "cancelled" \/ runStatus = "cancelled",
         r \in Active => j \in {"queued", "running"},
         N \in d => Settled \/ r = "succeeded"
  PROVE  RowsFit /\ (r \notin Active => Settled')
<1> USE DEF Sync, SyncedRun, SyncedJob, SyncedNodes, Settled, Terminal, Fence, Active,
            RowsJobOK, Paired, TypeOK, RunStatuses, RowsFit
<1>1. CASE runStatus = "cancelling"
  BY <1>1
<1>2. CASE runStatus \in Terminal
  BY <1>2
<1>3. CASE runStatus \in {"absent", "admitted", "running"}
  BY <1>3
<1> QED
  BY <1>1, <1>2, <1>3

\* Starting an admitted run starts its job.
LEMMA MarkedFits ==
  ASSUME TypeOK, RowsJobOK, MarkRunStarted, UNCHANGED committed PROVE RowsFit
BY DEF MarkRunStarted, RowsFit, RowsJobOK, Paired, Settled, Terminal, Active

\* What the API process does to the rows and to its copies.
LEMMA ApiFits ==
  ASSUME IInv, JobOK, ApiNext
  PROVE  RowsFit /\ ApiJobOK'
<1> USE DEF db
<1>1. /\ TypeOK /\ RowsJobOK /\ ApiJobOK /\ ApiOK
      /\ apiRun \in RunStatuses /\ apiJob \in JobStatuses
  BY DEF IInv, JobOK, TypeOK
<1>2. /\ apiRun = "cancelled" => runStatus = "cancelled"
      /\ apiRun \in Active => apiJob \in {"queued", "running"}
  BY <1>1 DEF ApiOK, ApiJobOK
<1>3. ASSUME UNCHANGED <<runStatus, jobStatus, committed>> PROVE RowsFit
  BY <1>1, <1>3 DEF RowsFit, RowsJobOK, Paired, Settled
<1>4. CASE ApiSubmit
  <2>1. Sync("admitted", "queued", {}) /\ apiRun' = "admitted" /\ apiJob' = "queued"
    BY <1>4 DEF ApiSubmit
  <2>2. RowsFit
    BY <1>1, <2>1, SyncFits DEF RunStatuses, JobStatuses, Active
  <2> QED
    BY <2>1, <2>2 DEF ApiJobOK
<1>5. CASE ApiStartWorkflow \/ ApiCrash
  <2>1. UNCHANGED <<runStatus, jobStatus, committed>>
        /\ (apiRun' = "absent" \/ UNCHANGED <<apiRun, apiJob>>)
    BY <1>5 DEF ApiStartWorkflow, ApiCrash
  <2> QED
    BY <1>1, <1>3, <2>1 DEF ApiJobOK, Active
<1>6. ASSUME Sync(apiRun, apiJob, {}), apiRun # "absent", UNCHANGED <<apiRun, apiJob>>
      PROVE  RowsFit /\ ApiJobOK'
  <2>1. RowsFit
    BY <1>1, <1>2, <1>6, SyncFits
  <2> QED
    BY <1>1, <1>6, <2>1 DEF ApiJobOK
<1>7. CASE ApiFinishSubmit
  <2>1. Sync(apiRun, apiJob, {}) /\ UNCHANGED <<apiRun, apiJob>> /\ apiRun # "absent"
    BY <1>1, <1>7 DEF ApiFinishSubmit, ApiOK
  <2> QED
    BY <1>6, <2>1
<1>8. CASE ApiCompensate
  <2>1. CASE UNCHANGED <<runStatus, jobStatus, committed, apiRun, apiJob>>
    BY <1>1, <1>3, <2>1 DEF ApiJobOK
  <2>2. CASE Sync("failed", apiJob', {}) /\ apiRun' = "failed"
             /\ apiJob' \in JobStatuses
    <3>1. RowsFit
      BY <1>1, <2>2, SyncFits DEF RunStatuses, Active
    <3> QED
      BY <2>2, <3>1 DEF ApiJobOK, Active
  <2> QED
    BY <1>1, <1>8, <2>1, <2>2 DEF ApiCompensate, JobStatuses
<1>9. ASSUME NEW c \in Clients, ApiHydrate(c) PROVE RowsFit /\ ApiJobOK'
  <2>1. UNCHANGED <<runStatus, jobStatus, committed>> /\ apiRun' = runStatus
        /\ apiJob' = jobStatus
    BY <1>9 DEF ApiHydrate
  <2> QED
    BY <1>1, <1>3, <2>1 DEF ApiJobOK, RowsJobOK, Paired
<1>10. ASSUME NEW c \in Clients, NEW force \in BOOLEAN, RequestCancellation(c, force)
       PROVE  RowsFit /\ ApiJobOK'
  <2>1. apiRun' = runStatus' /\ committed' = committed /\ runStatus # "absent"
    BY <1>1, <1>10 DEF RequestCancellation, ApiOK
  <2>2. \/ runStatus \in Terminal /\ UNCHANGED <<runStatus, jobStatus>>
        \/ runStatus \in {"running", "cancelling"} /\ runStatus' = "cancelling"
        \/ /\ runStatus = "admitted" /\ runStatus' = "cancelled"
           /\ jobStatus' = IF jobStatus \in {"succeeded", "failed"}
                           THEN jobStatus ELSE "cancelled"
    BY <1>1, <1>10, <2>1 DEF RequestCancellation, TypeOK, RunStatuses, Terminal
  <2>3. RowsJobOK' /\ Settled'
    BY <1>1, <2>1, <2>2 DEF RowsJobOK, Paired, Settled, Terminal, Active
  <2> QED
    BY <2>1, <2>3 DEF RowsFit, ApiJobOK, Settled, Active, Terminal
<1>11. ASSUME NEW c \in Clients, ApiFinishCancel(c) PROVE RowsFit /\ ApiJobOK'
  <2>1. Sync(apiRun, apiJob, {}) /\ UNCHANGED <<apiRun, apiJob>> /\ apiRun # "absent"
    BY <1>1, <1>11 DEF ApiFinishCancel, ApiOK
  <2> QED
    BY <1>6, <2>1
<1>12. ASSUME NEW c \in Clients, SignalCancel(c) PROVE RowsFit /\ ApiJobOK'
  <2>1. UNCHANGED <<runStatus, jobStatus, committed, apiRun, apiJob>>
    BY <1>12 DEF SignalCancel
  <2> QED
    BY <1>1, <1>3, <2>1 DEF ApiJobOK
<1> QED
  BY <1>4, <1>5, <1>7, <1>8, <1>9, <1>10, <1>11, <1>12 DEF ApiNext

-----------------------------------------------------------------------------
(* The threads.                                                             *)

\* A copy that fits the rows still fits them when the run settles.
LEMMA JobCopyStable ==
  ASSUME NEW t \in Threads, thread'[t] = thread[t], JobCopyOK(thread[t]),
         Settled => Settled'
  PROVE  JobCopyOK(thread[t])' /\ (OutcomeOK(thread[t]) => OutcomeOK(thread[t])')
BY DEF JobCopyOK, OutcomeOK, Paired

\* Steps that touch no thread.
LEMMA JobThreadsStable ==
  ASSUME ThreadsJobOK, Settled => Settled', UNCHANGED thread,
         \A t \in Threads : wf'.worker = t => wf.worker = t
  PROVE  ThreadsJobOK'
BY JobCopyStable DEF ThreadsJobOK

\* e is what thread t may become, short of syncing or giving its outcome back:
\* its outcome is what it was, and only a fault makes it fail while the run is not settled.
JobMoveOK(t, e) ==
  /\ e.pc # "idle" /\ JobCopyOK(e)
  /\ e.pc = "return" /\ e.result = "ok"
       => (OutcomeOK(thread[t]) => OutcomeOK(e))
  /\ e.pc = "return" /\ e.result = "error" =>
       \/ Settled \/ faults' = faults + 1
       \/ thread[t].pc = "return" /\ thread[t].result = "error"

\* Once it is about to sync or failed, a copy has these fields only.
LEMMA JobToSync ==
  ASSUME NEW t \in Threads, NEW m \in ThreadType, Paired(m.run, m.job),
         N \in m.done => Settled \/ m.run = "succeeded",
         m.kind = "fail" => m.run \in Terminal,
         m.kind = "reuse" => m.node # N
  PROVE  JobMoveOK(t, ToSync(m))
<1> DEFINE e == ToSync(m)
<1>1. /\ e.pc = "sync" /\ e.result = "ok" /\ e.kind = m.kind /\ e.node = m.node
      /\ e.run = m.run /\ e.done = m.done
  BY EndFields
<1>2. e.job = m.job
  BY DEF ToSync, ThreadType
<1> HIDE DEF e
<1>3. JobMoveOK(t, e)
  BY <1>1, <1>2 DEF JobMoveOK, JobCopyOK
<1> QED
  BY <1>3 DEF e

\* A failure.
LEMMA JobFail ==
  ASSUME NEW t \in Threads, NEW m \in ThreadType,
         Settled \/ faults' = faults + 1,
         m.kind = "reuse" => m.node # N
  PROVE  JobMoveOK(t, Fail(m))
<1> DEFINE e == Fail(m)
<1>1. e.pc = "return" /\ e.result = "error" /\ e.kind = m.kind /\ e.node = m.node
  BY EndFields
<1> HIDE DEF e
<1>2. JobMoveOK(t, e)
  BY <1>1 DEF JobMoveOK, JobCopyOK
<1> QED
  BY <1>2 DEF e

\* What is known of a thread that has read the rows.
LEMMA JobExecFacts ==
  ASSUME IInv, JobOK, NEW t \in Threads, thread[t].pc = "exec"
  PROVE  /\ thread[t] \in ThreadType /\ Paired(thread[t].run, thread[t].job)
         /\ thread[t].run \notin Active => Settled
         /\ N \in thread[t].done => Settled \/ thread[t].run = "succeeded"
         /\ thread[t].kind = "reuse" => thread[t].node # N
         /\ thread[t].run # "absent"
BY DEF IInv, TypeOK, ThreadsOK, ThreadOK, CopyOK, JobOK, ThreadsJobOK, JobCopyOK

\* _mark_cancelled fails only on a run that is settled.
LEMMA JobMarkCancelled ==
  ASSUME NEW t \in Threads, NEW m \in ThreadType, Settled, Paired(m.run, m.job),
         m.kind = "reuse" => m.node # N
  PROVE  JobMoveOK(t, MarkCancelled(m))
<1> DEFINE e == [m EXCEPT !.run = "cancelled", !.job = "cancelled"]
<1>1. /\ e \in ThreadType /\ e.kind = m.kind /\ e.node = m.node
      /\ e.done = m.done /\ e.run = "cancelled" /\ e.job = "cancelled"
  <2>1. e \in ThreadType
    BY StatusTyped DEF RunStatuses, JobStatuses
  <2> QED
    BY <2>1 DEF ThreadType
<1> HIDE DEF e
<1>2. JobMoveOK(t, ToSync(e))
  BY <1>1, JobToSync DEF Paired, Terminal, Active
<1>3. m.run = "cancelled" => JobMoveOK(t, ToSync(m))
  BY JobToSync DEF Terminal
<1>4. JobMoveOK(t, Fail(m))
  BY JobFail
<1> QED
  BY <1>2, <1>3, <1>4 DEF MarkCancelled, e

\* _complete_run fails only on a job that is not running.
LEMMA JobCompleteRun ==
  ASSUME NEW t \in Threads, NEW m \in ThreadType, m.kind = "node",
         m.job = "running" \/ Settled
  PROVE  JobMoveOK(t, CompleteRun(m))
<1> DEFINE e == [m EXCEPT !.run = "succeeded", !.job = "succeeded"]
<1>1. /\ e \in ThreadType /\ e.kind = m.kind /\ e.node = m.node
      /\ e.done = m.done /\ e.run = "succeeded" /\ e.job = "succeeded"
  <2>1. e \in ThreadType
    BY StatusTyped DEF RunStatuses, JobStatuses
  <2> QED
    BY <2>1 DEF ThreadType
<1> HIDE DEF e
<1>2. JobMoveOK(t, ToSync(e))
  BY <1>1, JobToSync DEF Paired, Active
<1>3. Settled => JobMoveOK(t, Fail(m))
  BY JobFail
<1>4. m.job = "running" => JobMay(m.job, "succeeded")
  BY DEF JobMay, JobTransitions
<1> QED
  BY <1>2, <1>3, <1>4 DEF CompleteRun, e

\* Executing a node: nothing but a fault stops it on its way.
LEMMA JobExecute ==
  ASSUME IInv, JobOK, NEW t \in Threads, ExecuteNode(t)
  PROVE  \E e : JobMoveOK(t, e) /\ ThreadDo(t, e)
<1> DEFINE m == thread[t]
<1>1. /\ m.pc = "exec" /\ m.kind = "node" /\ m.node \notin m.done
      /\ m.run \in Active
  BY DEF ExecuteNode, InNode, WillExecute, Active
<1>2. /\ m \in ThreadType /\ m.node \in Nodes /\ m.job \in {"queued", "running"}
      /\ N \in m.done => Settled
  BY <1>1, ExecFacts, JobExecFacts DEF Paired, Active
<1>3. JobMay(m.job, "running")
  BY <1>2 DEF JobMay, JobTransitions
<1> DEFINE r == Entered(m)
           f == [r EXCEPT !.done = @ \cup {r.node}]
           x == [r EXCEPT !.run = "failed", !.job = "failed"]
<1>4. /\ r \in ThreadType /\ r.kind = "node" /\ r.node = m.node /\ r.done = m.done
      /\ r.run = "running" /\ r.job = "running"
  <2>1. r \in ThreadType
    BY <1>2, NodeTyped
  <2> QED
    BY <1>1, <1>2, <2>1 DEF Entered, ThreadType
<1> HIDE DEF r
<1>5. /\ f \in ThreadType /\ f.kind = "node" /\ f.run = "running" /\ f.job = "running"
      /\ f.done = m.done \cup {m.node}
  BY <1>2, <1>4 DEF ThreadType
<1>6. /\ x \in ThreadType /\ x.kind = "node" /\ x.run = "failed" /\ x.job = "failed"
      /\ x.done = m.done
  <2>1. x \in ThreadType
    BY <1>4, StatusTyped DEF RunStatuses, JobStatuses
  <2> QED
    BY <1>4, <2>1 DEF ThreadType
<1> HIDE DEF f, x
<1>7. JobMoveOK(t, NodeSucceeded(r))
  <2>1. m.node = N => JobMoveOK(t, CompleteRun(f))
    BY <1>5, JobCompleteRun
  <2>2. m.node # N => JobMoveOK(t, ToSync(f))
    BY <1>2, <1>5, JobToSync DEF Paired, Active
  <2> QED
    BY <1>4, <2>1, <2>2 DEF NodeSucceeded, f
<1>8. JobMoveOK(t, NodeFailed(r))
  <2>1. JobMoveOK(t, ToSync(x))
    BY <1>2, <1>6, JobToSync DEF Paired, Active
  <2> QED
    BY <2>1 DEF NodeFailed, x
<1>9. JobMoveOK(t, [m EXCEPT !.pc = "return", !.result = "cancelled"])
  <2> DEFINE c == [m EXCEPT !.pc = "return", !.result = "cancelled"]
  <2>1. c.pc = "return" /\ c.result = "cancelled" /\ c.kind = "node"
    BY <1>1, <1>2 DEF ThreadType
  <2> HIDE DEF c
  <2>2. JobMoveOK(t, c)
    BY <2>1 DEF JobMoveOK, JobCopyOK
  <2> QED
    BY <2>2 DEF c
<1> QED
  BY <1>3, <1>7, <1>8, <1>9 DEF ExecuteNode, r

\* Passing over a node fails only on a run that is settled.
LEMMA JobPassOver ==
  ASSUME IInv, JobOK, NEW t \in Threads, PassOverNode(t)
  PROVE  \E e : JobMoveOK(t, e) /\ ThreadDo(t, e)
<1> DEFINE m == thread[t]
<1>1. m.pc = "exec" /\ m.kind = "node" /\ ~WillExecute(m)
  BY DEF PassOverNode, InNode
<1>2. /\ m \in ThreadType /\ Paired(m.run, m.job) /\ (m.run \notin Active => Settled)
      /\ N \in m.done => Settled \/ m.run = "succeeded"
  BY <1>1, JobExecFacts
<1>3. CASE m.node \in m.done
  <2>1. JobMoveOK(t, ToSync(m))
    BY <1>1, <1>2, JobToSync
  <2>2. m.node = N => JobMoveOK(t, CompleteRun(m))
    BY <1>1, <1>2, <1>3, JobCompleteRun DEF Active
  <2> QED
    BY <1>3, <2>1, <2>2 DEF PassOverNode
<1>4. CASE m.node \notin m.done
  <2> DEFINE j == [m EXCEPT !.job = "running"]
  <2>1. Settled /\ m.run \notin Active
    BY <1>1, <1>2, <1>4 DEF WillExecute, Active
  <2>2. /\ j \in ThreadType /\ j.kind = m.kind /\ j.node = m.node /\ j.done = m.done
        /\ j.run = m.run
    BY <1>2 DEF ThreadType, JobStatuses
  <2> HIDE DEF j
  <2>3. m.run \notin Fence => JobMoveOK(t, ToSync(j))
    BY <1>1, <2>1, <2>2, JobToSync DEF Paired, Fence
  <2>4. JobMoveOK(t, MarkCancelled(m)) /\ JobMoveOK(t, Fail(m))
    BY <1>1, <1>2, <2>1, JobMarkCancelled, JobFail
  <2> QED
    BY <1>4, <2>3, <2>4 DEF PassOverNode, j
<1> QED
  BY <1>3, <1>4

\* The three activities that do not execute a node.
LEMMA JobOtherActivity ==
  ASSUME IInv, JobOK, NEW t \in Threads,
         ApplyReusePlan(t) \/ MarkRunCancelled(t) \/ MarkRunFailed(t)
  PROVE  \E e : JobMoveOK(t, e) /\ ThreadDo(t, e)
<1> DEFINE m == thread[t]
<1>1. m.pc = "exec"
  BY DEF ApplyReusePlan, MarkRunCancelled, MarkRunFailed
<1>2. /\ m \in ThreadType /\ Paired(m.run, m.job) /\ (m.run \notin Active => Settled)
      /\ N \in m.done => Settled \/ m.run = "succeeded"
      /\ m.kind = "reuse" => m.node # N
      /\ m.kind = "cancel" => Settled
  BY <1>1, JobExecFacts, ExecFacts DEF Settled, Fence, Terminal
<1>3. CASE ApplyReusePlan(t)
  <2> DEFINE d == [m EXCEPT !.done = @ \cup 1..m.node]
  <2>1. m.kind = "reuse" /\ m.node \in 0..N /\ 1..m.node \subseteq Nodes
    BY <1>2, <1>3, NodesAssumption DEF ApplyReusePlan, ThreadType, Nodes
  <2>2. /\ d \in ThreadType /\ d.kind = m.kind /\ d.node = m.node /\ d.run = m.run
        /\ d.job = m.job /\ d.done = m.done \cup 1..m.node
    BY <1>2, <2>1 DEF ThreadType
  <2> HIDE DEF d
  <2>3. N \notin 1..m.node
    BY <1>2, <2>1, NodesAssumption
  <2>4. JobMoveOK(t, ToSync(d))
    BY <1>2, <2>1, <2>2, <2>3, JobToSync
  <2> QED
    BY <1>3, <2>4 DEF ApplyReusePlan, d
<1>4. CASE MarkRunCancelled(t)
  <2>1. m.kind = "cancel"
    BY <1>4 DEF MarkRunCancelled
  <2>2. JobMoveOK(t, MarkCancelled(m)) /\ JobMoveOK(t, Fail(m))
    BY <1>2, <2>1, JobMarkCancelled, JobFail
  <2> QED
    BY <1>4, <2>2 DEF MarkRunCancelled
<1>5. CASE MarkRunFailed(t)
  <2>1. m.kind = "fail"
    BY <1>5 DEF MarkRunFailed
  <2>2. m.run \in Terminal => JobMoveOK(t, ToSync(m))
    BY <1>2, <2>1, JobToSync
  <2>3. m.run = "cancelling" => JobMoveOK(t, MarkCancelled(m))
    BY <1>2, <2>1, JobMarkCancelled DEF Active
  <2> DEFINE f == [m EXCEPT !.run = "failed",
                            !.job = IF @ = "running" THEN "failed" ELSE @]
  <2>4. /\ f \in ThreadType /\ f.kind = m.kind /\ f.node = m.node
        /\ f.done = m.done /\ f.run = "failed"
    BY <1>2 DEF ThreadType, RunStatuses, JobStatuses
  <2> HIDE DEF f
  <2>5. m.run \notin Terminal => JobMoveOK(t, ToSync(f))
    BY <1>2, <2>1, <2>4, JobToSync DEF Paired, Active, Terminal
  <2> QED
    BY <1>5, <2>2, <2>3, <2>5 DEF MarkRunFailed, f
<1> QED
  BY <1>3, <1>4, <1>5

\* Starting, reading, being told of a cancellation, breaking off.
LEMMA JobSmallMove ==
  ASSUME IInv, JobOK, NEW t \in Threads,
         \/ NodeMarksRunStarted(t) \/ HydrateRun(t) \/ HydrateNodes(t)
         \/ HeartbeatCancels(t) \/ InterruptActivity(t) \/ ActivityError(t)
  PROVE  \E e : JobMoveOK(t, e) /\ ThreadDo(t, e)
<1> DEFINE m == thread[t]
<1>1. /\ m \in ThreadType /\ m.pc # "idle" /\ JobCopyOK(m) /\ runStatus # "absent"
      /\ RowsJobOK /\ TypeOK /\ ThreadOK(m)
  <2>1. m.pc # "idle"
    BY DEF NodeMarksRunStarted, HydrateRun, HydrateNodes, HeartbeatCancels,
           InterruptActivity, ActivityError, Hydrating
  <2> QED
    BY <2>1, ExecFacts DEF JobOK, ThreadsJobOK, IInv
<1>2. m.kind = "reuse" => m.node # N
  BY <1>1 DEF JobCopyOK
<1>3. CASE NodeMarksRunStarted(t)
  <2> DEFINE e == [m EXCEPT !.pc = "hydrate"]
  <2>1. e.pc = "hydrate" /\ e.kind = m.kind /\ e.node = m.node
    BY <1>1 DEF ThreadType
  <2>2. ThreadDo(t, e)
    BY <1>3 DEF NodeMarksRunStarted
  <2> HIDE DEF e
  <2> QED
    BY <1>2, <2>1, <2>2 DEF JobMoveOK, JobCopyOK
<1>4. CASE HydrateRun(t)
  <2> DEFINE e == [m EXCEPT !.pc = "nodes", !.run = runStatus, !.job = jobStatus]
  <2>1. /\ e.pc = "nodes" /\ e.kind = m.kind /\ e.node = m.node
        /\ e.run = runStatus /\ e.job = jobStatus
    BY <1>1 DEF ThreadType
  <2>2. ThreadDo(t, e)
    BY <1>4 DEF HydrateRun
  <2> HIDE DEF e
  <2>3. runStatus \notin Active => Settled
    BY <1>1 DEF TypeOK, RunStatuses, Settled, Terminal, Active
  <2> QED
    BY <1>1, <1>2, <2>1, <2>2, <2>3 DEF JobMoveOK, JobCopyOK, RowsJobOK
<1>5. CASE HydrateNodes(t)
  <2> DEFINE e == [m EXCEPT !.pc = "exec", !.done = committed]
  <2>1. /\ e.pc = "exec" /\ e.kind = m.kind /\ e.node = m.node
        /\ e.run = m.run /\ e.job = m.job /\ e.done = committed
    BY <1>1 DEF ThreadType
  <2>2. m.pc = "nodes" /\ ThreadDo(t, e)
    BY <1>5 DEF HydrateNodes
  <2> HIDE DEF e
  <2> QED
    BY <1>1, <1>2, <2>1, <2>2 DEF JobMoveOK, JobCopyOK, RowsJobOK
<1>6. CASE HeartbeatCancels(t)
  <2> DEFINE e == [m EXCEPT !.cancelSeen = TRUE]
  <2>1. /\ e.pc = m.pc /\ e.kind = m.kind /\ e.node = m.node /\ e.run = m.run
        /\ e.job = m.job /\ e.done = m.done /\ e.result = m.result
    BY <1>1 DEF ThreadType
  <2>2. ThreadDo(t, e) /\ m.kind = "node" /\ (wf.worker = t => runStatus \in Fence)
    BY <1>6 DEF HeartbeatCancels, IInv, WorkflowOK
  <2> HIDE DEF e
  <2>4. JobCopyOK(e)
    BY <1>1, <2>1 DEF JobCopyOK
  <2> QED
    BY <1>1, <2>1, <2>2, <2>4 DEF JobMoveOK, OutcomeOK
<1>7. CASE InterruptActivity(t)
  <2> DEFINE e == [m EXCEPT !.pc = "return", !.result = "cancelled"]
  <2>1. /\ e.pc = "return" /\ e.kind = m.kind /\ e.node = m.node
        /\ e.result = "cancelled"
    BY <1>1 DEF ThreadType
  <2>2. ThreadDo(t, e)
    BY <1>7 DEF InterruptActivity
  <2> HIDE DEF e
  <2> QED
    BY <1>2, <2>1, <2>2 DEF JobMoveOK, JobCopyOK
<1>8. CASE ActivityError(t)
  <2>1. faults' = faults + 1 /\ ThreadDo(t, Fail(m))
    BY <1>8 DEF ActivityError, Fault
  <2> QED
    BY <1>1, <1>2, <2>1, JobFail
<1> QED
  BY <1>3, <1>4, <1>5, <1>6, <1>7, <1>8

\* A step of one thread that leaves the rows' settlement and the workflow alone.
LEMMA JobThreadMoves ==
  ASSUME TypeOK, ThreadsJobOK, Settled => Settled', UNCHANGED wf,
         NEW t \in Threads, NEW e, JobMoveOK(t, e), ThreadDo(t, e)
  PROVE  ThreadsJobOK'
<1>1. thread'[t] = e /\ \A u \in Threads \ {t} : thread'[u] = thread[u]
  BY DEF ThreadDo, TypeOK
<1>2. ASSUME NEW u \in Threads \ {t}
      PROVE  JobCopyOK(thread[u])' /\ (wf'.worker = u => OutcomeOK(thread[u])')
  BY <1>1, JobCopyStable DEF ThreadsJobOK
<1>3. JobCopyOK(thread[t])'
  BY <1>1 DEF JobMoveOK, JobCopyOK, Paired
<1>4. wf'.worker = t => OutcomeOK(thread[t])'
  BY <1>1 DEF JobMoveOK, ThreadsJobOK, OutcomeOK
<1> QED
  BY <1>1, <1>2, <1>3, <1>4 DEF ThreadsJobOK

\* The sync of an activity: its copy goes into the rows, and what it made of the
\* run settles it.
LEMMA JobSync ==
  ASSUME IInv, JobOK, NEW t \in Threads, SyncActivity(t)
  PROVE  RowsFit /\ ThreadsJobOK'
<1> DEFINE m == thread[t]
           e == [m EXCEPT !.pc = "return"]
<1>1. /\ m.pc = "sync" /\ Sync(m.run, m.job, m.done) /\ ThreadDo(t, e) /\ wf' = wf
  BY DEF SyncActivity
<1>2. /\ m \in ThreadType /\ JobCopyOK(m) /\ RowsJobOK /\ TypeOK /\ ThreadOK(m)
      /\ CopyOK(m)
  BY <1>1, ExecFacts DEF JobOK, ThreadsJobOK, IInv
<1>3. RowsFit /\ (m.run \notin Active => Settled')
  <2>1. m.run \in RunStatuses /\ m.job \in JobStatuses
    BY <1>2 DEF ThreadType
  <2> QED
    BY <1>1, <1>2, <2>1, SyncFits DEF JobCopyOK, CopyOK, Paired
<1>4. /\ e.pc = "return" /\ e.kind = m.kind /\ e.node = m.node /\ e.run = m.run
      /\ e.result = m.result /\ e.done = m.done /\ e.job = m.job
  BY <1>2 DEF ThreadType
<1> HIDE DEF e
<1>5. thread'[t] = e /\ \A u \in Threads \ {t} : thread'[u] = thread[u]
  BY <1>1, <1>2 DEF ThreadDo, TypeOK
<1>6. ASSUME NEW u \in Threads \ {t}
      PROVE  JobCopyOK(thread[u])' /\ (wf'.worker = u => OutcomeOK(thread[u])')
  BY <1>1, <1>3, <1>5, JobCopyStable DEF JobOK, ThreadsJobOK, RowsFit
<1>7. JobCopyOK(thread[t])'
  BY <1>1, <1>2, <1>4, <1>5 DEF JobCopyOK
<1>8. m.kind = "node" /\ (m.run \in Terminal \/ m.node = N) => Settled'
  <2>1. m.run \in Terminal => Settled'
    BY <1>3 DEF Terminal, Active
  <2>2. ASSUME m.kind = "node", m.node = N, m.run \notin Terminal PROVE Settled'
    <3>1. 1..N \subseteq m.done
      BY <1>1, <1>2, <2>2 DEF ThreadOK
    <3>2. N \in m.done
      BY <3>1, NodesAssumption
    <3> QED
      BY <1>1, <1>2, <1>3, <2>2, <3>2 DEF JobCopyOK, RowsFit, Terminal
  <2> QED
    BY <2>1, <2>2
<1>9. m.kind = "fail" => Settled'
  BY <1>1, <1>2, <1>3 DEF JobCopyOK, Terminal, Active
<1>10. OutcomeOK(thread[t])'
  BY <1>4, <1>5, <1>8, <1>9 DEF OutcomeOK
<1> QED
  BY <1>1, <1>3, <1>5, <1>6, <1>7, <1>10 DEF ThreadsJobOK

\* Claiming an activity: nothing has been read yet.
LEMMA JobClaim ==
  ASSUME IInv, JobOK, NEW t \in Threads, ClaimActivity(t)
  PROVE  /\ ThreadsJobOK' /\ wf'.state = "open" /\ wf'.step = wf.step
         /\ wf'.worker = t /\ thread'[t].pc \in {"start", "hydrate"}
         /\ \A u \in Threads \ {t} : thread'[u] = thread[u]
<1> DEFINE e == [IdleThread EXCEPT
                  !.pc = IF wf.step = "node" THEN "start" ELSE "hydrate",
                  !.kind = wf.step,
                  !.node = IF wf.step = "reuse" THEN wf.plan ELSE wf.node]
           w == [wf EXCEPT !.worker = t]
<1>1. /\ e.pc \in {"start", "hydrate"} /\ e.kind = wf.step
      /\ wf.step = "reuse" => e.node = wf.plan
  BY DEF IdleThread
<1>2. w.state = wf.state /\ w.step = wf.step /\ w.worker = t
  BY DEF IInv, TypeOK, WorkflowType
<1>3. wf' = w /\ ThreadDo(t, e) /\ wf.state = "open" /\ UNCHANGED db
  BY DEF ClaimActivity, Scheduled
<1> HIDE DEF e, w
<1>4. thread'[t] = e /\ \A u \in Threads \ {t} : thread'[u] = thread[u]
  BY <1>3 DEF ThreadDo, IInv, TypeOK
<1>5. wf.step = "reuse" => wf.plan # N
  BY NodesAssumption DEF IInv, TypeOK, WorkflowType, WorkflowOK, Plans, NoPlan
<1>6. Settled => Settled'
  BY <1>3 DEF db, Settled
<1>7. ASSUME NEW u \in Threads \ {t} PROVE JobCopyOK(thread[u])'
  BY <1>4, <1>6, JobCopyStable DEF JobOK, ThreadsJobOK
<1>8. JobCopyOK(thread[t])' /\ OutcomeOK(thread[t])'
  BY <1>1, <1>4, <1>5 DEF JobCopyOK, OutcomeOK
<1> QED
  BY <1>1, <1>2, <1>3, <1>4, <1>7, <1>8 DEF ThreadsJobOK

-----------------------------------------------------------------------------
(* The workflow.                                                            *)

\* Where a position written by Schedule, Closed or a retry is.
LEMMA Positions ==
  ASSUME wf \in WorkflowType
  PROVE  /\ Closed.state = "closed" /\ Closed.worker = NoThread
         /\ Closed.step = wf.step
         /\ \A s, n : /\ Schedule(s, n).state = wf.state
                      /\ Schedule(s, n).worker = NoThread
                      /\ Schedule(s, n).step = s
         /\ ActivityLost.worker = NoThread
         /\ ActivityLost.state \in {wf.state, "closed"}
         /\ ActivityLost.state = "closed" => wf.state = "closed" \/ wf.step = "fail"
         /\ AttemptFailed.worker = NoThread
         /\ AttemptFailed.state \in {wf.state, "closed"}
         /\ AttemptFailed.state = "closed" => wf.state = "closed" \/ wf.step = "fail"
<1>1. /\ Closed.state = "closed" /\ Closed.worker = NoThread /\ Closed.step = wf.step
  BY DEF Closed, WorkflowType
<1>2. \A s, n : /\ Schedule(s, n).state = wf.state
               /\ Schedule(s, n).worker = NoThread
               /\ Schedule(s, n).step = s
  BY DEF Schedule, WorkflowType
<1>3. /\ ActivityLost.worker = NoThread
      /\ ActivityLost.state \in {wf.state, "closed"}
      /\ ActivityLost.state = "closed" => wf.state = "closed" \/ wf.step = "fail"
  BY <1>1, <1>2 DEF ActivityLost
<1> DEFINE a == IF wf.step = "cancel" THEN wf.attempt ELSE wf.attempt + 1
           w == [wf EXCEPT !.worker = NoThread, !.attempt = a]
<1> HIDE DEF a
<1>4. w.worker = NoThread /\ w.state = wf.state /\ w.step = wf.step
  BY DEF WorkflowType
<1>5. AttemptFailed = IF MayRetry THEN w ELSE ActivityLost
  BY DEF AttemptFailed, a
<1> HIDE DEF w
<1> QED
  BY <1>1, <1>2, <1>3, <1>4, <1>5

\* The loop over the nodes ends after the last.
LEMMA NextPosition ==
  ASSUME wf \in WorkflowType, NEW n
  PROVE  /\ NextNode(n).worker = NoThread
         /\ n # N => NextNode(n).state = wf.state /\ NextNode(n).step # "fail"
         /\ n = N => NextNode(n).state = "closed"
BY Positions DEF NextNode

\* Where run() goes with an outcome: it ends with the last node, with an ended
\* run, after _cancel and after the reconciliation.
LEMMA ResumedPosition ==
  ASSUME IInv, NEW result, NEW run, wf.state = "open", wf.step # "begin",
         result \notin {"error", "cancelled"} =>
           /\ wf.step = "node" /\ (run \in Terminal \/ wf.node = N) => Settled
           /\ wf.step = "fail" => Settled
  PROVE  /\ Resumed(result, run).worker = NoThread
         /\ Resumed(result, run).state = "closed" =>
              Settled \/ (result = "error" /\ wf.step = "fail")
         /\ Resumed(result, run).state = "open" /\ Resumed(result, run).step = "fail"
              => result = "error"
<1>1. wf \in WorkflowType /\ (wf.step = "cancel" => Settled)
  BY DEF IInv, TypeOK, WorkflowOK, Fence, Settled, Terminal
<1>2. wf.step = "reuse" => wf.plan # N
  BY NodesAssumption DEF IInv, TypeOK, WorkflowType, WorkflowOK, Plans, NoPlan
<1>3. CASE result = "error"
  BY <1>1, <1>3, Positions DEF Resumed
<1>4. CASE result = "cancelled"
  BY <1>1, <1>4, Positions DEF Resumed
<1>5. CASE result \notin {"error", "cancelled"} /\ wf.step = "reuse"
  <2>1. Resumed(result, run) = NextNode(wf.plan)
    BY <1>5 DEF Resumed, AfterActivity
  <2>2. /\ NextNode(wf.plan).worker = NoThread /\ NextNode(wf.plan).state = "open"
        /\ NextNode(wf.plan).step # "fail"
    BY <1>1, <1>2, <1>5, NextPosition
  <2> QED
    BY <2>1, <2>2
<1>6. CASE result \notin {"error", "cancelled"} /\ wf.step = "node"
  <2>1. Resumed(result, run) = IF run \in Terminal THEN Closed ELSE NextNode(wf.node)
    BY <1>6 DEF Resumed, AfterActivity
  <2>2. run \in Terminal => Settled
    BY <1>6
  <2>3. wf.node = N => Settled
    BY <1>6
  <2>4. Resumed(result, run) = Closed =>
          Resumed(result, run).state = "closed" /\ Resumed(result, run).worker = NoThread
    BY <1>1, Positions
  <2> QED
    BY <1>1, <2>1, <2>2, <2>3, <2>4, NextPosition
<1>7. CASE result \notin {"error", "cancelled"} /\ wf.step \in {"cancel", "fail"}
  <2>1. Resumed(result, run) = Closed /\ Settled
    BY <1>1, <1>7 DEF Resumed, AfterActivity
  <2> QED
    BY <1>1, <2>1, Positions
<1> QED
  BY <1>1, <1>3, <1>4, <1>5, <1>6, <1>7 DEF WorkflowType

-----------------------------------------------------------------------------
(* One step.                                                                *)

\* The workflow, the server's timeouts, admission and the recovery loop.
LEMMA JobOtherSteps ==
  ASSUME IInv, JobOK, ApiNext \/ WorkflowNext \/ RecoveryNext
  PROVE  /\ \A t \in Threads : wf'.worker = t => wf.worker = t
         /\ ClosedReleased'
         /\ thread' = thread \/ WorkerCrash
<1>1. wf \in WorkflowType /\ ClosedReleased /\ \A t \in Threads : NoThread # t
  BY ThreadsAssumption DEF IInv, TypeOK, JobOK
<1>2. ASSUME wf' = wf
      PROVE  (\A t \in Threads : wf'.worker = t => wf.worker = t) /\ ClosedReleased'
  BY <1>1, <1>2 DEF ClosedReleased
<1>3. ASSUME wf'.worker = NoThread
      PROVE  (\A t \in Threads : wf'.worker = t => wf.worker = t) /\ ClosedReleased'
  BY <1>1, <1>3 DEF ClosedReleased
<1>4. ASSUME wf' = [wf EXCEPT !.cancelRequested = TRUE]
      PROVE  (\A t \in Threads : wf'.worker = t => wf.worker = t) /\ ClosedReleased'
  BY <1>1, <1>4 DEF ClosedReleased, WorkflowType
<1>5. ASSUME NEW plan, StartWorkflow(plan)
      PROVE  (\A t \in Threads : wf'.worker = t => wf.worker = t) /\ ClosedReleased'
  <2>1. [NoWorkflow EXCEPT !.state = "open", !.plan = plan].worker = NoThread
    BY DEF NoWorkflow
  <2> QED
    BY <1>2, <1>3, <1>5, <2>1 DEF StartWorkflow
<1>6. CASE ApiNext
  <2>1. \/ wf' = wf \/ wf' = [wf EXCEPT !.cancelRequested = TRUE]
        \/ StartWorkflow(submit.plan)
    BY <1>6 DEF ApiNext, ApiSubmit, ApiStartWorkflow, ApiFinishSubmit, ApiCompensate,
       ApiCrash, ApiHydrate, RequestCancellation, SignalCancel, ApiFinishCancel
  <2>2. thread' = thread
    BY <1>6 DEF ApiNext, ApiSubmit, ApiStartWorkflow, ApiFinishSubmit, ApiCompensate,
       ApiCrash, ApiHydrate, RequestCancellation, SignalCancel, ApiFinishCancel, worker
  <2> QED
    BY <1>2, <1>4, <1>5, <2>1, <2>2
<1>7. CASE WorkflowNext
  <2>1. thread' = thread
    BY <1>7 DEF WorkflowNext, WorkflowBegin, CancelUnclaimed, LostAttempt,
                AttemptTimeout, ActivityTimeout, worker
  <2>2. wf'.worker = NoThread
    BY <1>1, <1>7, Positions, NextPosition
    DEF WorkflowNext, WorkflowBegin, CancelUnclaimed, LostAttempt, AttemptTimeout,
        ActivityTimeout
  <2> QED
    BY <1>3, <2>1, <2>2
<1>8. CASE RecoveryNext
  <2>1. \/ wf' = wf \/ wf' = [wf EXCEPT !.cancelRequested = TRUE]
        \/ StartWorkflow(NoPlan)
    BY <1>8 DEF RecoveryNext, AdmitRun, AdmissionStartsWorkflow,
       AdmissionMarksRunStarted, RecoverCancelling, WorkerCrash
  <2>2. thread' = thread \/ WorkerCrash
    BY <1>8 DEF RecoveryNext, AdmitRun, AdmissionStartsWorkflow,
       AdmissionMarksRunStarted, RecoverCancelling, worker
  <2> QED
    BY <1>2, <1>4, <1>5, <2>1, <2>2
<1> QED
  BY <1>6, <1>7, <1>8

\* A thread gives its outcome back and is idle.
LEMMA JobReturn ==
  ASSUME IInv, JobOK, NEW t \in Threads, ReturnActivity(t)
  PROVE  /\ ThreadsJobOK' /\ ClosedReleased' /\ UNCHANGED <<db, api, faults>>
         /\ thread'[t].pc = "idle" /\ \A u \in Threads \ {t} : thread'[u] = thread[u]
         /\ IF wf.worker # t THEN wf' = wf
            ELSE /\ wf'.worker = NoThread
                 /\ \/ wf'.state = "closed"
                    \/ wf'.state = "open" /\ wf'.step = "fail"
                    => \/ Settled /\ wf'.state = "closed"
                       \/ /\ thread[t].pc = "return" /\ thread[t].result = "error"
                          /\ wf'.state = "closed" => wf.step = "fail"
<1> DEFINE m == thread[t]
           r == IF m.cancelSeen THEN "cancelled" ELSE m.result
<1>1. /\ m.pc = "return" /\ ThreadDo(t, IdleThread) /\ UNCHANGED <<db, api, faults>>
      /\ wf' = IF wf.worker = t THEN Resumed(r, m.run) ELSE wf
  BY DEF ReturnActivity
<1>2. thread'[t] = IdleThread /\ \A u \in Threads \ {t} : thread'[u] = thread[u]
  BY <1>1 DEF ThreadDo, IInv, TypeOK
<1>3. JobCopyOK(thread[t])' /\ OutcomeOK(thread[t])' /\ thread'[t].pc = "idle"
  BY <1>2 DEF JobCopyOK, OutcomeOK, IdleThread
<1>4. Settled => Settled'
  BY <1>1 DEF db, Settled
<1>5. m.result \in {"ok", "cancelled", "error"} /\ NoThread # t
  BY ThreadsAssumption DEF IInv, TypeOK, ThreadType
<1>6. ASSUME wf.worker = t
      PROVE  /\ wf'.worker = NoThread
             /\ \/ wf'.state = "closed"
                \/ wf'.state = "open" /\ wf'.step = "fail"
                => \/ Settled /\ wf'.state = "closed"
                   \/ /\ m.result = "error"
                      /\ wf'.state = "closed" => wf.step = "fail"
  <2>1. /\ CurrentOK(m) /\ OutcomeOK(m) /\ wf.state = "open"
        /\ m.kind \in {"reuse", "node", "cancel", "fail"}
    BY <1>1, <1>5, <1>6 DEF IInv, ThreadsOK, JobOK, ThreadsJobOK, ClosedReleased,
                            TypeOK, ThreadType
  <2>2. r \notin {"error", "cancelled"} =>
           /\ wf.step = "node" /\ (m.run \in Terminal \/ wf.node = N) => Settled
           /\ wf.step = "fail" => Settled
    BY <1>1, <1>5, <2>1 DEF CurrentOK, OutcomeOK
  <2>3. wf' = Resumed(r, m.run) /\ (r = "error" => m.result = "error")
    BY <1>1, <1>6
  <2>4. wf.step # "begin"
    BY <2>1 DEF CurrentOK
  <2> HIDE DEF r
  <2> QED
    BY <2>1, <2>2, <2>3, <2>4, ResumedPosition
<1>7. ClosedReleased'
  BY <1>1, <1>6 DEF ClosedReleased, JobOK
<1>8. ASSUME NEW u \in Threads \ {t}
      PROVE  JobCopyOK(thread[u])' /\ (wf'.worker = u => OutcomeOK(thread[u])')
  <2>1. wf'.worker = u => wf.worker = u
    BY <1>1, <1>6, ThreadsAssumption
  <2> QED
    BY <1>2, <1>4, <2>1, JobCopyStable DEF JobOK, ThreadsJobOK
<1>9. ThreadsJobOK'
  BY <1>2, <1>3, <1>8 DEF ThreadsJobOK
<1> QED
  BY <1>1, <1>2, <1>3, <1>6, <1>7, <1>9

\* A step of a thread that leaves the workflow alone and is no sync.
JobMoves(t) ==
  \/ NodeMarksRunStarted(t) \/ HydrateRun(t) \/ HydrateNodes(t)
  \/ HeartbeatCancels(t) \/ InterruptActivity(t) \/ ActivityError(t)
  \/ PassOverNode(t) \/ ExecuteNode(t)
  \/ ApplyReusePlan(t) \/ MarkRunCancelled(t) \/ MarkRunFailed(t)

\* All of them are moves.
LEMMA JobMove ==
  ASSUME IInv, JobOK, NEW t \in Threads, JobMoves(t)
  PROVE  /\ \E e : JobMoveOK(t, e) /\ ThreadDo(t, e)
         /\ RowsFit /\ UNCHANGED <<api, wf>> /\ faults' \in {faults, faults + 1}
<1>1. \E e : JobMoveOK(t, e) /\ ThreadDo(t, e)
  BY JobSmallMove, JobExecute, JobPassOver, JobOtherActivity DEF JobMoves
<1>2. UNCHANGED <<api, wf>> /\ faults' \in {faults, faults + 1}
  BY DEF JobMoves, NodeMarksRunStarted, HydrateRun, HydrateNodes, HeartbeatCancels,
         InterruptActivity, ActivityError, PassOverNode, ExecuteNode, ApplyReusePlan,
         MarkRunCancelled, MarkRunFailed, Fault
<1>3. UNCHANGED db \/ (MarkRunStarted /\ UNCHANGED committed)
  BY DEF JobMoves, NodeMarksRunStarted, HydrateRun, HydrateNodes, HeartbeatCancels,
         InterruptActivity, ActivityError, PassOverNode, ExecuteNode, ApplyReusePlan,
         MarkRunCancelled, MarkRunFailed
<1>4. UNCHANGED db => RowsFit
  BY DEF db, JobOK, RowsFit, RowsJobOK, Paired, Settled
<1> QED
  BY <1>1, <1>2, <1>3, <1>4, MarkedFits DEF IInv, JobOK

\* Every step keeps the job with its run.
LEMMA JobStep ==
  ASSUME IInv, JobOK, Next
  PROVE  JobOK' /\ (Settled => Settled')
<1>1. /\ TypeOK /\ RowsJobOK /\ ApiJobOK /\ ThreadsJobOK /\ ClosedReleased
  BY DEF IInv, JobOK
<1>2. UNCHANGED db => RowsFit
  BY <1>1 DEF db, RowsFit, RowsJobOK, Paired, Settled
<1>3. UNCHANGED api => ApiJobOK'
  BY <1>1 DEF api, ApiJobOK
<1>4. CASE ApiNext \/ WorkflowNext \/ RecoveryNext
  <2>1. RowsFit /\ ApiJobOK'
    <3>1. CASE ApiNext
      BY <3>1, ApiFits
    <3>2. CASE WorkflowNext
      BY <1>2, <1>3, <3>2 DEF WorkflowNext, WorkflowBegin, CancelUnclaimed,
         LostAttempt, AttemptTimeout, ActivityTimeout
    <3>3. CASE RecoveryNext
      <4>1. UNCHANGED db \/ (MarkRunStarted /\ UNCHANGED committed)
        BY <3>3 DEF RecoveryNext, AdmitRun, AdmissionStartsWorkflow,
           AdmissionMarksRunStarted, RecoverCancelling, WorkerCrash
      <4>2. UNCHANGED api
        BY <3>3 DEF RecoveryNext, AdmitRun, AdmissionStartsWorkflow,
           AdmissionMarksRunStarted, RecoverCancelling, WorkerCrash
      <4> QED
        BY <1>1, <1>2, <1>3, <4>1, <4>2, MarkedFits
    <3> QED
      BY <1>4, <3>1, <3>2, <3>3
  <2>2. /\ \A t \in Threads : wf'.worker = t => wf.worker = t
        /\ ClosedReleased' /\ (thread' = thread \/ WorkerCrash)
    BY <1>4, JobOtherSteps
  <2>3. ThreadsJobOK'
    <3>1. CASE thread' = thread
      BY <1>1, <2>1, <2>2, <3>1, JobThreadsStable DEF RowsFit
    <3>2. CASE WorkerCrash
      <4>1. \A t \in Threads : thread'[t] = IdleThread
        BY <3>2 DEF WorkerCrash
      <4> QED
        BY <4>1 DEF ThreadsJobOK, JobCopyOK, OutcomeOK, IdleThread
    <3> QED
      BY <2>2, <3>1, <3>2
  <2> QED
    BY <2>1, <2>2, <2>3 DEF JobOK, RowsFit
<1>5. ASSUME NEW t \in Threads, ThreadNext(t)
      PROVE  JobOK' /\ (Settled => Settled')
  <2>1. CASE ClaimActivity(t)
    <3>1. UNCHANGED <<db, api>>
      BY <2>1 DEF ClaimActivity
    <3> QED
      BY <1>2, <1>3, <2>1, <3>1, JobClaim DEF JobOK, ClosedReleased, RowsFit
  <2>2. CASE SyncActivity(t)
    <3>1. UNCHANGED <<api, wf>>
      BY <2>2 DEF SyncActivity
    <3> QED
      BY <1>1, <1>3, <2>2, <3>1, JobSync DEF JobOK, RowsFit, ClosedReleased
  <2>3. CASE ReturnActivity(t)
    BY <1>2, <1>3, <2>3, JobReturn DEF JobOK, RowsFit
  <2>4. CASE JobMoves(t)
    <3>1. PICK e : JobMoveOK(t, e) /\ ThreadDo(t, e)
      BY <2>4, JobMove
    <3>2. RowsFit /\ UNCHANGED <<api, wf>>
      BY <2>4, JobMove
    <3>3. ThreadsJobOK'
      BY <1>1, <3>1, <3>2, JobThreadMoves DEF RowsFit
    <3> QED
      BY <1>1, <1>3, <3>2, <3>3 DEF JobOK, RowsFit, ClosedReleased
  <2> QED
    BY <1>5, <2>1, <2>2, <2>3, <2>4 DEF ThreadNext, JobMoves
<1> QED
  BY <1>4, <1>5 DEF Next

\* A step counts at most one fault.
LEMMA FaultsGrow ==
  ASSUME Next PROVE faults' \in {faults, faults + 1}
<1> USE DEF Fault
<1>1. ApiNext => faults' \in {faults, faults + 1}
  BY DEF ApiNext, ApiSubmit, ApiStartWorkflow, ApiFinishSubmit, ApiCompensate, ApiCrash,
         ApiHydrate, RequestCancellation, SignalCancel, ApiFinishCancel
<1>2. WorkflowNext => faults' \in {faults, faults + 1}
  BY DEF WorkflowNext, WorkflowBegin, CancelUnclaimed, LostAttempt, AttemptTimeout,
         ActivityTimeout
<1>3. RecoveryNext => faults' \in {faults, faults + 1}
  BY DEF RecoveryNext, AdmitRun, AdmissionStartsWorkflow, AdmissionMarksRunStarted,
         RecoverCancelling, WorkerCrash
<1>4. ASSUME NEW t \in Threads, ThreadNext(t) PROVE faults' \in {faults, faults + 1}
  BY <1>4
  DEF ThreadNext, ClaimActivity, NodeMarksRunStarted, HydrateRun, HydrateNodes,
      HeartbeatCancels, InterruptActivity, ActivityError, PassOverNode, ExecuteNode,
      ApplyReusePlan, MarkRunCancelled, MarkRunFailed, SyncActivity, ReturnActivity
<1> QED
  BY <1>1, <1>2, <1>3, <1>4 DEF Next

\* What OneFaultOK says of a run that is not settled.
LEMMA Unsettled ==
  /\ OneFaultOK /\ ~Settled =>
       /\ wf.state # "closed"
       /\ wf.state = "open" /\ wf.step = "fail" => faults = 1
       /\ \A t \in Threads :
            wf.worker = t /\ (faults = 0 \/ wf.step = "fail") => ~Lost(thread[t])
  /\ Settled => OneFaultOK
  /\ /\ wf.state # "closed"
     /\ wf.state = "open" /\ wf.step = "fail" => faults = 1
     /\ \A t \in Threads :
          wf.worker = t /\ (faults = 0 \/ wf.step = "fail") => ~Lost(thread[t])
     => OneFaultOK
BY DEF OneFaultOK, Lost

\* The workflow moves to a position that nobody works at yet.
LEMMA FaultMoves ==
  ASSUME wf'.worker = NoThread, wf'.state # "closed",
         wf'.state = "open" /\ wf'.step = "fail" => faults' = 1
  PROVE  OneFaultOK'
BY ThreadsAssumption DEF OneFaultOK

\* The server and the workflow leave a run open that only one fault has met.
LEMMA FaultWorkflow ==
  ASSUME IInv, JobOK, OneFaultOK, ~Settled, faults' \in 0..1, WorkflowNext
  PROVE  OneFaultOK'
<1>1. /\ wf \in WorkflowType /\ faults \in Nat /\ \A t \in Threads : NoThread # t
      /\ wf.state # "closed"
      /\ wf.state = "open" /\ wf.step = "fail" => faults = 1
      /\ \A t \in Threads :
           wf.worker = t /\ (faults = 0 \/ wf.step = "fail") => ~Lost(thread[t])
  BY Unsettled, ThreadsAssumption, FaultsAssumption DEF IInv, TypeOK
<1>2. CASE WorkflowBegin
  <2>1. wf.state = "open" /\ 0 # N
    BY <1>2, NodesAssumption DEF WorkflowBegin
  <2>2. wf'.worker = NoThread /\ wf'.state = "open" /\ wf'.step # "fail"
    BY <1>1, <1>2, <2>1, Positions, NextPosition DEF WorkflowBegin
  <2> QED
    BY <2>2, FaultMoves
<1>3. CASE CancelUnclaimed
  <2>1. wf'.worker = NoThread /\ wf'.state = "open" /\ wf'.step = "cancel"
    BY <1>1, <1>3, Positions DEF CancelUnclaimed, Scheduled
  <2> QED
    BY <2>1, FaultMoves
<1>4. CASE LostAttempt
  <2>1. wf.state = "open" /\ wf.worker \in Threads /\ Lost(thread[wf.worker])
    BY <1>1, <1>4 DEF LostAttempt, Scheduled, WorkflowType, Lost
  <2>2. wf.step # "fail" /\ faults # 0 /\ faults' = faults /\ wf' = AttemptFailed
    BY <1>1, <1>4, <2>1 DEF LostAttempt
  <2>3. wf'.worker = NoThread /\ wf'.state # "closed" /\ faults' = 1
    BY <1>1, <2>1, <2>2, Positions
  <2> QED
    BY <2>3, FaultMoves
<1>5. CASE AttemptTimeout \/ ActivityTimeout
  <2>1. wf.state = "open" /\ faults = 0 /\ faults' = 1
    BY <1>1, <1>5 DEF AttemptTimeout, ActivityTimeout, Fault, Scheduled
  <2>2. wf.step # "fail" /\ wf' \in {AttemptFailed, ActivityLost}
    BY <1>1, <1>5, <2>1 DEF AttemptTimeout, ActivityTimeout
  <2>3. wf'.worker = NoThread /\ wf'.state # "closed"
    BY <1>1, <2>1, <2>2, Positions
  <2> QED
    BY <2>1, <2>3, FaultMoves
<1> QED
  BY <1>2, <1>3, <1>4, <1>5 DEF WorkflowNext

\* The API, admission and the recovery loop start a workflow, signal it, or lose
\* the worker.
LEMMA FaultAround ==
  ASSUME IInv, JobOK, OneFaultOK, ~Settled, faults' \in 0..1, ApiNext \/ RecoveryNext
  PROVE  OneFaultOK'
<1>1. /\ wf \in WorkflowType /\ faults \in Nat /\ \A t \in Threads : NoThread # t
      /\ wf.state # "closed" /\ ClosedReleased
      /\ wf.state = "open" /\ wf.step = "fail" => faults = 1
      /\ \A t \in Threads :
           wf.worker = t /\ (faults = 0 \/ wf.step = "fail") => ~Lost(thread[t])
  BY Unsettled, ThreadsAssumption, FaultsAssumption DEF IInv, TypeOK, JobOK
<1>2. faults' \in {faults, faults + 1}
  BY FaultsGrow DEF Next
<1>3. ASSUME NEW plan, StartWorkflow(plan), thread' = thread PROVE OneFaultOK'
  <2>1. [NoWorkflow EXCEPT !.state = "open", !.plan = plan].worker = NoThread
        /\ [NoWorkflow EXCEPT !.state = "open", !.plan = plan].state = "open"
        /\ [NoWorkflow EXCEPT !.state = "open", !.plan = plan].step = "begin"
    BY DEF NoWorkflow
  <2>2. CASE wf' = wf
    BY <1>1, <1>2, <1>3, <2>2, Unsettled DEF OneFaultOK, Lost
  <2>3. CASE wf' = [NoWorkflow EXCEPT !.state = "open", !.plan = plan]
    BY <2>1, <2>3, FaultMoves
  <2> QED
    BY <1>3, <2>2, <2>3 DEF StartWorkflow
<1>4. ASSUME wf' = wf \/ wf' = [wf EXCEPT !.cancelRequested = TRUE], thread' = thread
      PROVE  OneFaultOK'
  <2>1. wf'.worker = wf.worker /\ wf'.state = wf.state /\ wf'.step = wf.step
    BY <1>1, <1>4 DEF WorkflowType
  <2> QED
    BY <1>1, <1>2, <1>4, <2>1 DEF OneFaultOK, Lost
<1>5. CASE ApiNext
  <2>1. \/ wf' = wf \/ wf' = [wf EXCEPT !.cancelRequested = TRUE]
        \/ StartWorkflow(submit.plan)
    BY <1>5 DEF ApiNext, ApiSubmit, ApiStartWorkflow, ApiFinishSubmit, ApiCompensate,
       ApiCrash, ApiHydrate, RequestCancellation, SignalCancel, ApiFinishCancel
  <2>2. thread' = thread
    BY <1>5 DEF ApiNext, ApiSubmit, ApiStartWorkflow, ApiFinishSubmit, ApiCompensate,
       ApiCrash, ApiHydrate, RequestCancellation, SignalCancel, ApiFinishCancel, worker
  <2> QED
    BY <1>3, <1>4, <2>1, <2>2
<1>6. CASE RecoveryNext /\ ~WorkerCrash
  <2>1. \/ wf' = wf \/ wf' = [wf EXCEPT !.cancelRequested = TRUE]
        \/ StartWorkflow(NoPlan)
    BY <1>6 DEF RecoveryNext, AdmitRun, AdmissionStartsWorkflow,
       AdmissionMarksRunStarted, RecoverCancelling
  <2>2. thread' = thread
    BY <1>6 DEF RecoveryNext, AdmitRun, AdmissionStartsWorkflow,
       AdmissionMarksRunStarted, RecoverCancelling, worker
  <2> QED
    BY <1>3, <1>4, <2>1, <2>2
<1>7. CASE WorkerCrash
  <2>1. wf' = wf /\ faults = 0 /\ faults' = 1
    BY <1>1, <1>7 DEF WorkerCrash, Fault
  <2>2. wf.worker \in Threads => wf.state = "open"
    BY <1>1 DEF ClosedReleased
  <2> QED
    BY <1>1, <2>1, <2>2 DEF OneFaultOK
<1> QED
  BY <1>5, <1>6, <1>7

\* A thread lets its attempt fail only when it met the fault.
LEMMA FaultThread ==
  ASSUME IInv, JobOK, OneFaultOK, ~Settled, faults' \in 0..1,
         NEW t \in Threads, ThreadNext(t)
  PROVE  OneFaultOK'
<1>1. /\ wf \in WorkflowType /\ faults \in Nat
      /\ wf.state # "closed" /\ ClosedReleased /\ NoThread # t
      /\ wf.state = "open" /\ wf.step = "fail" => faults = 1
      /\ \A u \in Threads :
           wf.worker = u /\ (faults = 0 \/ wf.step = "fail") => ~Lost(thread[u])
  BY Unsettled, ThreadsAssumption, FaultsAssumption DEF IInv, TypeOK, JobOK
<1>2. faults' \in {faults, faults + 1}
  BY FaultsGrow DEF Next
<1>3. ASSUME NEW e, thread'[t] = e, \A u \in Threads \ {t} : thread'[u] = thread[u],
             wf' = wf,
             wf.worker = t => ~Lost(e) \/ Lost(thread[t]) \/ faults' = faults + 1
      PROVE  OneFaultOK'
  <2>1. wf'.worker = t /\ (faults' = 0 \/ wf'.step = "fail") => ~Lost(thread'[t])
    <3>1. wf.worker = t => wf.state = "open"
      BY <1>1 DEF ClosedReleased
    <3>2. faults' = faults + 1 => faults = 0 /\ faults' = 1
      BY <1>1
    <3> QED
      BY <1>1, <1>2, <1>3, <3>1, <3>2
  <2> QED
    BY <1>1, <1>2, <1>3, <2>1 DEF OneFaultOK, Lost
<1>4. CASE ClaimActivity(t)
  <2>1. /\ wf'.state = "open" /\ wf'.step = wf.step /\ wf'.worker = t
        /\ thread'[t].pc \in {"start", "hydrate"}
    BY <1>4, JobClaim
  <2>2. wf.state = "open" /\ faults' = faults
    BY <1>4 DEF ClaimActivity, Scheduled
  <2> QED
    BY <1>1, <2>1, <2>2 DEF OneFaultOK, Lost
<1>5. CASE SyncActivity(t)
  <2> DEFINE e == [thread[t] EXCEPT !.pc = "return"]
  <2>1. thread[t].pc = "sync" /\ thread[t] \in ThreadType /\ thread[t].result = "ok"
    BY <1>5 DEF SyncActivity, IInv, TypeOK, JobOK, ThreadsJobOK, JobCopyOK
  <2>2. e.pc = "return" /\ e.result = "ok"
    BY <2>1 DEF ThreadType
  <2>3. ThreadDo(t, e) /\ wf' = wf
    BY <1>5 DEF SyncActivity
  <2> HIDE DEF e
  <2>4. thread'[t] = e /\ \A u \in Threads \ {t} : thread'[u] = thread[u]
    BY <2>3 DEF ThreadDo, IInv, TypeOK
  <2> QED
    BY <1>3, <2>2, <2>3, <2>4 DEF Lost
<1>6. CASE ReturnActivity(t)
  <2>1. /\ UNCHANGED faults
        /\ thread'[t].pc = "idle" /\ \A u \in Threads \ {t} : thread'[u] = thread[u]
        /\ IF wf.worker # t THEN wf' = wf
           ELSE /\ wf'.worker = NoThread
                /\ \/ wf'.state = "closed"
                   \/ wf'.state = "open" /\ wf'.step = "fail"
                   => \/ Settled /\ wf'.state = "closed"
                      \/ /\ thread[t].pc = "return" /\ thread[t].result = "error"
                         /\ wf'.state = "closed" => wf.step = "fail"
    BY <1>6, JobReturn
  <2>2. CASE wf.worker # t
    BY <1>3, <2>1, <2>2
  <2>3. CASE wf.worker = t
    <3>1. \/ wf'.state = "closed"
          \/ wf'.state = "open" /\ wf'.step = "fail"
          => Lost(thread[t]) /\ (wf'.state = "closed" => wf.step = "fail")
      BY <2>1, <2>3 DEF Lost
    <3>2. Lost(thread[t]) => wf.step # "fail" /\ faults # 0
      BY <1>1, <2>3
    <3>3. wf'.worker = NoThread /\ faults' = faults
      BY <2>1, <2>3
    <3>4. wf'.state # "closed" /\ (wf'.state = "open" /\ wf'.step = "fail" => faults' = 1)
      BY <3>1, <3>2, <3>3
    <3> QED
      BY <3>3, <3>4, FaultMoves
  <2> QED
    BY <2>2, <2>3
<1>7. CASE JobMoves(t)
  <2>1. PICK e : JobMoveOK(t, e) /\ ThreadDo(t, e)
    BY <1>7, JobMove
  <2>2. wf' = wf
    BY <1>7, JobMove
  <2>3. thread'[t] = e /\ \A u \in Threads \ {t} : thread'[u] = thread[u]
    BY <2>1 DEF ThreadDo, IInv, TypeOK
  <2>4. ~Lost(e) \/ Lost(thread[t]) \/ faults' = faults + 1
    BY <2>1 DEF JobMoveOK, Lost
  <2> QED
    BY <1>3, <2>2, <2>3, <2>4
<1> QED
  BY <1>4, <1>5, <1>6, <1>7 DEF ThreadNext, JobMoves

-----------------------------------------------------------------------------
(* The two invariants.                                                      *)

\* Before the run is submitted.
LEMMA FaultInit == Init => FaultInv
<1> SUFFICES ASSUME Init PROVE FaultInv
  OBVIOUS
<1>1. IInv
  BY InitInvariant
<1>2. JobOK
  <2>1. RowsJobOK /\ ApiJobOK
    BY NodesAssumption DEF Init, RowsJobOK, ApiJobOK, Paired, Active
  <2>2. ThreadsJobOK
    BY DEF Init, ThreadsJobOK, JobCopyOK, OutcomeOK, IdleThread
  <2>3. ClosedReleased
    BY DEF Init, ClosedReleased, NoWorkflow
  <2> QED
    BY <2>1, <2>2, <2>3 DEF JobOK
<1>3. OneFaultOK
  BY ThreadsAssumption DEF Init, OneFaultOK, NoWorkflow
<1> QED
  BY <1>1, <1>2, <1>3 DEF FaultInv, JobInv

\* Every step keeps them, or changes nothing.
LEMMA FaultStep == FaultInv /\ [Next]_vars => FaultInv'
<1> SUFFICES ASSUME FaultInv, [Next]_vars PROVE FaultInv'
  OBVIOUS
<1>1. IInv /\ JobOK /\ (faults <= 1 => OneFaultOK) /\ faults \in Nat
  BY FaultsAssumption DEF FaultInv, JobInv, IInv, TypeOK
<1>2. IInv' /\ faults' \in Nat
  BY <1>1, InvariantStep, FaultsAssumption DEF IInv, TypeOK
<1>3. CASE Next
  <2>1. JobOK' /\ (Settled => Settled')
    BY <1>1, <1>3, JobStep
  <2>2. faults' \in {faults, faults + 1}
    BY <1>3, FaultsGrow
  <2>3. ASSUME faults' <= 1 PROVE OneFaultOK'
    <3>1. faults' \in 0..1 /\ OneFaultOK
      BY <1>1, <1>2, <2>2, <2>3
    <3>2. CASE ~Settled
      BY <1>1, <1>3, <3>1, <3>2, FaultWorkflow, FaultAround, FaultThread DEF Next
    <3>3. CASE Settled
      BY <2>1, <3>3 DEF OneFaultOK
    <3> QED
      BY <3>2, <3>3
  <2> QED
    BY <1>2, <2>1, <2>3 DEF FaultInv, JobInv
<1>4. CASE UNCHANGED vars
  <2>1. JobOK'
    <3>1. RowsJobOK' /\ ApiJobOK' /\ ClosedReleased'
      BY <1>1, <1>4 DEF vars, JobOK, RowsJobOK, ApiJobOK, ClosedReleased, Paired, Settled
    <3>2. ThreadsJobOK'
      <4>1. thread' = thread /\ wf' = wf /\ (Settled => Settled')
        BY <1>4 DEF vars, Settled
      <4> QED
        BY <1>1, <4>1, JobThreadsStable DEF JobOK
    <3> QED
      BY <3>1, <3>2 DEF JobOK
  <2>2. faults' <= 1 => OneFaultOK'
    BY <1>1, <1>4 DEF vars, OneFaultOK, Settled
  <2> QED
    BY <1>2, <2>1, <2>2 DEF FaultInv, JobInv
<1> QED
  BY <1>3, <1>4

\* In every reachable state the job goes with its run in the rows and in every
\* copy, and until a second fault a workflow ends only with its run.
THEOREM FaultInvariant == Spec => []FaultInv
BY FaultInit, FaultStep, PTL DEF Spec

\* A cancelled run has a cancelled job: no late snapshot of the API, of an
\* activity that outlived its attempt or of the recovery loop brings it back.
THEOREM CancelledTogether == Spec => []CancelledRunCancelsJob
<1>1. FaultInv => CancelledRunCancelsJob
  BY DEF FaultInv, JobInv, JobOK, RowsJobOK, Paired, CancelledRunCancelsJob
<1> QED
  BY <1>1, FaultInvariant, PTL

\* After at most one crash, timeout, error or lost call a workflow that has
\* closed leaves no run admitted or running; mark_run_failed is what a second
\* fault may lose.
THEOREM SettledAtEnd == Spec => [](faults <= 1 => ClosedRunIsSettled)
<1>1. FaultInv => (faults <= 1 => ClosedRunIsSettled)
  BY DEF FaultInv, OneFaultOK, Settled, ClosedRunIsSettled
<1> QED
  BY <1>1, FaultInvariant, PTL
=============================================================================
