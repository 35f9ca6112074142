---------------------------- MODULE CaseAdmission ----------------------------
(***************************************************************************)
(* Admission of a case's batch runs: the API queues them as admitted rows  *)
(* and pokes the case's Temporal workflow CaseRunAdmissionWorkflow, whose  *)
(* activity admit_case_runs selects the oldest admitted rows up to a cap,  *)
(* starts a workflow for each and marks its row running; the worker's      *)
(* recovery loop pokes again for every case that still has admitted rows.  *)
(*                                                                         *)
(* Runs are numbered in the order they are queued (created_at).  Of a run  *)
(* only what admission reads is kept; RunLifecycle has the rest.  The      *)
(* workflow's cycles differ only in when the next one begins, so the poke  *)
(* flag and the timer it shortens are one nondeterministic wait.           *)
(***************************************************************************)
EXTENDS Integers, FiniteSets

CONSTANTS
  R,            \* number of runs ever queued for the case
  MaxInflight,  \* case_max_inflight_runs
  Attempts,     \* worker threads that can hold an attempt of admit_case_runs
  Nobody,       \* no attempt
  MaxTries,     \* maximum_attempts of admit_case_runs
  MaxFaults     \* bound on crashes, timeouts, errors and lost calls

ASSUME RunsAssumption == R \in Nat
ASSUME CapAssumption == MaxInflight \in Nat \ {0} \* max(1, max_inflight)
ASSUME HoldersAssumption == \* of a row lock; "node" is the run's own workflow
  Nobody # "node" /\ Nobody \notin Attempts /\ "node" \notin Attempts
ASSUME TriesAssumption == MaxTries \in Nat \ {0}
ASSUME FaultBoundAssumption == MaxFaults \in Nat

VARIABLES
  status,    \* workflow_runs.status, as far as admission tells them apart
  rowLock,   \* who holds a run's row lock between two statements
  caseLock,  \* who holds the case's advisory transaction lock
  flow,      \* the Temporal workflow of each run
  attempt,   \* the attempts of admit_case_runs, those given up included
  ctl,       \* the case's CaseRunAdmissionWorkflow
  poker,     \* the two callers of signal_case_admission
  faults     \* faults so far

rows == <<status, rowLock, caseLock>>
vars == <<status, rowLock, caseLock, flow, attempt, ctl, poker, faults>>

Runs    == 1..R
Pokers  == {"api", "recovery"}
OfStatus(s) == {r \in Runs : status[r] = s}

AttemptType ==
  [pc : {"idle", "lock", "counted", "selected", "read", "start", "mark",
         "marking"},
   running : 0..R,            \* running_count
   picked  : SUBSET Runs,     \* rows selected and not yet dealt with
   idle    : BOOLEAN]         \* queued_remaining, active_count and the number
                              \* of started runs are all zero so far

IdleAttempt == [pc |-> "idle", running |-> 0, picked |-> {}, idle |-> FALSE]

ControllerType ==
  [state : {"none", "activity", "waiting", "closed"},
   tries : 1..MaxTries, by : Attempts \cup {Nobody}]

NewCycle == [state |-> "activity", tries |-> 1, by |-> Nobody]

Init ==
  /\ status = [r \in Runs |-> "absent"]
  /\ rowLock = [r \in Runs |-> Nobody]
  /\ caseLock = Nobody
  /\ flow = [r \in Runs |-> "none"]
  /\ attempt = [a \in Attempts |-> IdleAttempt]
  /\ ctl = [NewCycle EXCEPT !.state = "none"]
  /\ poker = [p \in Pokers |-> "idle"]
  /\ faults = 0

Fault == faults < MaxFaults /\ faults' = faults + 1

SetStatus(r, s) == status' = [status EXCEPT ![r] = s]
SetFlow(r, s)   == flow' = [flow EXCEPT ![r] = s]

-----------------------------------------------------------------------------
(* The API: a batch is queued row by row, then the case is poked once.      *)

QueueRun ==
  /\ poker["api"] \in {"idle", "queueing"}
  /\ \E r \in OfStatus("absent") :
       /\ \A q \in OfStatus("absent") : r <= q
       /\ SetStatus(r, "admitted")
  /\ poker' = [poker EXCEPT !["api"] = "queueing"]
  /\ UNCHANGED <<rowLock, caseLock, flow, attempt, ctl, faults>>

EndBatch ==
  /\ poker["api"] = "queueing"
  /\ poker' = [poker EXCEPT !["api"] = "start"]
  /\ UNCHANGED <<rows, flow, attempt, ctl, faults>>

\* Mutant: only a case that never had a controller is recovered.
RecoveryScanFirstTime ==
  /\ poker["recovery"] = "idle" /\ OfStatus("admitted") # {}
  /\ ctl.state = "none"
  /\ poker' = [poker EXCEPT !["recovery"] = "start"]
  /\ UNCHANGED <<rows, flow, attempt, ctl, faults>>

\* _admission_recovery_loop: the case still has admitted rows.
RecoveryScan ==
  /\ poker["recovery"] = "idle" /\ OfStatus("admitted") # {}
  /\ poker' = [poker EXCEPT !["recovery"] = "start"]
  /\ UNCHANGED <<rows, flow, attempt, ctl, faults>>

ControllerOpen == ctl.state \in {"activity", "waiting"}

\* signal_case_admission_with_client: start the controller ...
PokeStarts(p) ==
  /\ poker[p] = "start"
  /\ IF ControllerOpen
     THEN poker' = [poker EXCEPT ![p] = "signal"] /\ UNCHANGED ctl
     ELSE poker' = [poker EXCEPT ![p] = "idle"] /\ ctl' = NewCycle
  /\ UNCHANGED <<rows, flow, attempt, faults>>

\* ... or signal the one that runs.  A controller that closed in between gets
\* no signal, and the error is dropped.
PokeSignals(p) ==
  /\ poker[p] = "signal"
  /\ poker' = [poker EXCEPT ![p] = "idle"]
  /\ UNCHANGED <<rows, flow, attempt, ctl, faults>>

\* Either call fails; a start may have reached the server.
PokeFails(p) ==
  /\ Fault
  /\ poker[p] \in {"start", "signal"}
  /\ poker' = [poker EXCEPT ![p] = "idle"]
  /\ \/ UNCHANGED ctl
     \/ poker[p] = "start" /\ ~ControllerOpen /\ ctl' = NewCycle
  /\ UNCHANGED <<rows, flow, attempt>>

-----------------------------------------------------------------------------
(* The controller workflow.                                                 *)

ControllerClaims(a) ==
  /\ ctl.state = "activity" /\ ctl.by = Nobody /\ attempt[a].pc = "idle"
  /\ ctl' = [ctl EXCEPT !.by = a]
  /\ attempt' = [attempt EXCEPT ![a].pc = "lock"]
  /\ UNCHANGED <<rows, flow, poker, faults>>

\* An attempt failed: another one, or the workflow fails.
Retried ==
  IF ctl.tries < MaxTries THEN [NewCycle EXCEPT !.tries = ctl.tries + 1]
                          ELSE [ctl EXCEPT !.state = "closed", !.by = Nobody]

\* start_to_close: the thread of the attempt is not stopped.
ControllerTimeout ==
  /\ Fault
  /\ ctl.state = "activity" /\ ctl.by # Nobody /\ attempt[ctl.by].pc # "idle"
  /\ ctl' = Retried
  /\ UNCHANGED <<rows, flow, attempt, poker>>

\* The attempt died with its worker and runs into its timeout.
ControllerLosesAttempt ==
  /\ ctl.state = "activity" /\ ctl.by # Nobody /\ attempt[ctl.by].pc = "idle"
  /\ ctl' = Retried
  /\ UNCHANGED <<rows, flow, attempt, poker, faults>>

\* Mutant: the next cycle goes on with the attempt count of the last.
WakesWithoutReset ==
  /\ ctl.state = "waiting"
  /\ ctl' = [NewCycle EXCEPT !.tries = ctl.tries + 1]
  /\ UNCHANGED <<rows, flow, attempt, poker, faults>>

\* The wait between two cycles ends, poked or by its timer.
ControllerWakes ==
  /\ ctl.state = "waiting"
  /\ ctl' = NewCycle
  /\ UNCHANGED <<rows, flow, attempt, poker, faults>>

-----------------------------------------------------------------------------
(* The activity admit_case_runs.  Its transaction, under the advisory lock,  *)
(* is a statement per action: each reads what is committed by then.          *)

To(a, rec) == attempt' = [attempt EXCEPT ![a] = rec]

\* The lock is taken, the running rows are counted.
CountRunning(a) ==
  /\ attempt[a].pc = "lock" /\ caseLock = Nobody
  /\ caseLock' = a
  /\ To(a, [attempt[a] EXCEPT !.pc = "counted",
                              !.running = Cardinality(OfStatus("running"))])
  /\ UNCHANGED <<status, rowLock, flow, ctl, poker, faults>>

\* Mutant: the cap is compared with the batch, not with what already runs.
SlotsOfEmptyCase(running) == MaxInflight

Slots(running) == IF running < MaxInflight THEN MaxInflight - running ELSE 0

\* Mutant: newest first.
NewestOf(n, S) ==
  {r \in S : Cardinality({q \in S : q > r}) < n}

\* The n first of the set S: order_by(created_at).limit(n).
OldestOf(n, S) == {r \in S : Cardinality({q \in S : q < r}) < n}

\* SELECT ... FOR UPDATE SKIP LOCKED.
SelectAdmitted(a) ==
  /\ attempt[a].pc = "counted"
  /\ \E free \in {{r \in OfStatus("admitted") : rowLock[r] = Nobody}} :
     \E chosen \in {OldestOf(Slots(attempt[a].running), free)} :
       /\ rowLock' = [r \in Runs |-> IF r \in chosen THEN a ELSE rowLock[r]]
       /\ To(a, [attempt[a] EXCEPT !.pc = "selected", !.running = 0,
                                   !.picked = chosen])
  /\ UNCHANGED <<status, caseLock, flow, ctl, poker, faults>>

ReadQueued(a) ==
  /\ attempt[a].pc = "selected"
  /\ To(a, [attempt[a] EXCEPT !.pc = "read",
                              !.idle = OfStatus("admitted") = {}])
  /\ UNCHANGED <<rows, flow, ctl, poker, faults>>

\* Mutant: runs that ended stay active.
ActiveRunsEver == Runs \ (OfStatus("absent") \cup OfStatus("admitted"))

\* What active_count counts.
ActiveRuns == OfStatus("running")

\* The last read; the commit releases the locks.  Then the client connects: if
\* it cannot, every run that was picked keeps its row admitted.
Unlocked(a) == [r \in Runs |-> IF rowLock[r] = a THEN Nobody ELSE rowLock[r]]

ReadActiveAndCommit(a) ==
  /\ attempt[a].pc = "read"
  /\ LET committed == [attempt[a] EXCEPT !.pc = "start",
                                         !.idle = @ /\ ActiveRuns = {}]
     IN  \/ To(a, committed) /\ UNCHANGED faults
         \/ Fault /\ To(a, [committed EXCEPT !.picked = {}])
  /\ rowLock' = Unlocked(a) /\ caseLock' = Nobody
  /\ UNCHANGED <<status, flow, ctl, poker>>

\* The run the attempt deals with: the oldest it picked.
IsNext(a, r) == r \in attempt[a].picked /\ \A q \in attempt[a].picked : r <= q

Skip(a, r) == To(a, [attempt[a] EXCEPT !.pc = "start", !.picked = @ \ {r}])

Started(a, r) ==
  To(a, [attempt[a] EXCEPT !.pc = "start", !.picked = @ \ {r}, !.idle = FALSE])

\* Mutant: the row is marked whether or not the workflow started.
StartRunUnchecked(a, r) ==
  /\ attempt[a].pc = "start" /\ IsNext(a, r)
  /\ To(a, [attempt[a] EXCEPT !.pc = "mark"])
  /\ \/ SetFlow(r, "open") /\ UNCHANGED faults
     \/ Fault /\ (SetFlow(r, "open") \/ UNCHANGED flow)
  /\ UNCHANGED <<rows, ctl, poker>>

\* _start_admitted_workflow: an execution that is open stays, one that is not
\* is started.  A run whose start fails keeps its row admitted; the start may
\* have reached the server.
StartRun(a, r) ==
  /\ attempt[a].pc = "start" /\ IsNext(a, r)
  /\ \/ SetFlow(r, "open") /\ To(a, [attempt[a] EXCEPT !.pc = "mark"])
        /\ UNCHANGED faults
     \/ Fault /\ Skip(a, r) /\ (SetFlow(r, "open") \/ UNCHANGED flow)
  /\ UNCHANGED <<rows, ctl, poker>>

\* Mutant: a row is marked whatever its status.
MarkBeginAnyStatus(a, r) ==
  /\ attempt[a].pc = "mark" /\ IsNext(a, r) /\ rowLock[r] = Nobody
  /\ rowLock' = [rowLock EXCEPT ![r] = a]
  /\ To(a, [attempt[a] EXCEPT !.pc = "marking"])
  /\ UNCHANGED <<status, caseLock, flow, ctl, poker, faults>>

\* mark_run_started locks the row; a row that is not admitted is left alone.
\* A mark that fails counts as a failed start.
MarkBegin(a, r) ==
  /\ attempt[a].pc = "mark" /\ IsNext(a, r) /\ rowLock[r] = Nobody
  /\ \/ /\ status[r] = "admitted"
        /\ rowLock' = [rowLock EXCEPT ![r] = a]
        /\ To(a, [attempt[a] EXCEPT !.pc = "marking"])
        /\ UNCHANGED faults
     \/ /\ status[r] # "admitted"
        /\ Started(a, r)
        /\ UNCHANGED <<rowLock, faults>>
     \/ Fault /\ Skip(a, r) /\ UNCHANGED rowLock
  /\ UNCHANGED <<status, caseLock, flow, ctl, poker>>

MarkCommit(a, r) ==
  /\ attempt[a].pc = "marking" /\ IsNext(a, r)
  /\ SetStatus(r, "running")
  /\ rowLock' = [rowLock EXCEPT ![r] = Nobody]
  /\ Started(a, r)
  /\ UNCHANGED <<caseLock, flow, ctl, poker, faults>>

\* The cycle ends: an idle case needs no controller.
AttemptReturns(a) ==
  /\ attempt[a].pc = "start" /\ attempt[a].picked = {}
  /\ ctl' = IF ctl.by # a \/ ctl.state # "activity" THEN ctl
            ELSE [ctl EXCEPT !.by = Nobody, !.state =
                    IF attempt[a].idle THEN "closed" ELSE "waiting"]
  /\ To(a, IdleAttempt)
  /\ UNCHANGED <<rows, flow, poker, faults>>

\* A database error rolls the attempt's transaction back.
AttemptFails(a) ==
  /\ Fault
  /\ attempt[a].pc \in {"lock", "counted", "selected", "read"}
  /\ To(a, IdleAttempt)
  /\ rowLock' = Unlocked(a)
  /\ caseLock' = IF caseLock = a THEN Nobody ELSE caseLock
  /\ ctl' = IF ctl.by = a THEN Retried ELSE ctl
  /\ UNCHANGED <<status, flow, poker>>

-----------------------------------------------------------------------------
(* What else happens to the rows of the case.                               *)

\* The run's own workflow marks it too (run_node).
NodeMarkBegin(r) ==
  /\ flow[r] = "open" /\ status[r] = "admitted" /\ rowLock[r] = Nobody
  /\ rowLock' = [rowLock EXCEPT ![r] = "node"]
  /\ UNCHANGED <<status, caseLock, flow, attempt, ctl, poker, faults>>

NodeMarkCommit(r) ==
  /\ rowLock[r] = "node"
  /\ SetStatus(r, "running") /\ rowLock' = [rowLock EXCEPT ![r] = Nobody]
  /\ UNCHANGED <<caseLock, flow, attempt, ctl, poker, faults>>

\* request_run_cancellation
CancelRun(r) ==
  /\ rowLock[r] = Nobody
  /\ \/ status[r] = "admitted" /\ SetStatus(r, "ended")
     \/ status[r] = "running" /\ SetStatus(r, "cancelling")
  /\ UNCHANGED <<rowLock, caseLock, flow, attempt, ctl, poker, faults>>

\* The run's workflow ends, and so does the run; a run that is cancelling may
\* keep its status when its workflow had already got to the end, and a run may
\* be failed before its first activity.
RunEnds(r) ==
  /\ flow[r] = "open" /\ rowLock[r] = Nobody
  /\ \/ status[r] \in {"running", "cancelling", "ended"} /\ UNCHANGED faults
     \/ status[r] = "admitted" /\ Fault
  /\ SetStatus(r, "ended") \/ (status[r] = "cancelling" /\ UNCHANGED status)
  /\ SetFlow(r, "closed")
  /\ UNCHANGED <<rowLock, caseLock, attempt, ctl, poker>>

\* The worker dies: its attempts, open transactions and recovery loop go.
WorkerCrash ==
  /\ Fault
  /\ attempt' = [a \in Attempts |-> IdleAttempt]
  /\ rowLock' = [r \in Runs |-> Nobody] /\ caseLock' = Nobody
  /\ poker' = [poker EXCEPT !["recovery"] = "idle"]
  /\ UNCHANGED <<status, flow, ctl>>

\* The API process dies; what it was about to poke is not poked.
ApiCrash ==
  /\ Fault
  /\ poker["api"] # "idle" /\ poker' = [poker EXCEPT !["api"] = "idle"]
  /\ UNCHANGED <<rows, flow, attempt, ctl>>

-----------------------------------------------------------------------------
PokerNext ==
  \/ QueueRun \/ EndBatch \/ RecoveryScan
  \/ \E p \in Pokers : PokeStarts(p) \/ PokeSignals(p) \/ PokeFails(p)

ControllerNext ==
  \/ \E a \in Attempts : ControllerClaims(a)
  \/ ControllerTimeout \/ ControllerLosesAttempt \/ ControllerWakes

AttemptWork(a) ==
  \/ CountRunning(a) \/ SelectAdmitted(a) \/ ReadQueued(a)
  \/ ReadActiveAndCommit(a) \/ AttemptReturns(a)
  \/ \E r \in Runs : StartRun(a, r) \/ MarkBegin(a, r) \/ MarkCommit(a, r)

RunNext(r) == NodeMarkBegin(r) \/ NodeMarkCommit(r) \/ CancelRun(r) \/ RunEnds(r)

Next ==
  \/ PokerNext \/ ControllerNext \/ WorkerCrash \/ ApiCrash
  \/ \E a \in Attempts : AttemptWork(a) \/ AttemptFails(a)
  \/ \E r \in Runs : RunNext(r)

Spec == Init /\ [][Next]_vars

(***************************************************************************)
(* Fairness: the recovery loop and calls in flight go on, the server       *)
(* schedules the controller and its attempts, and the workflow of a run    *)
(* that is running gets to its end (RunLifecycle).  Nobody has to queue,   *)
(* to cancel or to fail.                                                   *)
(***************************************************************************)
Fairness ==
  /\ WF_vars(EndBatch) /\ WF_vars(RecoveryScan)
  /\ \A p \in Pokers : WF_vars(PokeStarts(p) \/ PokeSignals(p))
  /\ WF_vars(\E a \in Attempts : ControllerClaims(a))
  /\ WF_vars(ControllerLosesAttempt) /\ WF_vars(ControllerWakes)
  /\ \A a \in Attempts : WF_vars(AttemptWork(a))
  /\ \A r \in Runs : /\ WF_vars(NodeMarkBegin(r)) /\ WF_vars(NodeMarkCommit(r))
                     /\ WF_vars(RunEnds(r))

FairSpec == Spec /\ Fairness

-----------------------------------------------------------------------------
(* Type invariant.                                                          *)
TypeOK ==
  /\ status \in [Runs -> {"absent", "admitted", "running", "cancelling", "ended"}]
  /\ rowLock \in [Runs -> Attempts \cup {Nobody, "node"}]
  /\ caseLock \in Attempts \cup {Nobody}
  /\ flow \in [Runs -> {"none", "open", "closed"}]
  /\ attempt \in [Attempts -> AttemptType]
  /\ ctl \in ControllerType
  /\ poker \in [Pokers -> {"idle", "queueing", "start", "signal"}]
  /\ faults \in 0..MaxFaults

(* Safety.                                                                  *)

\* A row that reads running has a workflow that will end it: neither a failed
\* start, nor a crash between the start and the mark, nor an attempt the server
\* has given up leaves a slot of the cap taken for ever.
RunningHasWorkflow ==
  \A r \in Runs : status[r] = "running" => flow[r] = "open"

\* The case never has more running rows than the cap: the advisory lock makes
\* the whole selection atomic per case (comment of admit_case_runs).
InflightCap == Cardinality(OfStatus("running")) <= MaxInflight

\* As long as nothing fails the cap holds.
CapWithoutFaults == faults = 0 => InflightCap

\* As long as nothing fails runs start in the order they were queued in.
FifoWithoutFaults ==
  [][\A r \in OfStatus("admitted") :
       (faults' = 0 /\ status'[r] = "running")
          => \A q \in OfStatus("admitted") : r <= q]_vars

(* Liveness.                                                                *)

\* No admitted run waits for ever, whatever poke was lost in the controller's
\* idle exit.
QueueDrains == \A r \in Runs : status[r] = "admitted" ~> status[r] # "admitted"

\* The controller does not poll for ever: it closes when the case is idle.
ControllerEnds == ControllerOpen ~> ~ControllerOpen

-----------------------------------------------------------------------------
(* Why a running row has a workflow.                                        *)

\* A row reaches running only by a mark that follows a start, and a workflow
\* that closes takes its run out of admitted and running first.
FlowOK ==
  \A r \in Runs :
    /\ flow[r] = "closed" => status[r] \in {"cancelling", "ended"}
    /\ status[r] = "running" \/ rowLock[r] = "node" => flow[r] # "none"
    /\ rowLock[r] = "node" => status[r] = "admitted"

MarkOK(a) ==
  \A r \in Runs : IsNext(a, r) =>
    /\ attempt[a].pc \in {"mark", "marking"} => flow[r] # "none"
    /\ attempt[a].pc = "marking" => rowLock[r] = a /\ status[r] = "admitted"

IInv == TypeOK /\ FlowOK /\ \A a \in Attempts : MarkOK(a)
=============================================================================
