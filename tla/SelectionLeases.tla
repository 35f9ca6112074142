-------------------------- MODULE SelectionLeases ---------------------------
(***************************************************************************)
(* The leases that the runs of one case take on its material, for one      *)
(* medium.  Planning reserves every candidate, the last node commits what  *)
(* has shipped and releases the rest, a failure or a cancellation releases *)
(* everything, and time expires what is left.  Each activity attempt works *)
(* on the copy it has hydrated and writes it back with its snapshot.       *)
(*                                                                         *)
(* The nodes between planning and the report touch no lease and stand as   *)
(* one or more "work" nodes.  Runs that were cancelled before they started *)
(* have no leases and are left out, as are attempts that repeat a node     *)
(* whose commit they find: they only write a fresh copy back.              *)
(***************************************************************************)
EXTENDS Integers, FiniteSets

CONSTANTS
  Runs,       \* the runs of the case
  Threads,    \* worker threads and API requests
  Assets,     \* the eligible assets of the medium
  MaxClock,   \* bound on time, in lifetimes of a lease
  MaxFaults   \* bound on crashes and timeouts of attempts

ASSUME ClockAssumption == MaxClock \in Nat
ASSUME FaultBoundAssumption == MaxFaults \in Nat

VARIABLES
  row,        \* selection_reservations: per run and asset its status and expiry
  status,     \* per run, its row's status
  at,         \* per run, the node that is due
  pack,       \* per run, the assets of its committed MaterialPack artifact
  lost,       \* runs whose last attempt was lost
  thread,     \* what each thread does, on which copy
  clock, faults,
  overlapped  \* runs that had two attempts at work

runVars == <<status, at, pack>>
vars == <<row, runVars, lost, thread, clock, faults, overlapped>>

Ended == {"succeeded", "failed", "cancelled"}
Fenced == {"cancelling", "cancelled"}
Kinds == {"plan", "work", "final", "cancel", "fail", "request"}
Leases == [st : {"none", "reserved", "committed", "released", "expired"}, exp : 0..(MaxClock + 1)]
NoLease == [st |-> "none", exp |-> 0]
Idle == [pc |-> "idle", kind |-> "plan", run |-> "nobody", live |-> FALSE,
         own |-> [a \in Assets |-> NoLease], others |-> [a \in Assets |-> 0],
         assets |-> {}, res |-> "none"]

TypeOK ==
  /\ row \in [Runs -> [Assets -> Leases]]
  /\ status \in [Runs -> {"running", "cancelling"} \cup Ended]
  /\ at \in [Runs -> {"plan", "work", "final"}]
  /\ pack \in [Runs -> SUBSET Assets]
  /\ lost \in SUBSET Runs
  /\ thread \in [Threads ->
       [pc : {"idle", "act", "fence", "release", "sync"}, kind : Kinds, run : Runs \cup {"nobody"},
        live : BOOLEAN, own : [Assets -> Leases], others : [Assets -> 0..(MaxClock + 1)],
        assets : SUBSET Assets, res : {"none", "ok", "failed", "succeeded", "cancelled"}]]
  /\ clock \in 0..MaxClock /\ faults \in 0..MaxFaults
  /\ overlapped \in SUBSET Runs

Init ==
  /\ row = [r \in Runs |-> [a \in Assets |-> NoLease]]
  /\ status = [r \in Runs |-> "running"] /\ at = [r \in Runs |-> "plan"]
  /\ pack = [r \in Runs |-> {}]
  /\ lost = {} /\ thread = [t \in Threads |-> Idle]
  /\ clock = 0 /\ faults = 0 /\ overlapped = {}

Fault == faults < MaxFaults /\ faults' = faults + 1
Working(r) == {t \in Threads : thread[t].pc # "idle" /\ thread[t].run = r}
Attempts(r) == {t \in Working(r) : thread[t].kind # "request"}
Become(t, k) == thread' = [thread EXCEPT ![t] = k]

-----------------------------------------------------------------------------
(* Leases. *)

\* What hydration loads of the run's own leases, and of those that block it.
Hydrated(own, r) ==
  [a \in Assets |-> IF row[r][a].st \in {"reserved", "committed"} THEN row[r][a] ELSE own[a]]
Holder(a, r) == {q \in Runs \ {r} : row[q][a].st = "reserved" /\ row[q][a].exp > clock}
Blockers(others, r) ==
  [a \in Assets |-> IF Holder(a, r) = {} THEN others[a]
                    ELSE row[CHOOSE q \in Holder(a, r) : TRUE][a].exp]

\* A sweep that takes leases one lifetime too early: mutant of Swept.
SweptEarly(leases) ==
  [a \in Assets |-> IF leases[a].st = "reserved" /\ leases[a].exp <= clock + 1
                    THEN [leases[a] EXCEPT !.st = "expired"] ELSE leases[a]]

\* _expire_stale_selection_reservations, on rows; active_selection_reservations does
\* the same to a copy.
Swept(leases) ==
  [a \in Assets |-> IF leases[a].st = "reserved" /\ leases[a].exp <= clock
                    THEN [leases[a] EXCEPT !.st = "expired"] ELSE leases[a]]
SweptRows == [r \in Runs |-> Swept(row[r])]

\* The partial unique index over reserved rows.
ActiveSlotConflict(rows) ==
  \E a \in Assets, r, q \in Runs :
    r # q /\ rows[r][a].st = "reserved" /\ rows[q][a].st = "reserved"

\* release_run_reservations, only_uncommitted.
Released(leases) ==
  [a \in Assets |-> IF leases[a].st = "reserved" THEN [leases[a] EXCEPT !.st = "released"]
                                                 ELSE leases[a]]

\* commit_selection_reservation for each asset that has shipped.
Committed(leases, shipped) ==
  [a \in Assets |-> IF a \in shipped /\ leases[a].st = "reserved"
                    THEN [leases[a] EXCEPT !.st = "committed"] ELSE leases[a]]

\* reserve_selections: what the copy holds stays, the rest gets a fresh lease.
Reserved(leases, wanted) ==
  [a \in Assets |-> IF a \in wanted /\ leases[a].st \notin {"reserved", "committed"}
                    THEN [st |-> "reserved", exp |-> clock + 1] ELSE leases[a]]

-----------------------------------------------------------------------------
(* Activity attempts. *)

\* An attempt starts and hydrates: the node that is due, or the end of a cancelled or
\* lost run.  Next to a live attempt it follows a timeout.
Begin(t, r, kind) ==
  /\ thread[t].pc = "idle"
  /\ CASE kind = "cancel" -> status[r] = "cancelling"
       [] kind = "fail" -> r \in lost /\ status[r] \in {"running", "cancelling"}
       [] OTHER -> status[r] = "running" /\ kind = at[r]
  /\ LET live == {u \in Attempts(r) : thread[u].live} IN
       /\ IF live # {} THEN Fault ELSE UNCHANGED faults
       /\ thread' = [u \in Threads |->
            IF u = t THEN [Idle EXCEPT !.pc = "act", !.kind = kind, !.run = r, !.live = TRUE,
                             !.own = Hydrated(@, r),
                             !.others = IF kind = "plan" THEN Blockers(@, r) ELSE @]
            ELSE IF u \in live THEN [thread[u] EXCEPT !.live = FALSE] ELSE thread[u]]
  /\ overlapped' = (IF Attempts(r) # {} THEN overlapped \cup {r} ELSE overlapped)
  /\ lost' = lost \ {r}
  /\ UNCHANGED <<row, runVars, clock>>

\* reserve_selection_candidates: one transaction.  A slot that somebody else holds
\* rolls it back, restores the copy and refreshes it; the node tries again or fails.
\* An asset whose lease hydration does not load gets a lease under a new id, which
\* the unique index over run and asset refuses for good: the attempt is lost.
Plan(t) ==
  LET k == thread[t]
      r == k.run
      own == Swept(k.own)
      wanted == {a \in Assets : k.others[a] <= clock}
      mine == Reserved(own, wanted)
      rows == [SweptRows EXCEPT ![r] = [a \in Assets |-> IF a \in wanted THEN mine[a] ELSE @[a]]]
      reminted == {a \in wanted : k.own[a].st = "none" /\ row[r][a].st # "none"}
      again == Hydrated(own, r) IN
    /\ k.pc = "act" /\ k.kind = "plan"
    /\ \/ /\ reminted = {} /\ ~ActiveSlotConflict(rows)
          /\ row' = rows /\ lost' = lost
          /\ Become(t, [k EXCEPT !.pc = "sync", !.own = mine, !.assets = wanted, !.res = "ok",
                                 !.others = Idle.others])
       \/ /\ ActiveSlotConflict(rows)
          /\ UNCHANGED <<row, lost>>
          /\ \/ Become(t, [k EXCEPT !.own = again, !.others = Blockers(@, r)])
             \/ Become(t, [k EXCEPT !.own = Released(again), !.pc = "sync", !.res = "failed",
                                    !.others = Idle.others])
       \/ /\ reminted # {}
          /\ row' = row /\ Become(t, Idle) /\ lost' = lost \cup {r}
    /\ UNCHANGED <<runVars, clock, faults, overlapped>>

\* Any other node: it touches its leases only when it fails.
Work(t) ==
  LET k == thread[t] IN
    /\ k.pc = "act" /\ k.kind = "work"
    /\ \/ Become(t, [k EXCEPT !.pc = "sync", !.res = "ok"])
       \/ Become(t, [k EXCEPT !.pc = "sync", !.res = "failed", !.own = Released(@)])
    /\ UNCHANGED <<row, runVars, lost, clock, faults, overlapped>>

\* FinalizeRunReport: ledger, commits, release, and the end of the run.
Finalize(t) ==
  LET k == thread[t] IN
    /\ k.pc = "act" /\ k.kind = "final"
    /\ \E shipped \in SUBSET pack[k.run] :
         Become(t, [k EXCEPT !.pc = "sync", !.res = "succeeded",
                             !.own = Released(Committed(@, shipped))])
    /\ UNCHANGED <<row, runVars, lost, clock, faults, overlapped>>

\* mark_run_cancelled and mark_run_failed; a fenced run is cancelled by both.
MarkEnded(t) ==
  LET k == thread[t] IN
    /\ k.pc = "act" /\ k.kind \in {"cancel", "fail"}
    /\ Become(t, [k EXCEPT !.pc = "sync", !.own = Released(@),
                           !.res = IF status[k.run] \in Fenced THEN "cancelled" ELSE "failed"])
    /\ UNCHANGED <<row, runVars, lost, clock, faults, overlapped>>

\* ExecutionCancelled: a node that polls the fence stops without a snapshot.
StopAtFence(t) ==
  /\ thread[t].pc = "act" /\ thread[t].kind \in {"plan", "work", "final"}
  /\ status[thread[t].run] \in Fenced
  /\ Become(t, Idle)
  /\ UNCHANGED <<row, runVars, lost, clock, faults, overlapped>>

-----------------------------------------------------------------------------
(* Snapshots. *)

\* A fence that keeps back the releases too: mutant of Written.
WrittenUnlessFenced(k) == {a \in Assets : k.own[a].st # "none" /\ status[k.run] \notin Fenced}

\* Which leases of a copy a snapshot writes: behind the fence only their release.
Written(k) ==
  {a \in Assets :
     /\ k.own[a].st # "none"
     /\ status[k.run] \in Fenced =>
          row[k.run][a].st # "none" /\ k.own[a].st \in {"released", "expired"}}

SnapshotRows(k) ==
  [SweptRows EXCEPT ![k.run] = [a \in Assets |-> IF a \in Written(k) THEN k.own[a] ELSE @[a]]]

\* The node's result as the run's status: mutant of SyncedStatus.
SyncedAsIs(old, res) == IF old = "running" THEN res ELSE old

\* _preserve_terminal_workflow_run.
SyncedStatus(old, res) ==
  IF old = "running" /\ res \in Ended THEN res
  ELSE IF old = "cancelling" /\ res = "cancelled" THEN res ELSE old

\* sync_workflow_snapshot of an attempt or of a cancel request.
Sync(t) ==
  LET k == thread[t]
      r == k.run
      commits == status[r] \notin Fenced /\ k.res \in {"ok", "succeeded"} IN
    /\ k.pc = "sync" /\ ~ActiveSlotConflict(SnapshotRows(k))
    /\ row' = SnapshotRows(k)
    /\ status' = [status EXCEPT ![r] = SyncedStatus(@, k.res)]
    /\ pack' = (IF commits /\ k.kind = "plan" THEN [pack EXCEPT ![r] = k.assets] ELSE pack)
    /\ \E next \in {"work", "final"} :
         at' = IF commits /\ k.kind \in {"plan", "work"} /\ at[r] = k.kind
               THEN [at EXCEPT ![r] = next] ELSE at
    /\ Become(t, Idle)
    /\ UNCHANGED <<lost, clock, faults, overlapped>>

\* The lease ran out while the attempt was at work and somebody else took the slot:
\* the whole snapshot is refused, with everything the attempt has done.
SyncRefused(t) ==
  LET k == thread[t] IN
    /\ k.pc = "sync" /\ ActiveSlotConflict(SnapshotRows(k))
    /\ Become(t, Idle)
    /\ lost' = (IF k.live THEN lost \cup {k.run} ELSE lost)
    /\ UNCHANGED <<row, runVars, clock, faults, overlapped>>

-----------------------------------------------------------------------------
(* A cancel request. *)

\* cancel_run: the API hydrates a run it does not know, or has a copy without leases.
CancelRun(t, r) ==
  /\ thread[t].pc = "idle" /\ status[r] \in {"running", "cancelling"}
  /\ \E own \in {Idle.own, Hydrated(Idle.own, r)} :
       Become(t, [Idle EXCEPT !.pc = "fence", !.kind = "request", !.run = r, !.own = own])
  /\ UNCHANGED <<row, runVars, lost, clock, faults, overlapped>>

\* request_run_cancellation; a run that has ended meanwhile stays as it is, the
\* request goes on.
Fence(t) ==
  LET r == thread[t].run IN
    /\ thread[t].pc = "fence"
    /\ status' = [status EXCEPT ![r] = IF @ = "running" THEN "cancelling" ELSE @]
    /\ Become(t, [thread[t] EXCEPT !.pc = "release", !.own = Released(@)])
    /\ UNCHANGED <<row, at, pack, lost, clock, faults, overlapped>>

\* A release that takes committed leases too: mutant of ReleaseDurable.
ReleaseDurableAll(t) ==
  LET r == thread[t].run IN
    /\ thread[t].pc = "release"
    /\ row' = [row EXCEPT ![r] = [a \in Assets |->
                 IF @[a].st = "none" THEN NoLease ELSE [@[a] EXCEPT !.st = "released"]]]
    /\ Become(t, [thread[t] EXCEPT !.pc = "sync"])
    /\ UNCHANGED <<runVars, lost, clock, faults, overlapped>>

\* release_run_selection_reservations.
ReleaseDurable(t) ==
  LET r == thread[t].run IN
    /\ thread[t].pc = "release"
    /\ row' = [row EXCEPT ![r] = Released(@)]
    /\ Become(t, [thread[t] EXCEPT !.pc = "sync"])
    /\ UNCHANGED <<runVars, lost, clock, faults, overlapped>>

-----------------------------------------------------------------------------

Crash(t) ==
  /\ thread[t].pc # "idle" /\ Fault
  /\ lost' = (IF thread[t].live THEN lost \cup {thread[t].run} ELSE lost)
  /\ Become(t, Idle)
  /\ UNCHANGED <<row, runVars, clock, overlapped>>

Tick ==
  /\ clock < MaxClock /\ clock' = clock + 1
  /\ UNCHANGED <<row, runVars, lost, thread, faults, overlapped>>

Next ==
  \/ \E t \in Threads :
       \/ \E r \in Runs : CancelRun(t, r) \/ \E kind \in Kinds \ {"request"} : Begin(t, r, kind)
       \/ Plan(t) \/ Work(t) \/ Finalize(t) \/ MarkEnded(t) \/ StopAtFence(t)
       \/ Sync(t) \/ SyncRefused(t) \/ Fence(t) \/ ReleaseDurable(t) \/ Crash(t)
  \/ Tick

Spec == Init /\ [][Next]_vars

-----------------------------------------------------------------------------
(* Properties. *)

\* What the leases are for: two runs that are under way never plan with the same
\* asset, unless the lease of one of them has run out.
PacksAreDisjoint ==
  \A r, q \in Runs, a \in Assets :
    /\ r # q /\ status[r] = "running" /\ status[q] = "running"
    /\ a \in pack[r] \cap pack[q]
    => row[r][a].exp <= clock \/ row[q][a].exp <= clock

\* A run that has ended, and that never had two attempts at work, blocks nobody once
\* its last thread is done, whichever way it ended and whatever crashed before.
EndedRunHoldsNothing ==
  \A r \in Runs :
    status[r] \in Ended /\ Working(r) = {} /\ r \notin overlapped
      => \A a \in Assets : row[r][a].st # "reserved"

\* Committed leases stay as audit records; without overlapping attempts only a cancel
\* request that has read the run before it ended takes one back.
CommitsStand ==
  [][\A r \in Runs, a \in Assets :
       row[r][a].st = "committed" /\ r \notin overlapped' =>
         \/ row'[r][a] = row[r][a]
         \/ \E t \in Working(r) : thread[t].kind = "request" /\ thread[t].own[a].st = "released"]_vars
=============================================================================
