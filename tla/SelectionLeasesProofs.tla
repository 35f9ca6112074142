----------------------- MODULE SelectionLeasesProofs ------------------------
(***************************************************************************)
(* The leases of SelectionLeases keep two runs apart, and let go in the    *)
(* end, for any number of runs, threads, assets and faults.                *)
(*                                                                         *)
(* A running run owns, for each asset of its pack, a lease that is         *)
(* reserved or has run out, and the unique index leaves one reserved lease *)
(* per asset: that is RowsOK.  That nothing stays reserved behind the end  *)
(* of a run is the work of one attempt: AloneOK and AloneCopyOK speak of   *)
(* the runs whose attempts never overlapped, where the copy of the attempt *)
(* knows every lease the row holds, so what it releases is all there is.   *)
(* CopyOK is what holds of every copy, overlapping or not.                 *)
(***************************************************************************)
EXTENDS SelectionLeases, TLAPS

\* A lease of a run that has not ended: nothing is committed or released yet, and what
\* has expired ran out.
LiveLease(l) == l.st \in {"none", "reserved", "expired"} /\ (l.st = "expired" => l.exp <= clock)

RowsOK(r) ==
  status[r] = "running" =>
    \A a \in Assets : LiveLease(row[r][a]) /\ (a \in pack[r] => row[r][a].st # "none")

\* A run whose attempts never overlapped has at most one.
AloneOK(r) ==
  r \notin overlapped =>
    /\ \A t, u \in Attempts(r) : t = u
    /\ status[r] \in Ended => Attempts(r) = {} /\ \A a \in Assets : row[r][a].st # "reserved"
    /\ \A a \in Assets : row[r][a].st = "committed" => status[r] \in Ended

CopyOK(k) ==
  /\ k.pc = "act" => k.kind # "request" /\ k.res = "none"
  /\ k.pc \in {"fence", "release"} => k.kind = "request"
  /\ k.kind = "request" => k.res = "none"
  /\ k.kind = "request" /\ k.pc \in {"release", "sync"} =>
       status[k.run] # "running" /\ \A a \in Assets : k.own[a].st # "reserved"
  /\ status[k.run] = "running" /\ k.res \notin Ended => \A a \in Assets : LiveLease(k.own[a])
  /\ k.kind = "plan" /\ k.res = "ok" => \A a \in k.assets : k.own[a].st \in {"reserved", "committed"}

AloneCopyOK(k) ==
  k.run \notin overlapped =>
    \A a \in Assets :
      /\ k.res # "succeeded" => k.own[a].st # "committed"
      /\ k.pc = "act" /\ row[k.run][a].st = "reserved" => k.own[a].st = "reserved"
      /\ k.res \in Ended =>
           /\ k.own[a].st # "reserved"
           /\ row[k.run][a].st = "reserved" => k.own[a].st \in {"released", "committed"}
      /\ k.kind = "request" => k.own[a].st \in {"none", "reserved", "released"}

ThreadOK(t) ==
  thread[t].pc # "idle" => thread[t].run \in Runs /\ CopyOK(thread[t]) /\ AloneCopyOK(thread[t])

IInv ==
  /\ TypeOK
  /\ ~ActiveSlotConflict(row)
  /\ \A r \in Runs : RowsOK(r) /\ AloneOK(r)
  /\ \A t \in Threads : ThreadOK(t)
-----------------------------------------------------------------------------
(* The operators on leases, asset by asset. *)

LeaseMap == [Assets -> Leases]
Times == 0..(MaxClock + 1)
Copy ==
  [pc : {"idle", "act", "fence", "release", "sync"}, kind : Kinds, run : Runs \cup {"nobody"},
   live : BOOLEAN, own : LeaseMap, others : [Assets -> Times], assets : SUBSET Assets,
   res : {"none", "ok", "failed", "succeeded", "cancelled"}]

LEMMA Types == /\ TypeOK <=> /\ row \in [Runs -> LeaseMap]
                             /\ status \in [Runs -> {"running", "cancelling"} \cup Ended]
                             /\ at \in [Runs -> {"plan", "work", "final"}]
                             /\ pack \in [Runs -> SUBSET Assets]
                             /\ lost \in SUBSET Runs
                             /\ thread \in [Threads -> Copy]
                             /\ clock \in 0..MaxClock /\ faults \in 0..MaxFaults
                             /\ overlapped \in SUBSET Runs
BY DEF TypeOK, LeaseMap, Copy, Times

\* How a lease ages.
Aged(old, new) ==
  \/ new = old
  \/ old.st = "reserved" /\ old.exp <= clock /\ new.st = "expired" /\ new.exp = old.exp

LEMMA SweptEffect ==
  ASSUME NEW m \in LeaseMap
  PROVE  Swept(m) \in LeaseMap /\ \A a \in Assets : Aged(m[a], Swept(m)[a])
BY DEF LeaseMap, Leases, Swept, Aged

LEMMA SweptRowsEffect ==
  ASSUME row \in [Runs -> LeaseMap]
  PROVE  /\ SweptRows \in [Runs -> LeaseMap]
         /\ \A r \in Runs, a \in Assets : Aged(row[r][a], SweptRows[r][a])
<1>1. \A r \in Runs : /\ Swept(row[r]) \in LeaseMap
                      /\ \A a \in Assets : Aged(row[r][a], Swept(row[r])[a])
  BY SweptEffect
<1> QED
  BY <1>1 DEF SweptRows

LEMMA ReleasedEffect ==
  ASSUME NEW m \in LeaseMap
  PROVE  /\ Released(m) \in LeaseMap
         /\ \A a \in Assets :
              IF m[a].st = "reserved"
              THEN Released(m)[a].st = "released" /\ Released(m)[a].exp = m[a].exp
              ELSE Released(m)[a] = m[a]
BY DEF LeaseMap, Leases, Released

LEMMA CommittedEffect ==
  ASSUME NEW m \in LeaseMap, NEW S \in SUBSET Assets
  PROVE  /\ Committed(m, S) \in LeaseMap
         /\ \A a \in Assets :
              IF a \in S /\ m[a].st = "reserved" THEN Committed(m, S)[a].st = "committed"
              ELSE Committed(m, S)[a] = m[a]
BY DEF LeaseMap, Leases, Committed

LEMMA ReservedEffect ==
  ASSUME NEW m \in LeaseMap, NEW S \in SUBSET Assets, clock \in 0..MaxClock
  PROVE  /\ Reserved(m, S) \in LeaseMap
         /\ \A a \in Assets :
              IF a \in S /\ m[a].st \notin {"reserved", "committed"}
              THEN Reserved(m, S)[a].st = "reserved" /\ Reserved(m, S)[a].exp = clock + 1
              ELSE Reserved(m, S)[a] = m[a]
BY ClockAssumption DEF LeaseMap, Leases, Reserved

LEMMA HydratedEffect ==
  ASSUME row \in [Runs -> LeaseMap], NEW m \in LeaseMap, NEW r \in Runs
  PROVE  /\ Hydrated(m, r) \in LeaseMap
         /\ \A a \in Assets :
              Hydrated(m, r)[a] = IF row[r][a].st \in {"reserved", "committed"}
                                  THEN row[r][a] ELSE m[a]
BY DEF LeaseMap, Hydrated

LEMMA BlockersTyped ==
  ASSUME row \in [Runs -> LeaseMap], NEW m \in [Assets -> Times], NEW r \in Runs
  PROVE  Blockers(m, r) \in [Assets -> Times]
<1>1. ASSUME NEW a \in Assets, Holder(a, r) # {}
      PROVE  row[CHOOSE q \in Holder(a, r) : TRUE][a].exp \in Times
  <2>1. (CHOOSE q \in Holder(a, r) : TRUE) \in Holder(a, r)
    BY <1>1
  <2>2. (CHOOSE q \in Holder(a, r) : TRUE) \in Runs
    BY <2>1 DEF Holder
  <2> QED
    BY <2>2 DEF LeaseMap, Leases, Times
<1> QED
  BY <1>1 DEF Blockers

LEMMA NoLeaseTyped == NoLease \in Leases /\ NoLease.st = "none"
<1>1. 0 \in 0..(MaxClock + 1)
  BY ClockAssumption
<1> QED
  BY <1>1 DEF NoLease, Leases

LEMMA IdleTyped ==
  /\ Idle \in Copy /\ Idle.pc = "idle" /\ Idle.res = "none" /\ Idle.assets = {}
  /\ Idle.own \in LeaseMap /\ Idle.others \in [Assets -> Times]
  /\ \A a \in Assets : Idle.own[a].st = "none"
<1>1. 0 \in Times
  BY ClockAssumption DEF Times
<1>2. [a \in Assets |-> NoLease] \in LeaseMap /\ \A a \in Assets : [b \in Assets |-> NoLease][a].st = "none"
  BY NoLeaseTyped DEF LeaseMap
<1>3. [a \in Assets |-> 0] \in [Assets -> Times]
  BY <1>1
<1> QED
  BY <1>2, <1>3 DEF Idle, Copy, Kinds
-----------------------------------------------------------------------------
(* What every step does to the threads and the runs that do not move. *)

\* No step takes back time, an overlap or the end of a run.
Monotone ==
  /\ clock \in Int /\ clock' \in Int /\ clock <= clock' /\ overlapped \subseteq overlapped'
  /\ \A r \in Runs : status'[r] = "running" => status[r] = "running"

\* A step that hands no lease to run r.
NothingReserved(r) ==
  \A a \in Assets : row'[r][a].st = "reserved" => row[r][a].st = "reserved"

SameCopy(u) ==
  /\ thread'[u].pc = thread[u].pc /\ thread'[u].kind = thread[u].kind
  /\ thread'[u].run = thread[u].run /\ thread'[u].own = thread[u].own
  /\ thread'[u].assets = thread[u].assets /\ thread'[u].res = thread[u].res

LEMMA CopyStays ==
  ASSUME TypeOK, NEW k \in Copy, k.run \in Runs, CopyOK(k), Monotone
  PROVE  CopyOK(k)'
<1>1. k.own \in LeaseMap /\ k.assets \subseteq Assets
  BY DEF Copy
<1>2. \A a \in Assets : LiveLease(k.own[a]) => LiveLease(k.own[a])'
  BY <1>1 DEF LeaseMap, Leases, LiveLease, Monotone
<1>3. status'[k.run] = "running" => status[k.run] = "running"
  BY DEF Monotone
<1> QED
  BY <1>1, <1>2, <1>3 DEF CopyOK

LEMMA AloneCopyStays ==
  ASSUME NEW k \in Copy, k.run \in Runs, CopyOK(k), AloneCopyOK(k), Monotone,
         k.run \in overlapped' \/ k.kind = "request" \/ NothingReserved(k.run)
  PROVE  AloneCopyOK(k)'
<1>1. k.run \notin overlapped' => k.run \notin overlapped
  BY DEF Monotone
<1>2. k.kind = "request" => k.pc # "act" /\ k.res \notin Ended
  BY DEF CopyOK, Ended
<1> QED
  BY <1>1, <1>2 DEF AloneCopyOK, NothingReserved

LEMMA Stable ==
  ASSUME TypeOK, NEW u \in Threads, ThreadOK(u), SameCopy(u), Monotone,
         \/ thread[u].run \in overlapped' \/ thread[u].kind = "request"
         \/ NothingReserved(thread[u].run)
  PROVE  ThreadOK(u)'
<1>1. CASE thread[u].pc = "idle"
  BY <1>1 DEF ThreadOK, SameCopy
<1>2. CASE thread[u].pc # "idle"
  <2>1. PICK k : k = thread[u]
    OBVIOUS
  <2>2. k \in Copy /\ k.run \in Runs /\ CopyOK(k) /\ AloneCopyOK(k)
    BY <1>2, <2>1, Types DEF ThreadOK
  <2>3. CopyOK(k)' /\ AloneCopyOK(k)'
    BY <2>1, <2>2, CopyStays, AloneCopyStays
  <2>4. CopyOK(thread[u])'
    BY <2>1, <2>3 DEF SameCopy, CopyOK
  <2>5. AloneCopyOK(thread[u])'
    BY <2>1, <2>3 DEF SameCopy, AloneCopyOK
  <2> QED
    BY <2>1, <2>2, <2>4, <2>5 DEF ThreadOK, SameCopy
<1> QED
  BY <1>1, <1>2

\* A step that writes no row and starts no attempt.
LEMMA RunsStay ==
  ASSUME TypeOK, \A r \in Runs : RowsOK(r) /\ AloneOK(r), Monotone,
         UNCHANGED <<row, status, pack>>,
         \A u \in Threads : thread'[u].pc # "idle" /\ thread'[u].kind # "request" =>
           /\ thread[u].pc # "idle" /\ thread[u].kind # "request"
           /\ thread[u].run = thread'[u].run
  PROVE  \A r \in Runs : RowsOK(r)' /\ AloneOK(r)'
<1> SUFFICES ASSUME NEW r \in Runs PROVE RowsOK(r)' /\ AloneOK(r)'
  OBVIOUS
<1>1. row \in [Runs -> LeaseMap]
  BY Types
<1>2. \A a \in Assets : row[r][a] \in Leases
  BY <1>1 DEF LeaseMap
<1>3. RowsOK(r)'
  <2>1. \A a \in Assets : LiveLease(row[r][a]) => LiveLease(row[r][a])'
    BY <1>2 DEF Leases, LiveLease, Monotone
  <2> QED
    BY <2>1 DEF RowsOK, Monotone
<1>4. AloneOK(r)'
  <2>1. Attempts(r)' \subseteq Attempts(r)
    BY DEF Attempts, Working
  <2> QED
    BY <2>1 DEF AloneOK, Monotone
<1> QED
  BY <1>3, <1>4

\* A thread that changes nothing but its copy.
LEMMA LocalStep ==
  ASSUME IInv, NEW t \in Threads, NEW k \in Copy, thread' = [thread EXCEPT ![t] = k],
         UNCHANGED <<row, status, at, pack, clock, overlapped>>,
         lost' \subseteq Runs, faults' \in 0..MaxFaults,
         k.pc # "idle" => k.run \in Runs /\ CopyOK(k) /\ AloneCopyOK(k),
         k.pc # "idle" /\ k.kind # "request" =>
           /\ thread[t].pc # "idle" /\ thread[t].kind # "request" /\ thread[t].run = k.run
  PROVE  IInv'
<1>1. TypeOK /\ ~ActiveSlotConflict(row) /\ (\A r \in Runs : RowsOK(r) /\ AloneOK(r))
      /\ \A u \in Threads : ThreadOK(u)
  BY DEF IInv
<1>2. thread \in [Threads -> Copy] /\ clock \in 0..MaxClock
  BY <1>1, Types
<1>3. Monotone /\ \A r \in Runs : NothingReserved(r)
  BY <1>2, ClockAssumption DEF Monotone, NothingReserved
<1>4. TypeOK'
  <2>1. thread' \in [Threads -> Copy]
    BY <1>2
  <2> QED
    BY <1>1, <2>1, Types DEF TypeOK, Copy, LeaseMap, Times
<1>5. \A r \in Runs : RowsOK(r)' /\ AloneOK(r)'
  BY <1>1, <1>2, <1>3, RunsStay
<1>6. ASSUME NEW u \in Threads
      PROVE  ThreadOK(u)'
  <2>1. CASE u = t
    <3>1. thread'[u] = k
      BY <1>2, <2>1
    <3>2. k.pc # "idle" => CopyOK(thread[u])' /\ AloneCopyOK(thread[u])'
      BY <3>1 DEF CopyOK, AloneCopyOK, LiveLease
    <3> QED
      BY <3>1, <3>2 DEF ThreadOK
  <2>2. CASE u # t /\ thread[u].pc = "idle"
    BY <1>2, <2>2 DEF ThreadOK
  <2>3. CASE u # t /\ thread[u].pc # "idle"
    BY <1>1, <1>2, <1>3, <2>3, Stable DEF SameCopy, ThreadOK
  <2> QED
    BY <2>1, <2>2, <2>3
<1>7. ~ActiveSlotConflict(row)'
  BY <1>1 DEF ActiveSlotConflict
<1> QED
  BY <1>4, <1>5, <1>6, <1>7 DEF IInv
-----------------------------------------------------------------------------
(* The steps that change one copy and no row. *)

\* What the invariant says of a thread at work.
LEMMA AtWork ==
  ASSUME IInv, NEW t \in Threads, thread[t].pc # "idle"
  PROVE  /\ thread[t] \in Copy /\ thread[t].run \in Runs /\ thread[t].own \in LeaseMap
         /\ thread[t].others \in [Assets -> Times] /\ thread[t].assets \subseteq Assets
         /\ CopyOK(thread[t]) /\ AloneCopyOK(thread[t])
         /\ row \in [Runs -> LeaseMap] /\ RowsOK(thread[t].run) /\ AloneOK(thread[t].run)
         /\ pack[thread[t].run] \subseteq Assets
BY Types DEF IInv, ThreadOK, Copy

LEMMA ToIdle ==
  ASSUME IInv, NEW t \in Threads, Become(t, Idle), lost' \subseteq Runs, faults' \in 0..MaxFaults,
         UNCHANGED <<row, status, at, pack, clock, overlapped>>
  PROVE  IInv'
BY LocalStep, IdleTyped DEF Become

LEMMA IdleSteps ==
  ASSUME IInv, NEW t \in Threads, StopAtFence(t) \/ SyncRefused(t) \/ Crash(t)
  PROVE  IInv' /\ row' = row
<1>1. lost \subseteq Runs /\ faults \in 0..MaxFaults /\ TypeOK
  BY Types DEF IInv
<1>2. CASE StopAtFence(t)
  BY <1>1, <1>2, ToIdle DEF StopAtFence, runVars
<1>3. CASE SyncRefused(t)
  <2>1. thread[t].run \in Runs
    BY <1>3, AtWork DEF SyncRefused
  <2>2. lost' \subseteq Runs
    BY <1>1, <1>3, <2>1 DEF SyncRefused
  <2> QED
    BY <1>1, <1>3, <2>2, ToIdle DEF SyncRefused, runVars
<1>4. CASE Crash(t)
  <2>1. thread[t].run \in Runs
    BY <1>4, AtWork DEF Crash
  <2>2. lost' \subseteq Runs
    BY <1>1, <1>4, <2>1 DEF Crash
  <2>3. faults' \in 0..MaxFaults
    BY <1>1, <1>4, FaultBoundAssumption DEF Crash, Fault
  <2> QED
    BY <1>4, <2>2, <2>3, ToIdle DEF Crash, runVars
<1> QED
  BY <1>2, <1>3, <1>4

\* An attempt that puts another copy in place of its own, with no lease in it that is
\* reserved and a result that ends the run or its work.
LEMMA Resolves ==
  ASSUME IInv, NEW t \in Threads, NEW m \in LeaseMap, NEW v \in {"ok", "failed", "succeeded", "cancelled"},
         NEW k \in Copy, thread[t].pc = "act", thread' = [thread EXCEPT ![t] = k],
         k.pc = "sync", k.own = m, k.res = v, k.kind = thread[t].kind, k.run = thread[t].run,
         v = "ok" => k.kind # "plan" /\ m = thread[t].own,
         v # "ok" => \A a \in Assets : m[a].st # "reserved",
         v # "ok" /\ k.run \notin overlapped => \A a \in Assets :
            /\ row[k.run][a].st = "reserved" => m[a].st \in {"released", "committed"}
            /\ v # "succeeded" => m[a].st # "committed",
         UNCHANGED <<row, status, at, pack, lost, clock, faults, overlapped>>
  PROVE  IInv'
<1>1. CopyOK(thread[t]) /\ AloneCopyOK(thread[t]) /\ k.run \in Runs /\ k.kind # "request"
      /\ thread[t].res = "none"
  BY AtWork DEF CopyOK
<1>2. CopyOK(k)
  BY <1>1 DEF CopyOK, Ended
<1>3. AloneCopyOK(k)
  BY <1>1 DEF AloneCopyOK, Ended
<1>4. lost \subseteq Runs /\ faults \in 0..MaxFaults
  BY Types DEF IInv
<1> QED
  BY <1>1, <1>2, <1>3, <1>4, LocalStep

\* The same, when the copy it has read is released.
LEMMA Gives ==
  ASSUME IInv, NEW t \in Threads, NEW m \in LeaseMap, NEW v \in {"failed", "cancelled"},
         NEW k \in Copy, thread[t].pc = "act", thread' = [thread EXCEPT ![t] = k],
         k.pc = "sync", k.own = Released(m), k.res = v, k.kind = thread[t].kind, k.run = thread[t].run,
         k.run \notin overlapped => \A a \in Assets :
            /\ row[k.run][a].st = "reserved" => m[a].st = "reserved"
            /\ m[a].st # "committed",
         UNCHANGED <<row, status, at, pack, lost, clock, faults, overlapped>>
  PROVE  IInv'
<1>1. PICK n : n = Released(m)
  OBVIOUS
<1>2. /\ n \in LeaseMap
      /\ \A a \in Assets : IF m[a].st = "reserved"
                            THEN n[a].st = "released" /\ n[a].exp = m[a].exp ELSE n[a] = m[a]
  BY <1>1, ReleasedEffect
<1>3. \A a \in Assets : n[a].st # "reserved"
  BY <1>2
<1>4. k.run \notin overlapped => \A a \in Assets :
        (row[k.run][a].st = "reserved" => n[a].st = "released") /\ n[a].st # "committed"
  BY <1>2
<1> QED
  BY <1>1, <1>2, <1>3, <1>4, Resolves

LEMMA WorkStep ==
  ASSUME IInv, NEW t \in Threads, Work(t)
  PROVE  IInv' /\ row' = row
<1> DEFINE k == thread[t]
<1>1. /\ k \in Copy /\ k.own \in LeaseMap /\ k.run \in Runs /\ CopyOK(k) /\ AloneCopyOK(k)
      /\ k.pc = "act" /\ k.kind = "work"
  BY AtWork DEF Work
<1>2. UNCHANGED <<row, status, at, pack, lost, clock, faults, overlapped>>
  BY DEF Work, runVars
<1>3. CASE Become(t, [k EXCEPT !.pc = "sync", !.res = "ok"])
  <2>1. PICK n : n = [k EXCEPT !.pc = "sync", !.res = "ok"]
    OBVIOUS
  <2>2. n \in Copy /\ n.pc = "sync" /\ n.own = k.own /\ n.res = "ok" /\ n.kind = k.kind /\ n.run = k.run
    BY <1>1, <2>1 DEF Copy
  <2> QED
    BY <1>1, <1>2, <1>3, <2>1, <2>2, Resolves DEF Become
<1>4. CASE Become(t, [k EXCEPT !.pc = "sync", !.res = "failed", !.own = Released(@)])
  <2>1. PICK n : n = [k EXCEPT !.pc = "sync", !.res = "failed", !.own = Released(@)]
    OBVIOUS
  <2>2. n \in Copy /\ n.pc = "sync" /\ n.own = Released(k.own) /\ n.res = "failed"
        /\ n.kind = k.kind /\ n.run = k.run
    BY <1>1, <2>1, ReleasedEffect DEF Copy
  <2>3. thread' = [thread EXCEPT ![t] = n]
    BY <1>4, <2>1 DEF Become
  <2>4. k.run \notin overlapped => \A a \in Assets :
          (row[k.run][a].st = "reserved" => k.own[a].st = "reserved") /\ k.own[a].st # "committed"
    BY <1>1 DEF AloneCopyOK, CopyOK
  <2> QED
    BY <1>1, <1>2, <2>2, <2>3, <2>4, Gives
<1> QED
  BY <1>2, <1>3, <1>4 DEF Work

LEMMA MarkEndedStep ==
  ASSUME IInv, NEW t \in Threads, MarkEnded(t)
  PROVE  IInv' /\ row' = row
<1> DEFINE k == thread[t]
<1>1. /\ k \in Copy /\ k.own \in LeaseMap /\ k.run \in Runs /\ CopyOK(k) /\ AloneCopyOK(k)
      /\ k.pc = "act"
  BY AtWork DEF MarkEnded
<1>2. UNCHANGED <<row, status, at, pack, lost, clock, faults, overlapped>>
  BY DEF MarkEnded, runVars
<1>3. PICK v \in {"failed", "cancelled"} :
        v = IF status[k.run] \in Fenced THEN "cancelled" ELSE "failed"
  OBVIOUS
<1>4. PICK n : n = [k EXCEPT !.pc = "sync", !.own = Released(@), !.res = v]
  OBVIOUS
<1>5. n \in Copy /\ n.pc = "sync" /\ n.own = Released(k.own) /\ n.res = v
      /\ n.kind = k.kind /\ n.run = k.run
  BY <1>1, <1>4, ReleasedEffect DEF Copy
<1>6. thread' = [thread EXCEPT ![t] = n]
  BY <1>3, <1>4 DEF MarkEnded, Become
<1>7. k.run \notin overlapped => \A a \in Assets :
        (row[k.run][a].st = "reserved" => k.own[a].st = "reserved") /\ k.own[a].st # "committed"
  BY <1>1 DEF AloneCopyOK, CopyOK
<1> QED
  BY <1>1, <1>2, <1>5, <1>6, <1>7, Gives

LEMMA FinalizeStep ==
  ASSUME IInv, NEW t \in Threads, Finalize(t)
  PROVE  IInv' /\ row' = row
<1> DEFINE k == thread[t]
<1>1. /\ k \in Copy /\ k.own \in LeaseMap /\ k.run \in Runs /\ CopyOK(k) /\ AloneCopyOK(k)
      /\ k.pc = "act" /\ pack[k.run] \subseteq Assets
  BY AtWork DEF Finalize
<1>2. UNCHANGED <<row, status, at, pack, lost, clock, faults, overlapped>>
  BY DEF Finalize, runVars
<1>3. PICK shipped \in SUBSET pack[k.run] :
        Become(t, [k EXCEPT !.pc = "sync", !.res = "succeeded", !.own = Released(Committed(@, shipped))])
  BY DEF Finalize
<1>4. PICK c : c = Committed(k.own, shipped)
  OBVIOUS
<1>5. /\ c \in LeaseMap
      /\ \A a \in Assets : IF a \in shipped /\ k.own[a].st = "reserved"
                            THEN c[a].st = "committed" ELSE c[a] = k.own[a]
  BY <1>1, <1>4, CommittedEffect
<1>6. PICK m : m = Released(c)
  OBVIOUS
<1>7. /\ m \in LeaseMap
      /\ \A a \in Assets : IF c[a].st = "reserved"
                            THEN m[a].st = "released" /\ m[a].exp = c[a].exp ELSE m[a] = c[a]
  BY <1>5, <1>6, ReleasedEffect
<1>8. PICK n : n = [k EXCEPT !.pc = "sync", !.res = "succeeded", !.own = m]
  OBVIOUS
<1>9. n \in Copy /\ n.pc = "sync" /\ n.own = m /\ n.res = "succeeded"
      /\ n.kind = k.kind /\ n.run = k.run
  BY <1>1, <1>7, <1>8 DEF Copy
<1>10. thread' = [thread EXCEPT ![t] = n]
  BY <1>3, <1>4, <1>6, <1>8 DEF Become
<1>11. \A a \in Assets : m[a].st # "reserved"
  BY <1>7
<1>12. k.run \notin overlapped => \A a \in Assets :
         row[k.run][a].st = "reserved" => m[a].st \in {"released", "committed"}
  BY <1>1, <1>5, <1>7 DEF AloneCopyOK
<1> QED
  BY <1>1, <1>2, <1>7, <1>9, <1>10, <1>11, <1>12, Resolves
LEMMA CancelRunStep ==
  ASSUME IInv, NEW t \in Threads, NEW r \in Runs, CancelRun(t, r)
  PROVE  IInv' /\ row' = row
<1>1. UNCHANGED <<row, status, at, pack, lost, clock, faults, overlapped>>
      /\ status[r] \notin Ended
  BY DEF CancelRun, runVars, Ended
<1>2. PICK own \in {Idle.own, Hydrated(Idle.own, r)} :
        Become(t, [Idle EXCEPT !.pc = "fence", !.kind = "request", !.run = r, !.own = own])
  BY DEF CancelRun
<1>3. own \in LeaseMap /\ (status[r] = "running" => \A a \in Assets : LiveLease(own[a]))
      /\ (r \notin overlapped => \A a \in Assets : own[a].st \in {"none", "reserved"})
  <2>1. CASE own = Idle.own
    BY <2>1, IdleTyped DEF LiveLease
  <2>2. CASE own = Hydrated(Idle.own, r)
    <3>1. row \in [Runs -> LeaseMap] /\ RowsOK(r) /\ AloneOK(r)
      BY Types DEF IInv
    <3>2. \A a \in Assets : own[a] = IF row[r][a].st \in {"reserved", "committed"}
                                   THEN row[r][a] ELSE Idle.own[a]
      BY <2>2, <3>1, HydratedEffect, IdleTyped
    <3>3. own \in LeaseMap
      BY <2>2, <3>1, HydratedEffect, IdleTyped
    <3> QED
      BY <1>1, <3>1, <3>2, <3>3, IdleTyped DEF RowsOK, AloneOK, LiveLease
  <2> QED
    BY <1>2, <2>1, <2>2
<1>4. PICK n : n = [Idle EXCEPT !.pc = "fence", !.kind = "request", !.run = r, !.own = own]
  OBVIOUS
<1>5. PICK i : i = Idle
  OBVIOUS
<1>6. i \in Copy /\ i.res = "none"
  BY <1>5, IdleTyped
<1>7. n \in Copy /\ n.pc = "fence" /\ n.kind = "request" /\ n.run = r /\ n.own = own /\ n.res = "none"
  BY <1>3, <1>4, <1>5, <1>6 DEF Copy, Kinds
<1>8. CopyOK(n) /\ AloneCopyOK(n)
  BY <1>3, <1>7 DEF CopyOK, AloneCopyOK, Ended
<1>9. lost \subseteq Runs /\ faults \in 0..MaxFaults
  BY Types DEF IInv
<1> QED
  BY <1>1, <1>2, <1>4, <1>7, <1>8, <1>9, LocalStep DEF Become

\* A planner that finds a slot taken: with its copy refreshed it tries again or fails.
LEMMA PlanRefused ==
  ASSUME IInv, NEW t \in Threads, thread[t].pc = "act", thread[t].kind = "plan",
         UNCHANGED <<row, status, at, pack, lost, clock, faults, overlapped>>,
         LET k == thread[t]
             again == Hydrated(Swept(k.own), k.run) IN
           \/ Become(t, [k EXCEPT !.own = again, !.others = Blockers(@, k.run)])
           \/ Become(t, [k EXCEPT !.own = Released(again), !.pc = "sync", !.res = "failed",
                                  !.others = Idle.others])
  PROVE  IInv'
<1> DEFINE k == thread[t]
<1>1. /\ k \in Copy /\ k.own \in LeaseMap /\ k.run \in Runs /\ CopyOK(k) /\ AloneCopyOK(k)
      /\ k.others \in [Assets -> Times] /\ row \in [Runs -> LeaseMap] /\ AloneOK(k.run)
      /\ RowsOK(k.run) /\ lost \subseteq Runs /\ faults \in 0..MaxFaults
  BY AtWork, Types DEF IInv
<1>2. PICK m : m = Swept(k.own)
  OBVIOUS
<1>3. /\ m \in LeaseMap
      /\ \A a \in Assets : Aged(k.own[a], m[a])
  BY <1>1, <1>2, SweptEffect
<1>4. PICK h : h = Hydrated(m, k.run)
  OBVIOUS
<1>5. /\ h \in LeaseMap
      /\ \A a \in Assets :
           h[a] = IF row[k.run][a].st \in {"reserved", "committed"} THEN row[k.run][a] ELSE m[a]
  BY <1>1, <1>3, <1>4, HydratedEffect
<1>6. k.run \notin overlapped => \A a \in Assets :
        (row[k.run][a].st = "reserved" => h[a].st = "reserved") /\ h[a].st # "committed"
  <2>1. SUFFICES ASSUME k.run \notin overlapped, NEW a \in Assets
                 PROVE  (row[k.run][a].st = "reserved" => h[a].st = "reserved") /\ h[a].st # "committed"
    OBVIOUS
  <2>2. k.own[a].st # "committed"
    BY <1>1, <2>1 DEF AloneCopyOK, CopyOK
  <2>3. row[k.run][a].st # "committed"
    <3>1. t \in Attempts(k.run)
      BY <1>1 DEF Attempts, Working
    <3> QED
      BY <1>1, <2>1, <3>1 DEF AloneOK
  <2> QED
    BY <1>3, <1>5, <2>2, <2>3 DEF Aged
<1>7. CASE Become(t, [k EXCEPT !.own = Hydrated(Swept(k.own), k.run), !.others = Blockers(@, k.run)])
  <2>1. PICK n : n = [k EXCEPT !.own = h, !.others = Blockers(@, k.run)]
    OBVIOUS
  <2>2. /\ n \in Copy /\ n.pc = "act" /\ n.own = h /\ n.res = k.res /\ n.kind = k.kind
        /\ n.run = k.run /\ n.assets = k.assets
    BY <1>1, <1>5, <2>1, BlockersTyped DEF Copy
  <2>3. thread' = [thread EXCEPT ![t] = n]
    BY <1>2, <1>4, <1>7, <2>1 DEF Become
  <2>4. status[k.run] = "running" => \A a \in Assets : LiveLease(h[a])
    BY <1>1, <1>3, <1>5 DEF CopyOK, RowsOK, LiveLease, Ended, Aged
  <2>5. CopyOK(n)
    BY <1>1, <2>2, <2>4 DEF CopyOK
  <2>6. AloneCopyOK(n)
    BY <1>1, <1>6, <2>2 DEF AloneCopyOK, CopyOK, Ended
  <2> QED
    BY <1>1, <2>2, <2>3, <2>5, <2>6, LocalStep
<1>8. CASE Become(t, [k EXCEPT !.own = Released(Hydrated(Swept(k.own), k.run)), !.pc = "sync",
                               !.res = "failed", !.others = Idle.others])
  <2>1. PICK n : n = [k EXCEPT !.own = Released(h), !.pc = "sync", !.res = "failed", !.others = Idle.others]
    OBVIOUS
  <2>2. /\ n \in Copy /\ n.pc = "sync" /\ n.own = Released(h) /\ n.res = "failed"
        /\ n.kind = k.kind /\ n.run = k.run
    BY <1>1, <1>5, <2>1, ReleasedEffect, IdleTyped DEF Copy
  <2>3. thread' = [thread EXCEPT ![t] = n]
    BY <1>2, <1>4, <1>8, <2>1 DEF Become
  <2>4. /\ n.run \notin overlapped => \A a \in Assets :
              (row[n.run][a].st = "reserved" => h[a].st = "reserved") /\ h[a].st # "committed"
        /\ UNCHANGED <<row, status, at, pack, lost, clock, faults, overlapped>>
        /\ thread[t].pc = "act" /\ n.kind = thread[t].kind /\ n.run = thread[t].run
        /\ n.res \in {"failed", "cancelled"}
    BY <1>6, <2>2
  <2> HIDE DEF k
  <2> QED
    BY <1>5, <2>2, <2>3, <2>4, Gives
<1> QED
  BY <1>7, <1>8
-----------------------------------------------------------------------------
(* The steps that write rows. *)

\* What is left of the runs that the writer does not work on: their leases have aged.
OthersAge(r) ==
  \A q \in Runs \ {r} : \A a \in Assets : Aged(row[q][a], row'[q][a])

\* The rows after a step that sweeps them and puts the leases S of a copy m into those
\* of one run.
LEMMA RowsWritten ==
  ASSUME TypeOK, NEW r \in Runs, NEW m \in LeaseMap, NEW S \in SUBSET Assets,
         row' = [SweptRows EXCEPT ![r] = [a \in Assets |-> IF a \in S THEN m[a] ELSE @[a]]]
  PROVE  /\ row' \in [Runs -> LeaseMap] /\ OthersAge(r)
         /\ \A a \in Assets : IF a \in S THEN row'[r][a] = m[a] ELSE Aged(row[r][a], row'[r][a])
<1>1. PICK w : w = SweptRows
  OBVIOUS
<1>2. /\ w \in [Runs -> LeaseMap]
      /\ \A q \in Runs, a \in Assets : Aged(row[q][a], w[q][a])
  BY <1>1, SweptRowsEffect, Types
<1>3. PICK n : n = [a \in Assets |-> IF a \in S THEN m[a] ELSE w[r][a]]
  OBVIOUS
<1>4. n \in LeaseMap /\ \A a \in Assets : n[a] = IF a \in S THEN m[a] ELSE w[r][a]
  BY <1>2, <1>3 DEF LeaseMap
<1>5. row' = [w EXCEPT ![r] = n]
  BY <1>1, <1>2, <1>3
<1>6. row' \in [Runs -> LeaseMap] /\ row'[r] = n /\ \A q \in Runs \ {r} : row'[q] = w[q]
  BY <1>2, <1>4, <1>5
<1> QED
  BY <1>2, <1>4, <1>6 DEF OthersAge

\* A run whose leases have aged keeps its conjuncts: nothing is reserved or committed
\* anew, and what was live is.
LEMMA AgedRuns ==
  ASSUME TypeOK, row' \in [Runs -> LeaseMap], NEW r \in Runs, NEW q \in Runs, q # r,
         OthersAge(r), clock' = clock, RowsOK(q), AloneOK(q), Monotone,
         status'[q] = status[q], pack'[q] = pack[q], Attempts(q)' \subseteq Attempts(q)
  PROVE  RowsOK(q)' /\ AloneOK(q)' /\ NothingReserved(q)
<1>1. row \in [Runs -> LeaseMap] /\ pack \in [Runs -> SUBSET Assets]
  BY Types
<1>2. \A a \in Assets : Aged(row[q][a], row'[q][a])
  BY DEF OthersAge
<1>3. NothingReserved(q)
  BY <1>2 DEF Aged, NothingReserved
<1>4. RowsOK(q)'
  BY <1>2 DEF RowsOK, Aged, LiveLease
<1>5. AloneOK(q)'
  <2>1. \A a \in Assets : row'[q][a].st = "committed" => row[q][a].st = "committed"
    BY <1>2 DEF Aged
  <2> QED
    BY <1>3, <2>1 DEF AloneOK, Monotone, NothingReserved
<1> QED
  BY <1>3, <1>4, <1>5

\* A step of thread t on run r that writes its rows: what is left to show of it is what
\* becomes of r and of t.
LEMMA WritingStep ==
  ASSUME IInv, NEW t \in Threads, NEW r \in Runs, NEW k \in Copy,
         thread[t].pc # "idle", thread[t].run = r, thread' = [thread EXCEPT ![t] = k],
         k.pc # "idle" => k.kind = thread[t].kind /\ k.run = r /\ CopyOK(k)' /\ AloneCopyOK(k)',
         row' \in [Runs -> LeaseMap], OthersAge(r), ~ActiveSlotConflict(row)',
         status' \in [Runs -> {"running", "cancelling"} \cup Ended],
         \A q \in Runs \ {r} : status'[q] = status[q] /\ pack'[q] = pack[q],
         status'[r] = "running" => status[r] = "running",
         at' \in [Runs -> {"plan", "work", "final"}], pack' \in [Runs -> SUBSET Assets],
         UNCHANGED <<lost, clock, faults, overlapped>>,
         NothingReserved(r) \/ thread[t].kind # "request",
         RowsOK(r)', AloneOK(r)'
  PROVE  IInv'
<1>1. /\ TypeOK /\ (\A q \in Runs : RowsOK(q) /\ AloneOK(q)) /\ (\A u \in Threads : ThreadOK(u))
      /\ thread \in [Threads -> Copy] /\ clock \in 0..MaxClock
  BY Types DEF IInv
<1>2. Monotone
  BY <1>1, ClockAssumption DEF Monotone
<1>3. TypeOK'
  <2>1. thread' \in [Threads -> Copy]
    BY <1>1
  <2>2. lost' \in SUBSET Runs /\ clock' \in 0..MaxClock /\ faults' \in 0..MaxFaults
        /\ overlapped' \in SUBSET Runs
    BY <1>1 DEF TypeOK
  <2> QED
    BY <2>1, <2>2 DEF TypeOK, Copy, LeaseMap, Times
<1>4. ASSUME NEW q \in Runs, q # r
      PROVE  RowsOK(q)' /\ AloneOK(q)' /\ NothingReserved(q)
  <2>1. Attempts(q)' \subseteq Attempts(q)
    BY <1>1, <1>4 DEF Attempts, Working
  <2> QED
    BY <1>1, <1>2, <1>4, <2>1, AgedRuns
<1>5. ASSUME NEW u \in Threads
      PROVE  ThreadOK(u)'
  <2>1. CASE u = t
    <3>1. thread'[u] = k
      BY <1>1, <2>1
    <3>2. k.pc # "idle" => CopyOK(thread[u])' /\ AloneCopyOK(thread[u])'
      BY <3>1 DEF CopyOK, AloneCopyOK, LiveLease
    <3> QED
      BY <3>1, <3>2 DEF ThreadOK
  <2>2. CASE u # t /\ thread[u].pc = "idle"
    BY <1>1, <2>2 DEF ThreadOK
  <2>3. CASE u # t /\ thread[u].pc # "idle"
    <3>1. SameCopy(u)
      BY <1>1, <2>3 DEF SameCopy
    <3>2. \/ thread[u].run \in overlapped' \/ thread[u].kind = "request"
          \/ NothingReserved(thread[u].run)
      <4>1. CASE thread[u].run # r
        BY <1>1, <1>4, <2>3, <4>1 DEF ThreadOK
      <4>2. CASE thread[u].run = r
        <5>1. thread[u].kind # "request" => u \in Attempts(r)
          BY <2>3, <4>2 DEF Attempts, Working
        <5>2. thread[t].kind # "request" => t \in Attempts(r)
          BY DEF Attempts, Working
        <5> QED
          BY <1>1, <2>3, <4>2, <5>1, <5>2 DEF AloneOK
      <4> QED
        BY <4>1, <4>2
    <3> QED
      BY <1>1, <1>2, <3>1, <3>2, Stable
  <2> QED
    BY <2>1, <2>2, <2>3
<1> QED
  BY <1>3, <1>4, <1>5 DEF IInv
\* The change that CommitsStand allows.
CommitsHold ==
  \A r \in Runs, a \in Assets :
    row[r][a].st = "committed" /\ r \notin overlapped' =>
      \/ row'[r][a] = row[r][a]
      \/ \E t \in Working(r) : thread[t].kind = "request" /\ thread[t].own[a].st = "released"

LEMMA PlanTaken ==
  ASSUME IInv, NEW t \in Threads, thread[t].pc = "act", thread[t].kind = "plan",
         NEW wanted \in SUBSET Assets,
         LET k == thread[t]
             mine == Reserved(Swept(k.own), wanted) IN
           /\ row' = [SweptRows EXCEPT ![k.run] = [a \in Assets |-> IF a \in wanted THEN mine[a] ELSE @[a]]]
           /\ Become(t, [k EXCEPT !.pc = "sync", !.own = mine, !.assets = wanted, !.res = "ok",
                                  !.others = Idle.others]),
         ~ActiveSlotConflict(row'),
         UNCHANGED <<status, at, pack, lost, clock, faults, overlapped>>
  PROVE  IInv' /\ CommitsHold
<1>k. PICK k, r : k = thread[t] /\ r = k.run
  OBVIOUS
<1>1. /\ k \in Copy /\ k.own \in LeaseMap /\ r \in Runs /\ CopyOK(k) /\ AloneCopyOK(k)
      /\ RowsOK(r) /\ AloneOK(r) /\ row \in [Runs -> LeaseMap] /\ k.res = "none"
      /\ TypeOK /\ clock \in 0..MaxClock
  BY <1>k, AtWork, Types DEF IInv, CopyOK
<1>2. PICK m : m = Swept(k.own)
  OBVIOUS
<1>3. /\ m \in LeaseMap
      /\ \A a \in Assets : Aged(k.own[a], m[a])
  BY <1>1, <1>2, SweptEffect
<1>4. PICK mine : mine = Reserved(m, wanted)
  OBVIOUS
<1>5. /\ mine \in LeaseMap
      /\ \A a \in Assets :
           IF a \in wanted /\ m[a].st \notin {"reserved", "committed"}
           THEN mine[a].st = "reserved" /\ mine[a].exp = clock + 1 ELSE mine[a] = m[a]
  BY <1>1, <1>3, <1>4, ReservedEffect
<1>6. row' = [SweptRows EXCEPT ![r] = [a \in Assets |-> IF a \in wanted THEN mine[a] ELSE @[a]]]
  BY <1>k, <1>2, <1>4
<1>7. /\ row' \in [Runs -> LeaseMap] /\ OthersAge(r)
      /\ \A a \in Assets : IF a \in wanted THEN row'[r][a] = mine[a] ELSE Aged(row[r][a], row'[r][a])
  BY <1>1, <1>5, <1>6, RowsWritten
<1>8. PICK n : n = [k EXCEPT !.pc = "sync", !.own = mine, !.assets = wanted, !.res = "ok",
                             !.others = Idle.others]
  OBVIOUS
<1>9. /\ n \in Copy /\ n.pc = "sync" /\ n.own = mine /\ n.assets = wanted /\ n.res = "ok"
      /\ n.kind = k.kind /\ n.run = r
  <2>1. PICK o : o = Idle.others
    OBVIOUS
  <2>2. o \in [Assets -> Times]
    BY <2>1, IdleTyped
  <2>3. n = [k EXCEPT !.pc = "sync", !.own = mine, !.assets = wanted, !.res = "ok", !.others = o]
    BY <1>8, <2>1
  <2>4. PICK h : h = [k EXCEPT !.pc = "sync", !.own = mine, !.assets = wanted]
    OBVIOUS
  <2>5. h \in Copy /\ h.pc = "sync" /\ h.own = mine /\ h.assets = wanted /\ h.kind = k.kind /\ h.run = r
    BY <1>k, <1>1, <1>5, <2>4 DEF Copy
  <2>6. n = [h EXCEPT !.res = "ok", !.others = o]
    BY <1>1, <2>3, <2>4 DEF Copy
  <2> QED
    BY <2>2, <2>5, <2>6 DEF Copy
<1>10. thread' = [thread EXCEPT ![t] = n]
  BY <1>k, <1>2, <1>4, <1>8 DEF Become
<1>11. t \in Attempts(r)
  BY <1>k DEF Attempts, Working
<1>12. r \notin overlapped => \A a \in Assets : row[r][a].st # "committed" /\ mine[a].st # "committed"
  BY <1>k, <1>1, <1>3, <1>5, <1>11 DEF AloneOK, AloneCopyOK, Aged
<1>13. status[r] = "running" => \A a \in Assets : LiveLease(mine[a])
  BY <1>k, <1>1, <1>3, <1>5 DEF CopyOK, Aged, LiveLease, Ended
<1>14. CopyOK(n)'
  <2>1. \A a \in wanted : mine[a].st \in {"reserved", "committed"}
    BY <1>5
  <2> QED
    BY <1>k, <1>9, <1>13, <2>1 DEF CopyOK, LiveLease
<1>15. AloneCopyOK(n)'
  BY <1>k, <1>9, <1>12 DEF AloneCopyOK, Ended
<1>16. RowsOK(r)'
  <2>1. status[r] = "running" => \A a \in Assets : LiveLease(row'[r][a])
    BY <1>1, <1>7, <1>13 DEF RowsOK, Aged, LiveLease
  <2>2. status[r] = "running" => \A a \in pack[r] : row'[r][a].st # "none"
    <3>1. \A a \in wanted : mine[a].st # "none"
      BY <1>5
    <3>2. pack[r] \subseteq Assets
      BY <1>1 DEF TypeOK
    <3> QED
      BY <1>1, <1>7, <3>1, <3>2 DEF RowsOK, Aged
  <2> QED
    BY <1>1, <2>1, <2>2 DEF RowsOK, LiveLease
<1>17. AloneOK(r)'
  <2>1. Attempts(r)' \subseteq Attempts(r)
    BY <1>k, <1>1, <1>9, <1>10, <1>11, Types DEF Attempts, Working
  <2>2. r \notin overlapped => \A a \in Assets : row'[r][a].st # "committed"
    BY <1>7, <1>12 DEF Aged
  <2> QED
    BY <1>1, <1>11, <2>1, <2>2 DEF AloneOK
<1>18. ~ActiveSlotConflict(row)'
  BY DEF ActiveSlotConflict
<1>19. IInv'
  <2>1. thread[t].run = r /\ n.kind = thread[t].kind /\ thread[t].kind # "request"
    BY <1>k, <1>9
  <2>2. /\ status' \in [Runs -> {"running", "cancelling"} \cup Ended] /\ status' = status
        /\ at' \in [Runs -> {"plan", "work", "final"}] /\ pack' \in [Runs -> SUBSET Assets] /\ pack' = pack
    BY <1>1 DEF TypeOK
  <2> QED
    BY <1>1, <1>7, <1>9, <1>10, <1>14, <1>15, <1>16, <1>17, <1>18, <2>1, <2>2, WritingStep
<1>20. CommitsHold
  BY <1>7, <1>12 DEF CommitsHold, OthersAge, Aged
<1> QED
  BY <1>19, <1>20
LEMMA PlanStep ==
  ASSUME IInv, NEW t \in Threads, Plan(t)
  PROVE  IInv' /\ CommitsHold
<1>1. thread[t].pc = "act" /\ thread[t].kind = "plan" /\ TypeOK
      /\ UNCHANGED <<status, at, pack, clock, faults, overlapped>>
  BY DEF Plan, runVars, IInv
<1>2. PICK wanted \in SUBSET Assets : wanted = {a \in Assets : thread[t].others[a] <= clock}
  OBVIOUS
<1>3. \/ LET k == thread[t]
             mine == Reserved(Swept(k.own), wanted)
             rows == [SweptRows EXCEPT ![k.run] = [a \in Assets |-> IF a \in wanted THEN mine[a] ELSE @[a]]] IN
           /\ row' = rows /\ lost' = lost /\ ~ActiveSlotConflict(rows)
           /\ Become(t, [k EXCEPT !.pc = "sync", !.own = mine, !.assets = wanted, !.res = "ok",
                                  !.others = Idle.others])
      \/ LET k == thread[t]
             again == Hydrated(Swept(k.own), k.run) IN
           /\ row' = row /\ lost' = lost
           /\ \/ Become(t, [k EXCEPT !.own = again, !.others = Blockers(@, k.run)])
              \/ Become(t, [k EXCEPT !.own = Released(again), !.pc = "sync", !.res = "failed",
                                     !.others = Idle.others])
      \/ row' = row /\ Become(t, Idle) /\ lost' = lost \cup {thread[t].run}
  BY <1>2 DEF Plan
<1>4. row' = row => CommitsHold
  BY DEF CommitsHold
<1>5. CASE LET k == thread[t]
               mine == Reserved(Swept(k.own), wanted)
               rows == [SweptRows EXCEPT ![k.run] = [a \in Assets |-> IF a \in wanted THEN mine[a] ELSE @[a]]] IN
             /\ row' = rows /\ lost' = lost /\ ~ActiveSlotConflict(rows)
             /\ Become(t, [k EXCEPT !.pc = "sync", !.own = mine, !.assets = wanted, !.res = "ok",
                                    !.others = Idle.others])
  BY <1>1, <1>5, PlanTaken
<1>6. CASE LET k == thread[t]
               again == Hydrated(Swept(k.own), k.run) IN
             /\ row' = row /\ lost' = lost
             /\ \/ Become(t, [k EXCEPT !.own = again, !.others = Blockers(@, k.run)])
                \/ Become(t, [k EXCEPT !.own = Released(again), !.pc = "sync", !.res = "failed",
                                       !.others = Idle.others])
  BY <1>1, <1>4, <1>6, PlanRefused
<1>7. CASE row' = row /\ Become(t, Idle) /\ lost' = lost \cup {thread[t].run}
  <2>1. lost' \subseteq Runs
    BY <1>1, <1>7, AtWork DEF TypeOK
  <2>2. faults' \in 0..MaxFaults
    BY <1>1 DEF TypeOK
  <2> QED
    BY <1>1, <1>4, <1>7, <2>1, <2>2, ToIdle
<1> QED
  BY <1>3, <1>5, <1>6, <1>7

LEMMA SyncStep ==
  ASSUME IInv, NEW t \in Threads, Sync(t)
  PROVE  IInv' /\ CommitsHold
<1>k. PICK k, r : k = thread[t] /\ r = k.run
  OBVIOUS
<1>1. /\ k \in Copy /\ k.own \in LeaseMap /\ r \in Runs /\ CopyOK(k) /\ AloneCopyOK(k)
      /\ RowsOK(r) /\ AloneOK(r) /\ row \in [Runs -> LeaseMap] /\ k.pc = "sync"
      /\ TypeOK /\ k.assets \subseteq Assets /\ clock \in 0..MaxClock
  BY <1>k, AtWork, Types DEF IInv, Sync
<1>2. UNCHANGED <<lost, clock, faults, overlapped>>
  BY DEF Sync
<1>3. PICK S \in SUBSET Assets : S = Written(k)
  BY DEF Written
<1>4. \A a \in Assets : a \in S <=>
        /\ k.own[a].st # "none"
        /\ status[r] \in Fenced => row[r][a].st # "none" /\ k.own[a].st \in {"released", "expired"}
  BY <1>k, <1>3 DEF Written
<1>5. /\ row' = [SweptRows EXCEPT ![r] = [a \in Assets |-> IF a \in S THEN k.own[a] ELSE @[a]]]
      /\ ~ActiveSlotConflict(row')
  BY <1>k, <1>3 DEF Sync, SnapshotRows
<1>6. /\ row' \in [Runs -> LeaseMap] /\ OthersAge(r)
      /\ \A a \in Assets : IF a \in S THEN row'[r][a] = k.own[a] ELSE Aged(row[r][a], row'[r][a])
  <2>1. PICK m \in LeaseMap : m = k.own
    BY <1>1
  <2>2. row' = [SweptRows EXCEPT ![r] = [a \in Assets |-> IF a \in S THEN m[a] ELSE @[a]]]
    BY <1>5, <2>1
  <2>3. /\ row' \in [Runs -> LeaseMap] /\ OthersAge(r)
        /\ \A a \in Assets : IF a \in S THEN row'[r][a] = m[a] ELSE Aged(row[r][a], row'[r][a])
    BY <1>1, <1>3, <2>1, <2>2, RowsWritten
  <2> QED
    BY <2>1, <2>3
<1>7. status' = [status EXCEPT ![r] = SyncedStatus(@, k.res)]
  BY <1>k DEF Sync
<1>8. /\ status' \in [Runs -> {"running", "cancelling"} \cup Ended]
      /\ \A q \in Runs \ {r} : status'[q] = status[q]
      /\ status'[r] = "running" => status[r] = "running" /\ k.res \notin Ended
      /\ status[r] \in Ended => status'[r] = status[r]
      /\ status'[r] \in Ended => status[r] \in Ended \/ k.res \in Ended
      /\ status[r] \notin Fenced /\ k.res \in Ended => status'[r] \in Ended
      /\ status[r] \in Fenced \ Ended /\ status'[r] \in Ended => k.res = "cancelled"
  BY <1>1, <1>7 DEF TypeOK, SyncedStatus, Ended, Fenced
<1>9. /\ at' \in [Runs -> {"plan", "work", "final"}]
      /\ pack' \in [Runs -> SUBSET Assets] /\ \A q \in Runs \ {r} : pack'[q] = pack[q]
      /\ \/ pack'[r] = pack[r]
         \/ /\ pack'[r] = k.assets /\ k.kind = "plan" /\ k.res \in {"ok", "succeeded"}
            /\ status[r] \notin Fenced
  <2>1. PICK next \in {"work", "final"} :
          at' = IF status[r] \notin Fenced /\ k.res \in {"ok", "succeeded"}
                   /\ k.kind \in {"plan", "work"} /\ at[r] = k.kind
                THEN [at EXCEPT ![r] = next] ELSE at
    BY <1>k DEF Sync
  <2>2. pack' = IF status[r] \notin Fenced /\ k.res \in {"ok", "succeeded"} /\ k.kind = "plan"
                THEN [pack EXCEPT ![r] = k.assets] ELSE pack
    BY <1>k DEF Sync
  <2>3. at' \in [Runs -> {"plan", "work", "final"}]
    <3>1. at \in [Runs -> {"plan", "work", "final"}]
      BY <1>1, Types
    <3> QED
      BY <2>1, <3>1
  <2>4. pack \in [Runs -> SUBSET Assets] /\ k.assets \in SUBSET Assets
    BY <1>1, Types
  <2>5. CASE status[r] \notin Fenced /\ k.res \in {"ok", "succeeded"} /\ k.kind = "plan"
    <3>1. pack' = [pack EXCEPT ![r] = k.assets]
      BY <2>2, <2>5
    <3> QED
      BY <1>1, <2>3, <2>4, <2>5, <3>1
  <2>6. CASE ~(status[r] \notin Fenced /\ k.res \in {"ok", "succeeded"} /\ k.kind = "plan")
    <3>1. pack' = pack
      BY <2>2, <2>6
    <3> QED
      BY <1>1, <2>3, <2>4, <3>1
  <2> QED
    BY <2>5, <2>6
<1>10. thread' = [thread EXCEPT ![t] = Idle]
  BY <1>k DEF Sync, Become
<1>11. t \in Working(r) /\ (k.kind # "request" => t \in Attempts(r))
  BY <1>k, <1>1 DEF Attempts, Working
<1>12. k.kind = "request" => /\ k.res = "none"
                             /\ \A a \in Assets : k.own[a].st # "reserved"
                             /\ r \notin overlapped =>
                                  \A a \in Assets : k.own[a].st \in {"none", "released"}
  BY <1>k, <1>1 DEF CopyOK, AloneCopyOK
<1>13. k.kind = "request" => NothingReserved(r)
  BY <1>6, <1>12 DEF NothingReserved, Aged
<1>14. RowsOK(r)'
  <2>1. SUFFICES ASSUME status'[r] = "running"
                 PROVE  \A a \in Assets : LiveLease(row[r][a])' /\ (a \in pack'[r] => row'[r][a].st # "none")
    BY DEF RowsOK
  <2>2. status[r] = "running" /\ k.res \notin Ended
    BY <1>8, <2>1
  <2>3. \A a \in Assets : (a \in S <=> k.own[a].st # "none") /\ LiveLease(k.own[a]) /\ LiveLease(row[r][a])
    BY <1>k, <1>1, <1>4, <2>2 DEF Fenced, CopyOK, RowsOK
  <2>4. \A a \in Assets : LiveLease(row[r][a])'
    BY <1>2, <1>6, <2>3 DEF Aged, LiveLease
  <2>5. ASSUME NEW a \in Assets, a \in pack[r] PROVE row'[r][a].st # "none"
    BY <1>1, <1>6, <2>2, <2>3, <2>5 DEF RowsOK, Aged
  <2>6. ASSUME k.kind = "plan", k.res \in {"ok", "succeeded"}, NEW a \in k.assets
        PROVE  row'[r][a].st # "none"
    <3>1. k.own[a].st \in {"reserved", "committed"}
      BY <1>1, <2>2, <2>6 DEF CopyOK, Ended
    <3> QED
      BY <1>1, <1>6, <2>3, <3>1
  <2> QED
    BY <1>9, <2>4, <2>5, <2>6
<1>15. AloneOK(r)'
  <2>1. SUFFICES ASSUME r \notin overlapped
                 PROVE  /\ \A u, v \in Attempts(r)' : u = v
                        /\ status'[r] \in Ended =>
                             Attempts(r)' = {} /\ \A a \in Assets : row'[r][a].st # "reserved"
                        /\ \A a \in Assets : row'[r][a].st = "committed" => status'[r] \in Ended
    BY <1>2 DEF AloneOK
  <2>2. /\ \A u, v \in Attempts(r) : u = v
        /\ status[r] \in Ended => Attempts(r) = {} /\ \A a \in Assets : row[r][a].st # "reserved"
        /\ \A a \in Assets : row[r][a].st = "committed" => status[r] \in Ended
    BY <1>1, <2>1 DEF AloneOK
  <2>3. Attempts(r)' \subseteq Attempts(r) /\ t \notin Attempts(r)'
    BY <1>1, <1>10, Types, IdleTyped DEF Attempts, Working
  <2>4. CASE k.kind = "request"
    <3>1. status'[r] \in Ended => status[r] \in Ended
      BY <1>8, <1>12, <2>4 DEF Ended
    <3>2. \A a \in Assets : row'[r][a].st = "committed" => row[r][a].st = "committed"
      BY <1>6, <1>12, <2>1, <2>4 DEF Aged
    <3> QED
      BY <1>8, <1>13, <2>2, <2>3, <2>4, <3>1, <3>2 DEF NothingReserved
  <2>5. CASE k.kind # "request"
    <3>1. t \in Attempts(r) /\ status[r] \notin Ended /\ Attempts(r)' = {}
      BY <1>11, <2>2, <2>3, <2>5
    <3>2. ASSUME NEW a \in Assets, row'[r][a].st = "committed"
          PROVE  status'[r] \in Ended
      <4>1. a \in S /\ k.own[a].st = "committed"
        BY <1>6, <2>2, <3>1, <3>2 DEF Aged
      <4>2. k.res = "succeeded"
        BY <1>k, <1>1, <2>1, <4>1 DEF AloneCopyOK
      <4> QED
        BY <1>4, <1>8, <4>1, <4>2 DEF Ended
    <3>3. ASSUME NEW a \in Assets, status'[r] \in Ended
          PROVE  row'[r][a].st # "reserved"
      <4>1. k.res \in Ended
        BY <1>8, <3>1, <3>3
      <4>2. /\ k.own[a].st # "reserved" /\ (k.own[a].st = "committed" => k.res = "succeeded")
            /\ row[r][a].st = "reserved" => k.own[a].st \in {"released", "committed"}
        BY <1>k, <1>1, <2>1, <4>1 DEF AloneCopyOK
      <4>3. row[r][a].st = "reserved" => a \in S
        BY <1>4, <1>8, <3>1, <3>3, <4>2
      <4> QED
        BY <1>6, <4>2, <4>3 DEF Aged
    <3> QED
      BY <3>1, <3>2, <3>3
  <2> QED
    BY <2>4, <2>5
<1>16. CommitsHold
  <2>1. SUFFICES ASSUME NEW q \in Runs, NEW a \in Assets, row[q][a].st = "committed", q \notin overlapped'
                 PROVE  \/ row'[q][a] = row[q][a]
                        \/ \E u \in Working(q) : thread[u].kind = "request" /\ thread[u].own[a].st = "released"
    BY DEF CommitsHold
  <2>2. CASE q # r
    BY <1>6, <2>1, <2>2 DEF OthersAge, Aged
  <2>3. CASE q = r
    <3>1. k.kind = "request"
      BY <1>1, <1>2, <1>11, <2>1, <2>3 DEF AloneOK
    <3> QED
      BY <1>k, <1>2, <1>4, <1>6, <1>11, <1>12, <2>1, <2>3, <3>1 DEF Aged
  <2> QED
    BY <2>2, <2>3
<1>17. ~ActiveSlotConflict(row)'
  BY <1>5 DEF ActiveSlotConflict
<1>18. IInv'
  <2>1. thread[t].pc # "idle" /\ thread[t].run = r /\ (NothingReserved(r) \/ thread[t].kind # "request")
    BY <1>k, <1>1, <1>13
  <2>2. \A q \in Runs \ {r} : status'[q] = status[q] /\ pack'[q] = pack[q]
    BY <1>8, <1>9
  <2> QED
    BY <1>1, <1>2, <1>6, <1>8, <1>9, <1>10, <1>14, <1>15, <1>17, <2>1, <2>2, IdleTyped, WritingStep
<1> QED
  BY <1>16, <1>18
LEMMA FenceStep ==
  ASSUME IInv, NEW t \in Threads, Fence(t)
  PROVE  IInv' /\ row' = row
<1>k. PICK k, r : k = thread[t] /\ r = k.run
  OBVIOUS
<1>1. /\ k \in Copy /\ k.own \in LeaseMap /\ r \in Runs /\ CopyOK(k) /\ AloneCopyOK(k)
      /\ RowsOK(r) /\ AloneOK(r) /\ row \in [Runs -> LeaseMap] /\ k.pc = "fence"
      /\ TypeOK /\ k.kind = "request" /\ k.res = "none" /\ clock \in 0..MaxClock
      /\ ~ActiveSlotConflict(row)
  BY <1>k, AtWork, Types DEF IInv, Fence, CopyOK
<1>2. UNCHANGED <<row, at, pack, lost, clock, faults, overlapped>>
      /\ status' = [status EXCEPT ![r] = IF @ = "running" THEN "cancelling" ELSE @]
      /\ thread' = [thread EXCEPT ![t] = [k EXCEPT !.pc = "release", !.own = Released(@)]]
  BY <1>k DEF Fence, Become
<1>3. /\ status' \in [Runs -> {"running", "cancelling"} \cup Ended]
      /\ \A q \in Runs \ {r} : status'[q] = status[q]
      /\ status'[r] # "running" /\ (status'[r] \in Ended <=> status[r] \in Ended)
  BY <1>1, <1>2 DEF TypeOK, Ended
<1>4. PICK m : m = Released(k.own)
  OBVIOUS
<1>5. /\ m \in LeaseMap
      /\ \A a \in Assets : IF k.own[a].st = "reserved"
                            THEN m[a].st = "released" /\ m[a].exp = k.own[a].exp
                            ELSE m[a] = k.own[a]
  BY <1>1, <1>4, ReleasedEffect
<1>6. PICK n : n = [k EXCEPT !.pc = "release", !.own = m]
  OBVIOUS
<1>7. /\ n \in Copy /\ n.pc = "release" /\ n.own = m /\ n.kind = "request" /\ n.run = r /\ n.res = "none"
  BY <1>k, <1>1, <1>5, <1>6 DEF Copy
<1>8. thread' = [thread EXCEPT ![t] = n]
  BY <1>2, <1>4, <1>6
<1>9. CopyOK(n)'
  BY <1>3, <1>5, <1>7 DEF CopyOK
<1>10. AloneCopyOK(n)'
  BY <1>k, <1>1, <1>2, <1>5, <1>7 DEF AloneCopyOK, Ended
<1>11. NothingReserved(r) /\ OthersAge(r) /\ ~ActiveSlotConflict(row)'
  BY <1>1, <1>2 DEF NothingReserved, OthersAge, Aged, ActiveSlotConflict
<1>12. RowsOK(r)' /\ AloneOK(r)'
  <2>1. Attempts(r)' \subseteq Attempts(r)
    BY <1>k, <1>1, <1>7, <1>8, Types DEF Attempts, Working
  <2> QED
    BY <1>1, <1>2, <1>3, <2>1 DEF RowsOK, AloneOK
<1>13. /\ thread[t].pc # "idle" /\ thread[t].run = r
       /\ at' \in [Runs -> {"plan", "work", "final"}] /\ pack' \in [Runs -> SUBSET Assets] /\ pack' = pack
       /\ n.kind = thread[t].kind /\ row' \in [Runs -> LeaseMap]
  BY <1>k, <1>1, <1>2, <1>7 DEF TypeOK
<1> QED
  BY <1>1, <1>2, <1>3, <1>7, <1>8, <1>9, <1>10, <1>11, <1>12, <1>13, WritingStep

LEMMA ReleaseDurableStep ==
  ASSUME IInv, NEW t \in Threads, ReleaseDurable(t)
  PROVE  IInv' /\ CommitsHold
<1>k. PICK k, r : k = thread[t] /\ r = k.run
  OBVIOUS
<1>1. /\ k \in Copy /\ k.own \in LeaseMap /\ r \in Runs /\ CopyOK(k) /\ AloneCopyOK(k)
      /\ RowsOK(r) /\ AloneOK(r) /\ row \in [Runs -> LeaseMap] /\ k.pc = "release"
      /\ TypeOK /\ k.kind = "request" /\ k.res = "none" /\ status[r] # "running"
      /\ ~ActiveSlotConflict(row)
  BY <1>k, AtWork, Types DEF IInv, ReleaseDurable, CopyOK
<1>2. UNCHANGED <<status, at, pack, lost, clock, faults, overlapped>>
      /\ row' = [row EXCEPT ![r] = Released(@)]
      /\ thread' = [thread EXCEPT ![t] = [k EXCEPT !.pc = "sync"]]
  BY <1>k DEF ReleaseDurable, Become, runVars
<1>3. PICK m : m = Released(row[r])
  OBVIOUS
<1>4. /\ m \in LeaseMap
      /\ \A a \in Assets : IF row[r][a].st = "reserved" THEN m[a].st = "released"
                            ELSE m[a] = row[r][a]
  BY <1>1, <1>3, ReleasedEffect
<1>5. row' \in [Runs -> LeaseMap] /\ row'[r] = m /\ \A q \in Runs \ {r} : row'[q] = row[q]
  BY <1>1, <1>2, <1>3, <1>4
<1>6. PICK n : n = [k EXCEPT !.pc = "sync"]
  OBVIOUS
<1>7. /\ n \in Copy /\ n.pc = "sync" /\ n.own = k.own /\ n.kind = "request" /\ n.run = r /\ n.res = "none"
  BY <1>k, <1>1, <1>6 DEF Copy
<1>8. thread' = [thread EXCEPT ![t] = n]
  BY <1>2, <1>6
<1>9. CopyOK(n)' /\ AloneCopyOK(n)'
  BY <1>k, <1>1, <1>2, <1>7 DEF CopyOK, AloneCopyOK, Ended
<1>10. \A q \in Runs : NothingReserved(q)
  BY <1>4, <1>5 DEF NothingReserved
<1>11. OthersAge(r) /\ ~ActiveSlotConflict(row)'
  BY <1>1, <1>5, <1>10 DEF NothingReserved, OthersAge, Aged, ActiveSlotConflict
<1>12. RowsOK(r)' /\ AloneOK(r)'
  <2>1. Attempts(r)' \subseteq Attempts(r)
    BY <1>k, <1>1, <1>7, <1>8, Types DEF Attempts, Working
  <2>2. \A a \in Assets : row'[r][a].st = "committed" => row[r][a].st = "committed"
    BY <1>4, <1>5
  <2> QED
    BY <1>1, <1>2, <1>10, <2>1, <2>2 DEF RowsOK, AloneOK, NothingReserved
<1>13. /\ thread[t].pc # "idle" /\ thread[t].run = r
       /\ status' \in [Runs -> {"running", "cancelling"} \cup Ended]
       /\ at' \in [Runs -> {"plan", "work", "final"}] /\ pack' \in [Runs -> SUBSET Assets]
       /\ n.kind = thread[t].kind
  BY <1>k, <1>1, <1>2, <1>7 DEF TypeOK
<1>14. CommitsHold
  BY <1>4, <1>5 DEF CommitsHold
<1> QED
  BY <1>1, <1>2, <1>5, <1>7, <1>8, <1>9, <1>10, <1>11, <1>12, <1>13, <1>14, WritingStep

LEMMA TickStep ==
  ASSUME IInv, Tick
  PROVE  IInv' /\ row' = row
<1>1. TypeOK /\ (\A r \in Runs : RowsOK(r) /\ AloneOK(r)) /\ (\A u \in Threads : ThreadOK(u))
      /\ clock \in 0..MaxClock /\ ~ActiveSlotConflict(row)
  BY DEF IInv, TypeOK
<1>2. UNCHANGED <<row, status, at, pack, lost, thread, faults, overlapped>>
      /\ clock' = clock + 1 /\ clock' \in 0..MaxClock
  BY <1>1, ClockAssumption DEF Tick, runVars
<1>3. Monotone /\ \A r \in Runs : NothingReserved(r)
  BY <1>1, <1>2, ClockAssumption DEF Monotone, NothingReserved
<1>4. \A r \in Runs : RowsOK(r)' /\ AloneOK(r)'
  BY <1>1, <1>2, <1>3, RunsStay
<1>5. \A u \in Threads : ThreadOK(u)'
  <2> TAKE u \in Threads
  <2>1. CASE thread[u].pc = "idle"
    BY <1>2, <2>1 DEF ThreadOK
  <2>2. CASE thread[u].pc # "idle"
    BY <1>1, <1>2, <1>3, <2>2, Stable DEF SameCopy, ThreadOK
  <2> QED
    BY <2>1, <2>2
<1>6. TypeOK' /\ ~ActiveSlotConflict(row)'
  BY <1>1, <1>2 DEF TypeOK, ActiveSlotConflict
<1> QED
  BY <1>2, <1>4, <1>5, <1>6 DEF IInv
LEMMA BeginStep ==
  ASSUME IInv, NEW t \in Threads, NEW r \in Runs, NEW kind \in Kinds \ {"request"}, Begin(t, r, kind)
  PROVE  IInv' /\ row' = row
<1>1. /\ TypeOK /\ (\A q \in Runs : RowsOK(q) /\ AloneOK(q)) /\ (\A u \in Threads : ThreadOK(u))
      /\ clock \in 0..MaxClock /\ ~ActiveSlotConflict(row) /\ row \in [Runs -> LeaseMap]
      /\ thread \in [Threads -> Copy] /\ faults \in 0..MaxFaults
  BY Types DEF IInv
<1>2. PICK live \in SUBSET Threads : live = {u \in Attempts(r) : thread[u].live}
  BY DEF Attempts, Working
<1>3. PICK h : h = Hydrated(Idle.own, r)
  OBVIOUS
<1>4. PICK o : o = IF kind = "plan" THEN Blockers(Idle.others, r) ELSE Idle.others
  OBVIOUS
<1>5. PICK n : n = [Idle EXCEPT !.pc = "act", !.kind = kind, !.run = r, !.live = TRUE, !.own = h, !.others = o]
  OBVIOUS
<1>6. thread' = [u \in Threads |->
                   IF u = t THEN n
                   ELSE IF u \in live THEN [thread[u] EXCEPT !.live = FALSE] ELSE thread[u]]
  BY <1>2, <1>3, <1>4, <1>5 DEF Begin
<1>7. /\ thread[t].pc = "idle" /\ UNCHANGED <<row, status, at, pack, clock>>
      /\ status[r] \notin Ended /\ lost' = lost \ {r}
      /\ overlapped' = (IF Attempts(r) # {} THEN overlapped \cup {r} ELSE overlapped)
  BY DEF Begin, runVars, Ended
<1>8. faults' \in 0..MaxFaults
  BY <1>1, FaultBoundAssumption DEF Begin, Fault
<1>9. o \in [Assets -> Times]
  BY <1>1, <1>4, BlockersTyped, IdleTyped
<1>10. /\ h \in LeaseMap
       /\ \A a \in Assets : h[a] = IF row[r][a].st \in {"reserved", "committed"}
                                  THEN row[r][a] ELSE Idle.own[a]
  BY <1>1, <1>3, HydratedEffect, IdleTyped
<1>11. /\ n \in Copy /\ n.pc = "act" /\ n.kind = kind /\ n.run = r /\ n.own = h /\ n.res = "none"
       /\ n.assets = {}
  <2>1. PICK i : i = Idle
    OBVIOUS
  <2>2. i \in Copy /\ i.res = "none" /\ i.assets = {}
    BY <2>1, IdleTyped
  <2>3. n = [i EXCEPT !.pc = "act", !.kind = kind, !.run = r, !.live = TRUE, !.own = h, !.others = o]
    BY <1>5, <2>1
  <2> QED
    BY <1>9, <1>10, <2>2, <2>3 DEF Copy
<1>12. thread'[t] = n /\ \A u \in Threads \ {t} : thread'[u] \in Copy /\ SameCopy(u)
  <2>1. ASSUME NEW u \in Threads \ {t}, u \in live
        PROVE  thread'[u] \in Copy /\ SameCopy(u)
    <3>1. thread[u] \in Copy
      BY <1>1
    <3>2. thread'[u] = [thread[u] EXCEPT !.live = FALSE]
      BY <1>6, <2>1
    <3> QED
      BY <3>1, <3>2 DEF Copy, SameCopy
  <2>2. ASSUME NEW u \in Threads \ {t}, u \notin live
        PROVE  thread'[u] \in Copy /\ SameCopy(u)
    BY <1>1, <1>6, <2>2 DEF SameCopy
  <2> QED
    BY <1>6, <2>1, <2>2
<1>13. TypeOK'
  <2>1. thread' \in [Threads -> Copy]
    BY <1>6, <1>11, <1>12
  <2>2. lost' \in SUBSET Runs /\ overlapped' \in SUBSET Runs
    BY <1>1, <1>7 DEF TypeOK
  <2> QED
    BY <1>1, <1>7, <1>8, <2>1, <2>2 DEF TypeOK, Copy, LeaseMap, Times
<1>14. Monotone /\ \A q \in Runs : NothingReserved(q)
  BY <1>1, <1>7, ClockAssumption DEF Monotone, NothingReserved
<1>15. ASSUME NEW q \in Runs
       PROVE  RowsOK(q)' /\ AloneOK(q)'
  <2>1. RowsOK(q)'
    BY <1>1, <1>7 DEF RowsOK, LiveLease
  <2>2. Attempts(q)' \subseteq Attempts(q) \cup {t} /\ (q # r => Attempts(q)' \subseteq Attempts(q))
    BY <1>11, <1>12 DEF Attempts, Working, SameCopy
  <2>3. q = r /\ q \notin overlapped' => Attempts(q) = {}
    BY <1>7
  <2> QED
    BY <1>1, <1>7, <1>14, <2>1, <2>2, <2>3 DEF AloneOK, Monotone
<1>16. n.run \notin overlapped' => \A a \in Assets : row[r][a].st # "committed"
  BY <1>1, <1>7, <1>11, <1>14 DEF AloneOK, Monotone
<1>17. ASSUME NEW u \in Threads
       PROVE  ThreadOK(u)'
  <2>1. CASE u = t
    <3>1. CopyOK(thread[u])'
      <4>1. status[r] = "running" => \A a \in Assets : LiveLease(h[a])
        BY <1>1, <1>10, IdleTyped DEF RowsOK, LiveLease
      <4> QED
        BY <1>7, <1>11, <1>12, <2>1, <4>1 DEF CopyOK, LiveLease
    <3>2. AloneCopyOK(thread[u])'
      BY <1>7, <1>10, <1>11, <1>12, <1>16, <2>1, IdleTyped DEF AloneCopyOK, Ended
    <3> QED
      BY <1>11, <1>12, <2>1, <3>1, <3>2 DEF ThreadOK
  <2>2. CASE u # t /\ thread[u].pc = "idle"
    BY <1>12, <2>2 DEF ThreadOK, SameCopy
  <2>3. CASE u # t /\ thread[u].pc # "idle"
    BY <1>1, <1>12, <1>14, <2>3, Stable DEF ThreadOK
  <2> QED
    BY <2>1, <2>2, <2>3
<1>18. ~ActiveSlotConflict(row)'
  BY <1>1, <1>7 DEF ActiveSlotConflict
<1> QED
  BY <1>7, <1>13, <1>15, <1>17, <1>18 DEF IInv

LEMMA InitEstablishes == Init => IInv
<1> SUFFICES ASSUME Init PROVE IInv
  OBVIOUS
<1>1. 0 \in 0..MaxClock /\ 0 \in 0..MaxFaults
  BY ClockAssumption, FaultBoundAssumption
<1>2. /\ row \in [Runs -> LeaseMap] /\ thread \in [Threads -> Copy]
      /\ \A r \in Runs, a \in Assets : row[r][a].st = "none"
  BY NoLeaseTyped, IdleTyped DEF Init, LeaseMap
<1>3. TypeOK
  BY <1>1, <1>2, Types DEF Init
<1>4. \A t \in Threads : thread[t].pc = "idle"
  BY IdleTyped DEF Init
<1>5. \A r \in Runs : RowsOK(r) /\ AloneOK(r)
  BY <1>2, <1>4 DEF Init, RowsOK, AloneOK, LiveLease, Attempts, Working, Ended
<1> QED
  BY <1>2, <1>3, <1>4, <1>5 DEF IInv, ActiveSlotConflict, ThreadOK

LEMMA StepPreserves == IInv /\ [Next]_vars => IInv' /\ CommitsHold
<1> SUFFICES ASSUME IInv, [Next]_vars PROVE IInv' /\ CommitsHold
  OBVIOUS
<1>1. row' = row => CommitsHold
  BY DEF CommitsHold
<1>2. ASSUME NEW t \in Threads, NEW r \in Runs, CancelRun(t, r)
      PROVE  IInv' /\ CommitsHold
  BY <1>1, <1>2, CancelRunStep
<1>3. ASSUME NEW t \in Threads, NEW r \in Runs, NEW kind \in Kinds \ {"request"}, Begin(t, r, kind)
      PROVE  IInv' /\ CommitsHold
  BY <1>1, <1>3, BeginStep
<1>4. ASSUME NEW t \in Threads,
             \/ Plan(t) \/ Work(t) \/ Finalize(t) \/ MarkEnded(t) \/ StopAtFence(t)
             \/ Sync(t) \/ SyncRefused(t) \/ Fence(t) \/ ReleaseDurable(t) \/ Crash(t)
      PROVE  IInv' /\ CommitsHold
  BY <1>1, <1>4, PlanStep, WorkStep, FinalizeStep, MarkEndedStep, IdleSteps, SyncStep, FenceStep,
     ReleaseDurableStep
<1>5. CASE Tick
  BY <1>1, <1>5, TickStep
<1>6. CASE UNCHANGED vars
  <2>1. UNCHANGED <<row, status, at, pack, lost, thread, clock, faults, overlapped>>
    BY <1>6 DEF vars, runVars
  <2>2. TypeOK' /\ ~ActiveSlotConflict(row)'
    BY <2>1 DEF IInv, TypeOK, ActiveSlotConflict
  <2>3. \A r \in Runs : RowsOK(r)' /\ AloneOK(r)'
    BY <2>1 DEF IInv, RowsOK, AloneOK, LiveLease, Attempts, Working
  <2>4. \A t \in Threads : ThreadOK(t)'
    BY <2>1 DEF IInv, ThreadOK, CopyOK, AloneCopyOK, LiveLease
  <2> QED
    BY <1>1, <2>1, <2>2, <2>3, <2>4 DEF IInv
<1> QED
  BY <1>2, <1>3, <1>4, <1>5, <1>6 DEF Next

-----------------------------------------------------------------------------
(* The theorems. *)

\* Always: the invariant.
THEOREM Invariance == Spec => []IInv
BY InitEstablishes, StepPreserves, PTL DEF Spec

\* Rows, copies and threads stay within their types: every lease that a sweep, a
\* release or a snapshot writes is one that planning can have made.
THEOREM LeaseTypes == Spec => []TypeOK
<1>1. IInv => TypeOK
  BY DEF IInv
<1> QED
  BY <1>1, Invariance, PTL

\* Two runs that are under way never plan with the same asset while both leases run,
\* for any number of runs, attempts and assets, whatever attempt is slow or lost and
\* whichever lease runs out first: what reserve_selections and the unique index promise.
THEOREM PlansAreDisjoint == Spec => []PacksAreDisjoint
<1>1. IInv => PacksAreDisjoint
  <2>1. SUFFICES ASSUME IInv, NEW r \in Runs, NEW q \in Runs, NEW a \in Assets, r # q,
                        status[r] = "running", status[q] = "running", a \in pack[r] \cap pack[q]
                 PROVE  row[r][a].exp <= clock \/ row[q][a].exp <= clock
    BY DEF PacksAreDisjoint
  <2>2. /\ LiveLease(row[r][a]) /\ row[r][a].st # "none"
        /\ LiveLease(row[q][a]) /\ row[q][a].st # "none"
    BY <2>1 DEF IInv, RowsOK
  <2>3. ~(row[r][a].st = "reserved" /\ row[q][a].st = "reserved")
    BY <2>1 DEF IInv, ActiveSlotConflict
  <2> QED
    BY <2>2, <2>3 DEF LiveLease
<1> QED
  BY <1>1, Invariance, PTL

\* A run that has ended and never had two attempts at work holds no lease once its last
\* thread is done: a lost snapshot, a failure next to a cancellation and a request that
\* comes too late all leave that to somebody, and somebody has done it.
THEOREM EndedRunsLetGo == Spec => []EndedRunHoldsNothing
<1>1. IInv => EndedRunHoldsNothing
  BY DEF IInv, AloneOK, EndedRunHoldsNothing
<1> QED
  BY <1>1, Invariance, PTL

\* A committed lease is left alone but for the cancel request that read the run before
\* it ended, as long as the run's attempts do not overlap.
THEOREM CommitsAreKept == Spec => CommitsStand
<1>1. IInv /\ [Next]_vars =>
        [\A r \in Runs, a \in Assets :
           row[r][a].st = "committed" /\ r \notin overlapped' =>
             \/ row'[r][a] = row[r][a]
             \/ \E t \in Working(r) : thread[t].kind = "request" /\ thread[t].own[a].st = "released"]_vars
  BY StepPreserves DEF CommitsHold
<1> QED
  BY <1>1, Invariance, PTL DEF Spec, CommitsStand
=============================================================================
