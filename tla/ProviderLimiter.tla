-------------------------- MODULE ProviderLimiter --------------------------
(***************************************************************************)
(* The limiter of provider calls: one concurrency key, the threads of one  *)
(* process.  With Redis a slot is a lease in a sorted set, dropped by age  *)
(* and never renewed; without Redis it is a permit of a semaphore of the   *)
(* process.  The requests-per-second bucket only delays a thread and is    *)
(* part of the time it waits.                                              *)
(***************************************************************************)
EXTENDS Integers, FiniteSets

CONSTANTS
  Callers,      \* the threads that make provider calls
  MaxInflight,  \* max_inflight of the key
  MaxFaults     \* bound on crashes, timeouts, lost replies and long calls

ASSUME CallersAssumption == IsFiniteSet(Callers)
ASSUME InflightAssumption == MaxInflight \in Nat \ {0}
ASSUME FaultBoundAssumption == MaxFaults \in Nat

VARIABLES
  redis,    \* the limiter's client: "up" or "degraded"
  lease,    \* the lease of each thread: "none", or "young" or "old" in the set
  leaked,   \* young leases in the set that nobody will release
  queued,   \* threads that went for the local semaphore
  permits,  \* the threads that hold a permit of it
  faults    \* faults so far

limiterVars == <<redis, lease, leaked, queued, permits>>

Fault == faults < MaxFaults /\ faults' = faults + 1

LimiterInit ==
  /\ redis = "up" /\ lease = [c \in Callers |-> "none"]
  /\ leaked = 0 /\ queued = {} /\ permits = {}

\* _ACQUIRE_SCRIPT drops the old leases and counts the others.
Young == {c \in Callers : lease[c] = "young"}
Inflight == Cardinality(Young) + leaked

\* A script that admits one too many: mutant of TakeLease.
TakeLeaseOffByOne(c) ==
  /\ redis = "up" /\ c \notin queued
  /\ Inflight <= MaxInflight
  /\ lease' = [lease EXCEPT ![c] = "young"]
  /\ UNCHANGED <<redis, leaked, queued, permits>>

\* _try_acquire_redis_slot: the script runs alone in Redis.
TakeLease(c) ==
  /\ redis = "up" /\ c \notin queued
  /\ Inflight < MaxInflight
  /\ lease' = [lease EXCEPT ![c] = "young"]
  /\ UNCHANGED <<redis, leaked, queued, permits>>

\* The thread finds Redis gone, at its first look or while it retries.  From here
\* on it waits for the semaphore, also when Redis comes back.
GoLocal(c) ==
  /\ redis = "degraded" /\ c \notin queued
  /\ queued' = queued \cup {c}
  /\ UNCHANGED <<redis, lease, leaked, permits, faults>>

\* The call to Redis fails: the thread degrades the client and waits for the
\* semaphore.  If only the reply was lost, the lease stays in the set.
AcquireFails(c) ==
  /\ Fault
  /\ redis = "up" /\ c \notin queued
  /\ redis' = "degraded"
  /\ \/ leaked' = leaked
     \/ Inflight < MaxInflight /\ leaked' = leaked + 1
  /\ queued' = queued \cup {c}
  /\ UNCHANGED <<lease, permits>>

\* _local_slot.
TakePermit(c) ==
  /\ c \in queued
  /\ Cardinality(permits) < MaxInflight
  /\ permits' = permits \cup {c}
  /\ UNCHANGED <<redis, lease, leaked, queued>>

\* _maybe_reconnect, by a thread that enters slot() after the cooldown.
Reconnect(c) ==
  /\ redis = "degraded" /\ c \notin queued
  /\ redis' = "up"
  /\ UNCHANGED <<lease, leaked, queued, permits, faults>>

\* A release that forgets the permit: mutant of ReleaseSlot.
ReleaseLeaseOnly(c) ==
  /\ queued' = queued \ {c}
  /\ lease' = [lease EXCEPT ![c] = "none"]
  /\ leaked' = IF lease[c] = "young" /\ redis # "up" THEN leaked + 1 ELSE leaked
  /\ UNCHANGED <<redis, permits>>

\* What slot() gives back at its end; a lease is left behind when there is no client
\* at that moment.
ReleaseSlot(c) ==
  /\ permits' = permits \ {c} /\ queued' = queued \ {c}
  /\ lease' = [lease EXCEPT ![c] = "none"]
  /\ leaked' = IF lease[c] = "young" /\ redis # "up" THEN leaked + 1 ELSE leaked
  /\ UNCHANGED redis

\* The removal of the lease fails: the client is degraded, the lease stays.
ReleaseFails(c) ==
  /\ Fault
  /\ redis = "up" /\ lease[c] # "none"
  /\ redis' = "degraded" /\ lease' = [lease EXCEPT ![c] = "none"]
  /\ leaked' = IF lease[c] = "young" THEN leaked + 1 ELSE leaked
  /\ UNCHANGED <<queued, permits>>

LeaveSlot(c) ==
  \/ ReleaseSlot(c) /\ UNCHANGED faults
  \/ ReleaseFails(c)

\* The process is killed inside slot(): nothing is released in Redis; its semaphore
\* and its client go with it.
LoseSlots ==
  /\ permits' = {} /\ queued' = {} /\ redis' = "up"
  /\ lease' = [c \in Callers |-> "none"]
  /\ leaked' = Inflight

\* A call outlasts lease_ttl_seconds and goes on without a lease.
LeaseAges(c) ==
  /\ Fault
  /\ lease[c] = "young"
  /\ lease' = [lease EXCEPT ![c] = "old"]
  /\ UNCHANGED <<redis, leaked, queued, permits>>

\* Only its age removes a leaked lease.
LeakedLeaseAges ==
  /\ leaked > 0 /\ leaked' = leaked - 1
  /\ UNCHANGED <<redis, lease, queued, permits, faults>>

LimiterType ==
  /\ redis \in {"up", "degraded"}
  /\ lease \in [Callers -> {"none", "young", "old"}]
  /\ leaked \in 0..MaxInflight
  /\ queued \in SUBSET Callers /\ permits \in SUBSET queued
  /\ faults \in 0..MaxFaults
=============================================================================
