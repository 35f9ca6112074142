------------------------ MODULE CaseAdmissionProofs ------------------------
(***************************************************************************)
(* For every number of runs, cap, worker threads and faults: a row that    *)
(* reads running has an open workflow; and as long as nothing fails the    *)
(* cap holds and runs start in the order they were queued in.              *)
(***************************************************************************)
EXTENDS CaseAdmission, FiniteSetTheorems, TLAPS

-----------------------------------------------------------------------------
(* Types.                                                                   *)

\* A count of the case's rows is at most their number.
LEMMA CountTyped ==
  ASSUME NEW S \in SUBSET Runs
  PROVE  Cardinality(S) \in 0..R
<1>1. IsFiniteSet(Runs) /\ Cardinality(Runs) = R
  BY FS_Interval, RunsAssumption DEF Runs
<1>2. IsFiniteSet(S) /\ Cardinality(S) <= R
  BY <1>1, FS_Subset
<1> QED
  BY <1>2, FS_CardinalityType, RunsAssumption

\* What a retry leaves is a controller.
LEMMA RetriedTyped == ctl \in ControllerType => Retried \in ControllerType
<1> SUFFICES ASSUME ctl \in ControllerType PROVE Retried \in ControllerType
  OBVIOUS
<1>1. CASE ctl.tries < MaxTries
  <2>1. ctl.tries + 1 \in 1..MaxTries
    BY <1>1, TriesAssumption DEF ControllerType
  <2>2. Retried = [state |-> "activity", tries |-> ctl.tries + 1, by |-> Nobody]
    BY <1>1 DEF Retried, NewCycle
  <2> QED
    BY <2>1, <2>2 DEF ControllerType
<1>2. CASE ~(ctl.tries < MaxTries)
  BY <1>2 DEF ControllerType, Retried
<1> QED
  BY <1>1, <1>2

\* So is a new one, and an idle attempt is an attempt.
LEMMA NewTyped == NewCycle \in ControllerType /\ IdleAttempt \in AttemptType
BY TriesAssumption, RunsAssumption
DEF ControllerType, NewCycle, AttemptType, IdleAttempt

\* Moving an attempt on keeps its type.
LEMMA AttemptTyped ==
  ASSUME NEW m \in AttemptType, NEW P \in SUBSET Runs,
         NEW p \in {"lock", "counted", "selected", "read", "start", "mark", "marking"}
  PROVE  /\ [m EXCEPT !.pc = p] \in AttemptType
         /\ [m EXCEPT !.picked = P] \in AttemptType
         /\ [m EXCEPT !.pc = p, !.picked = P] \in AttemptType
         /\ [m EXCEPT !.pc = p, !.running = 0, !.picked = P] \in AttemptType
<1>1. [m EXCEPT !.pc = p] \in AttemptType
  BY DEF AttemptType
<1>2. [m EXCEPT !.picked = P] \in AttemptType
  BY DEF AttemptType
<1>3. [m EXCEPT !.pc = p, !.picked = P] \in AttemptType
  BY DEF AttemptType
<1>4. 0 \in 0..R
  BY RunsAssumption
<1>5. [m EXCEPT !.pc = p, !.running = 0, !.picked = P] \in AttemptType
  BY <1>4 DEF AttemptType
<1> QED
  BY <1>1, <1>2, <1>3, <1>5

\* So does a change of what the attempt found.
LEMMA IdleTyped ==
  ASSUME NEW m \in AttemptType, NEW b \in BOOLEAN
  PROVE  [m EXCEPT !.idle = b] \in AttemptType
BY DEF AttemptType

\* The initial state is well typed.
LEMMA TypeInit == Init => TypeOK
BY NewTyped, FaultBoundAssumption, TriesAssumption
DEF Init, TypeOK, ControllerType, NewCycle

\* An attempt that keeps its type keeps the type of all attempts.
LEMMA ToTyped ==
  ASSUME TypeOK, NEW a \in Attempts, NEW m \in AttemptType, To(a, m)
  PROVE  attempt' \in [Attempts -> AttemptType]
BY DEF TypeOK, To

\* Every step keeps the types.
LEMMA TypeStep == TypeOK /\ [Next]_vars => TypeOK'
<1> SUFFICES ASSUME TypeOK, [Next]_vars PROVE TypeOK'
  OBVIOUS
<1> USE DEF TypeOK, rows, Fault, SetStatus, SetFlow
<1>1. CASE PokerNext
  BY <1>1, NewTyped, FaultBoundAssumption
  DEF PokerNext, QueueRun, EndBatch, RecoveryScan, PokeStarts, PokeSignals,
      PokeFails, Pokers, OfStatus
<1>2. CASE ControllerNext
  <2>1. ASSUME NEW a \in Attempts, ControllerClaims(a) PROVE TypeOK'
    BY <2>1 DEF ControllerClaims, AttemptType, ControllerType
  <2>2. CASE ControllerTimeout \/ ControllerLosesAttempt \/ ControllerWakes
    BY <2>2, RetriedTyped, NewTyped, FaultBoundAssumption
    DEF ControllerTimeout, ControllerLosesAttempt, ControllerWakes
  <2> QED
    BY <1>2, <2>1, <2>2 DEF ControllerNext
<1>3. CASE WorkerCrash \/ ApiCrash
  BY <1>3, NewTyped, FaultBoundAssumption DEF WorkerCrash, ApiCrash, Pokers
<1>4. ASSUME NEW a \in Attempts, AttemptWork(a) \/ AttemptFails(a) PROVE TypeOK'
  <2>1. CASE CountRunning(a)
    <3>1. Cardinality(OfStatus("running")) \in 0..R
      BY CountTyped DEF OfStatus
    <3>2. [attempt[a] EXCEPT !.pc = "counted",
             !.running = Cardinality(OfStatus("running"))] \in AttemptType
      BY <3>1 DEF AttemptType
    <3> QED
      BY <2>1, <3>2, ToTyped DEF CountRunning
  <2>2. CASE SelectAdmitted(a)
    <3>1. PICK chosen \in SUBSET Runs :
            /\ rowLock' = [r \in Runs |-> IF r \in chosen THEN a ELSE rowLock[r]]
            /\ To(a, [attempt[a] EXCEPT !.pc = "selected", !.running = 0,
                                        !.picked = chosen])
      BY <2>2 DEF SelectAdmitted, OldestOf, OfStatus
    <3>2. [attempt[a] EXCEPT !.pc = "selected", !.running = 0, !.picked = chosen]
            \in AttemptType
      BY AttemptTyped
    <3> QED
      BY <2>2, <3>1, <3>2, ToTyped DEF SelectAdmitted
  <2>3. CASE ReadQueued(a)
    <3> DEFINE b == OfStatus("admitted") = {}
               m == [attempt[a] EXCEPT !.pc = "read"]
    <3>1. m \in AttemptType
      BY AttemptTyped
    <3>2. [m EXCEPT !.idle = b] \in AttemptType
      <4> HIDE DEF m
      <4> QED BY <3>1, IdleTyped, Zenon
    <3> QED
      BY <2>3, <3>2, ToTyped DEF ReadQueued
  <2>4. CASE ReadActiveAndCommit(a)
    <3> DEFINE b == attempt[a].idle /\ ActiveRuns = {}
               n == [attempt[a] EXCEPT !.pc = "start"]
               m == [n EXCEPT !.idle = b]
    <3>1. n \in AttemptType
      BY AttemptTyped
    <3>2. m \in AttemptType
      <4> HIDE DEF n
      <4> QED BY <3>1, IdleTyped, Zenon
    <3>3. [m EXCEPT !.picked = {}] \in AttemptType
      <4> HIDE DEF m
      <4> QED BY <3>2, AttemptTyped
    <3>4. To(a, m) \/ To(a, [m EXCEPT !.picked = {}])
      BY <2>4 DEF ReadActiveAndCommit
    <3>5. attempt' \in [Attempts -> AttemptType]
      <4> HIDE DEF m
      <4> QED BY <3>2, <3>3, <3>4, ToTyped
    <3> QED
      BY <2>4, <3>5, FaultBoundAssumption DEF ReadActiveAndCommit, Unlocked
  <2>5. CASE AttemptReturns(a)
    BY <2>5, NewTyped, ToTyped DEF AttemptReturns, ControllerType
  <2>6. CASE AttemptFails(a)
    BY <2>6, NewTyped, RetriedTyped, ToTyped, FaultBoundAssumption
    DEF AttemptFails, Unlocked
  <2>7. ASSUME NEW r \in Runs, StartRun(a, r) \/ MarkBegin(a, r) \/ MarkCommit(a, r)
        PROVE TypeOK'
    <3>1. \/ To(a, [attempt[a] EXCEPT !.pc = "mark"])
          \/ To(a, [attempt[a] EXCEPT !.pc = "marking"])
          \/ Skip(a, r) \/ Started(a, r)
      BY <2>7 DEF StartRun, MarkBegin, MarkCommit
    <3> DEFINE n == [attempt[a] EXCEPT !.pc = "start", !.picked = @ \ {r}]
    <3>2. /\ [attempt[a] EXCEPT !.pc = "mark"] \in AttemptType
          /\ [attempt[a] EXCEPT !.pc = "marking"] \in AttemptType
      BY AttemptTyped
    <3>3. attempt[a].picked \ {r} \in SUBSET Runs
      BY DEF AttemptType
    <3>4. n \in AttemptType
      BY <3>3, AttemptTyped
    <3>5. [n EXCEPT !.idle = FALSE] \in AttemptType
      <4> HIDE DEF n
      <4> QED BY <3>4, IdleTyped
    <3>6. attempt' \in [Attempts -> AttemptType]
      BY <3>1, <3>2, <3>4, <3>5, ToTyped DEF Skip, Started
    <3> QED
      BY <2>7, <3>6, FaultBoundAssumption DEF StartRun, MarkBegin, MarkCommit
  <2> QED
    BY <1>4, <2>1, <2>2, <2>3, <2>4, <2>5, <2>6, <2>7 DEF AttemptWork
<1>5. ASSUME NEW r \in Runs, RunNext(r) PROVE TypeOK'
  BY <1>5, FaultBoundAssumption
  DEF RunNext, NodeMarkBegin, NodeMarkCommit, CancelRun, RunEnds
<1>6. CASE UNCHANGED vars
  BY <1>6 DEF vars
<1> QED
  BY <1>1, <1>2, <1>3, <1>4, <1>5, <1>6 DEF Next

-----------------------------------------------------------------------------
(* The invariant.                                                           *)

\* An attempt deals with one run at a time.
LEMMA NextIsUnique ==
  ASSUME TypeOK, NEW a \in Attempts, NEW r \in Runs, NEW q \in Runs,
         IsNext(a, r), IsNext(a, q)
  PROVE  r = q
BY DEF IsNext, Runs

\* An attempt that is neither touched nor loses its row stays right.
LEMMA MarkStable ==
  ASSUME IInv, NEW b \in Attempts, attempt'[b] = attempt[b],
         \A r \in Runs : flow[r] # "none" => flow'[r] # "none",
         \A r \in Runs : rowLock[r] = b /\ status[r] = "admitted" =>
           rowLock'[r] = b /\ status'[r] = "admitted"
  PROVE  MarkOK(b)'
BY DEF IInv, MarkOK, IsNext

\* An attempt that is not marking is right.
LEMMA MarkIdle ==
  ASSUME NEW b \in Attempts, attempt'[b].pc \notin {"mark", "marking"}
  PROVE  MarkOK(b)'
BY DEF MarkOK

\* The initial state has no workflow and no attempt at work.
LEMMA InitInvariant == Init => IInv
<1> SUFFICES ASSUME Init PROVE IInv
  OBVIOUS
<1>1. TypeOK
  BY TypeInit
<1>2. FlowOK /\ \A a \in Attempts : MarkOK(a)
  BY HoldersAssumption DEF Init, FlowOK, MarkOK, IdleAttempt
<1> QED
  BY <1>1, <1>2 DEF IInv

\* Queueing, poking, the controller and crashes.
LEMMA PokerStep ==
  ASSUME IInv, PokerNext \/ ControllerNext \/ WorkerCrash \/ ApiCrash
  PROVE  FlowOK' /\ \A b \in Attempts : MarkOK(b)'
<1> USE DEF rows, SetStatus
<1>1. TypeOK /\ FlowOK
  BY DEF IInv
<1>2. CASE PokerNext
  <2>1. /\ attempt' = attempt /\ flow' = flow /\ rowLock' = rowLock
        /\ \A r \in Runs : \/ status'[r] = status[r]
                           \/ status[r] = "absent" /\ status'[r] = "admitted"
    <3>1. CASE QueueRun
      BY <1>1, <3>1 DEF QueueRun, OfStatus, TypeOK
    <3>2. CASE EndBatch \/ RecoveryScan
      BY <3>2 DEF EndBatch, RecoveryScan
    <3>3. ASSUME NEW q \in Pokers, PokeStarts(q) \/ PokeSignals(q) \/ PokeFails(q)
          PROVE  UNCHANGED <<status, rowLock, flow, attempt>>
      BY <3>3 DEF PokeStarts, PokeSignals, PokeFails
    <3> QED
      BY <1>2, <3>1, <3>2, <3>3 DEF PokerNext
  <2>2. FlowOK'
    BY <1>1, <2>1 DEF FlowOK
  <2> QED
    BY <2>1, <2>2, MarkStable
<1>3. CASE ControllerNext
  <2>1. status' = status /\ flow' = flow /\ rowLock' = rowLock
    BY <1>3 DEF ControllerNext, ControllerClaims, ControllerTimeout,
                ControllerLosesAttempt, ControllerWakes
  <2>2. ASSUME NEW b \in Attempts
        PROVE  attempt'[b] = attempt[b] \/ attempt'[b].pc = "lock"
    BY <1>1, <1>3
    DEF ControllerNext, ControllerClaims, ControllerTimeout,
        ControllerLosesAttempt, ControllerWakes, TypeOK, AttemptType
  <2>3. FlowOK'
    BY <1>1, <2>1 DEF FlowOK
  <2> QED
    BY <2>1, <2>2, <2>3, MarkStable, MarkIdle
<1>4. CASE WorkerCrash
  <2>1. FlowOK'
    BY <1>1, <1>4, HoldersAssumption DEF WorkerCrash, FlowOK, TypeOK
  <2>2. \A b \in Attempts : attempt'[b].pc = "idle"
    BY <1>4 DEF WorkerCrash, IdleAttempt
  <2> QED
    BY <2>1, <2>2, MarkIdle
<1>5. CASE ApiCrash
  <2>1. attempt' = attempt /\ flow' = flow /\ rowLock' = rowLock /\ status' = status
    BY <1>5 DEF ApiCrash
  <2>2. FlowOK'
    BY <1>1, <2>1 DEF FlowOK
  <2> QED
    BY <2>1, <2>2, MarkStable
<1> QED
  BY <1>2, <1>3, <1>4, <1>5

\* What an attempt does concerns its own rows only.
LEMMA OthersStable ==
  ASSUME IInv, NEW a \in Attempts, AttemptWork(a) \/ AttemptFails(a),
         NEW b \in Attempts, b # a
  PROVE  MarkOK(b)'
<1>1. TypeOK
  BY DEF IInv
<1> USE DEF rows, SetStatus, SetFlow, Unlocked, Skip, Started, To
<1>2. attempt'[b] = attempt[b]
  BY <1>1 DEF AttemptWork, AttemptFails, CountRunning, SelectAdmitted, ReadQueued,
              ReadActiveAndCommit, AttemptReturns, StartRun, MarkBegin,
              MarkCommit, TypeOK
<1>3. ASSUME NEW r \in Runs, flow[r] # "none" PROVE flow'[r] # "none"
  BY <1>1, <1>3 DEF AttemptWork, AttemptFails, CountRunning, SelectAdmitted,
              ReadQueued, ReadActiveAndCommit, AttemptReturns, StartRun,
              MarkBegin, MarkCommit, TypeOK
<1>4. ASSUME NEW r \in Runs, rowLock[r] = b, status[r] = "admitted"
      PROVE  rowLock'[r] = b /\ status'[r] = "admitted"
  <2>1. b # Nobody
    BY HoldersAssumption
  <2>2. CASE CountRunning(a) \/ ReadQueued(a) \/ ReadActiveAndCommit(a)
             \/ AttemptReturns(a) \/ AttemptFails(a)
    BY <1>1, <1>4, <2>2
    DEF CountRunning, ReadQueued, ReadActiveAndCommit, AttemptReturns,
        AttemptFails, TypeOK
  <2>3. CASE SelectAdmitted(a)
    BY <1>1, <1>4, <2>1, <2>3 DEF SelectAdmitted, OldestOf, TypeOK
  <2>4. ASSUME NEW q \in Runs, StartRun(a, q) \/ MarkBegin(a, q) \/ MarkCommit(a, q)
        PROVE  rowLock'[r] = b /\ status'[r] = "admitted"
    <3>1. MarkCommit(a, q) => rowLock[q] = a
      BY DEF IInv, MarkOK, MarkCommit
    <3> QED
      BY <1>1, <1>4, <2>1, <2>4, <3>1 DEF StartRun, MarkBegin, MarkCommit, TypeOK
  <2> QED
    BY <2>2, <2>3, <2>4 DEF AttemptWork
<1> QED
  BY <1>2, <1>3, <1>4, MarkStable

\* The activity.
LEMMA AttemptStep ==
  ASSUME IInv, NEW a \in Attempts, AttemptWork(a) \/ AttemptFails(a)
  PROVE  FlowOK' /\ MarkOK(a)'
<1> USE DEF rows, SetStatus, SetFlow
<1>1. TypeOK /\ FlowOK /\ MarkOK(a)
  BY DEF IInv
<1>2. a # Nobody /\ a # "node" /\ Nobody # "node"
  BY HoldersAssumption
<1>3. CASE \/ CountRunning(a) \/ SelectAdmitted(a) \/ ReadQueued(a)
           \/ ReadActiveAndCommit(a) \/ AttemptReturns(a) \/ AttemptFails(a)
  <2>1. attempt'[a].pc \notin {"mark", "marking"}
    <3>1. CASE CountRunning(a) \/ SelectAdmitted(a) \/ ReadQueued(a)
      BY <1>1, <3>1 DEF CountRunning, SelectAdmitted, ReadQueued, To, TypeOK, AttemptType
    <3>2. CASE ReadActiveAndCommit(a)
      <4> DEFINE m == [attempt[a] EXCEPT !.pc = "start", !.idle = @ /\ ActiveRuns = {}]
      <4>1. m.pc = "start" /\ [m EXCEPT !.picked = {}].pc = "start"
        BY <1>1 DEF TypeOK, AttemptType
      <4>2. attempt'[a] = m \/ attempt'[a] = [m EXCEPT !.picked = {}]
        BY <1>1, <3>2 DEF ReadActiveAndCommit, To, TypeOK
      <4> QED
        BY <4>1, <4>2
    <3>3. CASE AttemptReturns(a) \/ AttemptFails(a)
      BY <1>1, <3>3 DEF AttemptReturns, AttemptFails, To, TypeOK, IdleAttempt
    <3> QED
      BY <1>3, <3>1, <3>2, <3>3
  <2>2. status' = status /\ flow' = flow
    BY <1>3 DEF CountRunning, SelectAdmitted, ReadQueued, ReadActiveAndCommit,
                AttemptReturns, AttemptFails
  <2>3. \A r \in Runs : rowLock'[r] = "node" => rowLock[r] = "node"
    BY <1>1, <1>2, <1>3
    DEF CountRunning, SelectAdmitted, ReadQueued, ReadActiveAndCommit,
        AttemptReturns, AttemptFails, Unlocked, TypeOK
  <2>4. FlowOK'
    BY <1>1, <2>2, <2>3 DEF FlowOK
  <2> QED
    BY <2>1, <2>4, MarkIdle
<1>4. ASSUME NEW r \in Runs, StartRun(a, r) PROVE FlowOK' /\ MarkOK(a)'
  <2>1. status' = status /\ rowLock' = rowLock
    BY <1>4 DEF StartRun
  <2>2. flow' = flow \/ flow' = [flow EXCEPT ![r] = "open"]
    BY <1>4 DEF StartRun
  <2>3. FlowOK'
    BY <1>1, <2>1, <2>2 DEF FlowOK, TypeOK
  <2>4. CASE attempt'[a].pc = "mark" /\ flow'[r] = "open"
             /\ attempt'[a].picked = attempt[a].picked
    <3>1. \A q \in Runs : IsNext(a, q)' => q = r
      BY <1>1, <1>4, <2>4, NextIsUnique DEF StartRun, IsNext
    <3> QED
      BY <2>3, <2>4, <3>1 DEF MarkOK
  <2>5. CASE attempt'[a].pc = "start"
    BY <2>3, <2>5, MarkIdle
  <2>6. CASE Skip(a, r)
    BY <1>1, <2>5, <2>6 DEF Skip, To, TypeOK, AttemptType
  <2>7. CASE To(a, [attempt[a] EXCEPT !.pc = "mark"]) /\ SetFlow(r, "open")
    BY <1>1, <2>4, <2>7 DEF To, TypeOK, AttemptType
  <2> QED
    BY <1>4, <2>6, <2>7 DEF StartRun
<1>5. ASSUME NEW r \in Runs, MarkBegin(a, r) PROVE FlowOK' /\ MarkOK(a)'
  <2>1. status' = status /\ flow' = flow
    BY <1>5 DEF MarkBegin
  <2>2. rowLock' = rowLock \/ rowLock' = [rowLock EXCEPT ![r] = a]
    BY <1>5 DEF MarkBegin
  <2>3. FlowOK'
    BY <1>1, <1>2, <2>1, <2>2 DEF FlowOK, TypeOK
  <2>4. CASE /\ attempt' = [attempt EXCEPT ![a] = [attempt[a] EXCEPT !.pc = "marking"]]
             /\ rowLock' = [rowLock EXCEPT ![r] = a] /\ status[r] = "admitted"
    <3>1. \A q \in Runs : IsNext(a, q)' => q = r
      BY <1>1, <1>5, <2>4, NextIsUnique DEF MarkBegin, IsNext, TypeOK, AttemptType
    <3>2. flow[r] # "none"
      BY <1>1, <1>5 DEF MarkBegin, MarkOK
    <3>3. rowLock'[r] = a
      BY <1>1, <2>4 DEF TypeOK
    <3> QED
      BY <2>1, <2>3, <2>4, <3>1, <3>2, <3>3 DEF MarkOK
  <2>5. CASE attempt'[a].pc = "start"
    BY <2>3, <2>5, MarkIdle
  <2> QED
    BY <1>1, <1>5, <2>4, <2>5
    DEF MarkBegin, Skip, Started, To, TypeOK, AttemptType
<1>6. ASSUME NEW r \in Runs, MarkCommit(a, r) PROVE FlowOK' /\ MarkOK(a)'
  <2>1. attempt'[a].pc = "start"
    BY <1>1, <1>6 DEF MarkCommit, Started, To, TypeOK, AttemptType
  <2>2. flow[r] # "none" /\ rowLock[r] = a /\ status[r] = "admitted"
    BY <1>1, <1>6 DEF MarkCommit, MarkOK
  <2>3. FlowOK'
    BY <1>1, <1>2, <1>6, <2>2 DEF MarkCommit, FlowOK, TypeOK
  <2> QED
    BY <2>1, <2>3, MarkIdle
<1> QED
  BY <1>3, <1>4, <1>5, <1>6 DEF AttemptWork

\* What happens to a run outside admission.
LEMMA RunStep ==
  ASSUME IInv, NEW r \in Runs, RunNext(r)
  PROVE  FlowOK' /\ \A b \in Attempts : MarkOK(b)'
<1> USE DEF rows, SetStatus, SetFlow
<1>1. TypeOK /\ FlowOK
  BY DEF IInv
<1>2. /\ attempt' = attempt
      /\ \A q \in Runs \ {r} : /\ flow'[q] = flow[q] /\ status'[q] = status[q]
                               /\ rowLock'[q] = rowLock[q]
  BY <1>1 DEF RunNext, NodeMarkBegin, NodeMarkCommit, CancelRun, RunEnds, TypeOK
<1>3. flow[r] # "none" => flow'[r] # "none"
  BY <1>1 DEF RunNext, NodeMarkBegin, NodeMarkCommit, CancelRun, RunEnds, TypeOK
<1>4. rowLock[r] \in {Nobody, "node"}
  BY DEF RunNext, NodeMarkBegin, NodeMarkCommit, CancelRun, RunEnds
<1>5. FlowOK'
  <2>1. /\ flow'[r] = "closed" => status'[r] \in {"cancelling", "ended"}
        /\ status'[r] = "running" \/ rowLock'[r] = "node" => flow'[r] # "none"
        /\ rowLock'[r] = "node" => status'[r] = "admitted"
    BY <1>1, HoldersAssumption
    DEF RunNext, NodeMarkBegin, NodeMarkCommit, CancelRun, RunEnds, FlowOK, TypeOK
  <2> QED
    BY <1>1, <1>2, <2>1 DEF FlowOK
<1>6. ASSUME NEW b \in Attempts PROVE MarkOK(b)'
  <2>1. rowLock[r] # b
    BY <1>4, HoldersAssumption
  <2> QED
    BY <1>2, <1>3, <2>1, MarkStable
<1> QED
  BY <1>5, <1>6

\* Every step keeps the invariant.
LEMMA InvariantStep == IInv /\ [Next]_vars => IInv'
<1> SUFFICES ASSUME IInv, [Next]_vars PROVE IInv'
  OBVIOUS
<1>1. TypeOK'
  BY TypeStep DEF IInv
<1>2. FlowOK' /\ \A b \in Attempts : MarkOK(b)'
  <2>1. CASE PokerNext \/ ControllerNext \/ WorkerCrash \/ ApiCrash
    BY <2>1, PokerStep
  <2>2. ASSUME NEW a \in Attempts, AttemptWork(a) \/ AttemptFails(a)
        PROVE  FlowOK' /\ \A b \in Attempts : MarkOK(b)'
    BY <2>2, AttemptStep, OthersStable
  <2>3. ASSUME NEW r \in Runs, RunNext(r)
        PROVE  FlowOK' /\ \A b \in Attempts : MarkOK(b)'
    BY <2>3, RunStep
  <2>4. CASE UNCHANGED vars
    BY <2>4 DEF vars, IInv, FlowOK, MarkOK, IsNext
  <2> QED
    BY <2>1, <2>2, <2>3, <2>4 DEF Next
<1> QED
  BY <1>1, <1>2 DEF IInv

-----------------------------------------------------------------------------
\* The invariant holds in every behaviour of the specification.
THEOREM AdmissionInvariant == Spec => []IInv
BY InitInvariant, InvariantStep, PTL DEF Spec

\* Every variable of admission stays within its type: in particular locks are held by
\* runs or attempts that exist, and every picked run is a run of the case.
THEOREM AdmissionTypes == Spec => []TypeOK
<1>1. IInv => TypeOK
  BY DEF IInv
<1> QED
  BY <1>1, AdmissionInvariant, PTL

\* A row that reads running has a workflow that will end it: neither a failed
\* start, nor a crash between the start and the mark, nor an attempt the server
\* has given up leaves a slot of the cap taken for ever.
THEOREM RunningRunsHaveWorkflows == Spec => []RunningHasWorkflow
<1>1. IInv => RunningHasWorkflow
  BY DEF IInv, TypeOK, FlowOK, RunningHasWorkflow
<1> QED
  BY <1>1, AdmissionInvariant, PTL

-----------------------------------------------------------------------------
(* As long as nothing fails.  There is then one attempt at a time, the one   *)
(* the controller waits for, and all the rows it has started but one are     *)
(* marked: what will run next is what it picked, oldest first.               *)

\* The controller waits for every attempt that is at work.
SoloOK(a) ==
  /\ attempt[a].pc # "idle" => ctl.by = a
  /\ ctl.by = a => ctl.state = "activity" /\ attempt[a].pc # "idle"

Marking(a, r) == attempt[a].pc \in {"mark", "marking"} /\ IsNext(a, r)

\* An admitted row whose workflow is started is the one being marked, a row
\* lock lasts as long as the transaction, and rows are queued in order.
RowOK(r) ==
  /\ status[r] = "admitted" /\ flow[r] # "none" => \E a \in Attempts : Marking(a, r)
  /\ status[r] = "absent" => flow[r] = "none"
  /\ \A q \in Runs : status[r] = "absent" /\ r < q => status[q] = "absent"
  /\ \A a \in Attempts : rowLock[r] = a =>
       attempt[a].pc \in {"selected", "read"} \/ Marking(a, r)

\* What an attempt picked fits the cap and is the oldest that is admitted.
PickedOK(a) ==
  /\ attempt[a].pc = "counted" =>
       Cardinality(OfStatus("running")) <= attempt[a].running
  /\ attempt[a].pc \in {"selected", "read", "start", "mark", "marking"} =>
       Cardinality(OfStatus("running") \cup attempt[a].picked) <= MaxInflight
  /\ \A r \in attempt[a].picked :
       /\ status[r] # "absent"
       /\ \A q \in OfStatus("admitted") : q < r => q \in attempt[a].picked

Calm ==
  /\ InflightCap
  /\ \A a \in Attempts : SoloOK(a) /\ PickedOK(a)
  /\ \A r \in Runs : RowOK(r)

CalmInv == IInv /\ (faults = 0 => Calm)

-----------------------------------------------------------------------------
(* The oldest of a set.                                                     *)

\* A set of the case's runs is finite.
LEMMA RunsFinite == ASSUME NEW S \in SUBSET Runs PROVE IsFiniteSet(S)
<1>1. IsFiniteSet(Runs)
  BY FS_Interval, RunsAssumption DEF Runs
<1> QED
  BY <1>1, FS_Subset

\* The n oldest of a set of runs are at most n, and an older member of the set is
\* one of them too.
LEMMA OldestFits ==
  ASSUME NEW n \in Nat, NEW S \in SUBSET Runs
  PROVE  /\ Cardinality(OldestOf(n, S)) <= n
         /\ \A r \in OldestOf(n, S), q \in S : q < r => q \in OldestOf(n, S)
<1> DEFINE Below(r) == {q \in S : q < r}
           T == OldestOf(n, S)
           f == [r \in T |-> Cardinality(Below(r))]
<1>1. IsFiniteSet(S)
  BY RunsFinite
<1>2. \A r \in S : IsFiniteSet(Below(r)) /\ Cardinality(Below(r)) \in Nat
  BY <1>1, FS_Subset, FS_CardinalityType
<1>3. ASSUME NEW r \in S, NEW q \in S, q < r
      PROVE  Cardinality(Below(q)) < Cardinality(Below(r))
  <2>1. q \in Int /\ r \in Int /\ \A p \in S : p \in Int
    BY DEF Runs
  <2>2. q \in Below(r) /\ q \notin Below(q) /\ Below(q) \in SUBSET Below(r)
    <3>1. q < r /\ ~(q < q)
      BY <1>3, <2>1
    <3>2. \A p \in S : p < q => p < r
      BY <2>1, <3>1
    <3> QED
      BY <3>1, <3>2
  <2>3. /\ Cardinality(Below(q)) <= Cardinality(Below(r))
        /\ Cardinality(Below(q)) # Cardinality(Below(r))
    BY <1>2, <2>2, FS_Subset
  <2> QED
    BY <1>2, <2>3
<1>4. f \in Injection(T, 0 .. (n - 1))
  <2>1. f \in [T -> 0 .. (n - 1)]
    BY <1>2 DEF OldestOf
  <2>2. ASSUME NEW r \in T, NEW q \in T, f[r] = f[q] PROVE r = q
    <3>1. r \in S /\ q \in S /\ r \in Int /\ q \in Int
      BY DEF OldestOf, Runs
    <3> QED
      BY <1>2, <1>3, <2>2, <3>1
  <2> HIDE DEF f, T
  <2> QED
    BY <2>1, <2>2 DEF Injection, IsInjective
<1>5. IsFiniteSet(0 .. (n - 1)) /\ Cardinality(0 .. (n - 1)) = n
  BY FS_Interval
<1>6. Cardinality(T) <= n
  <2> HIDE DEF f, T
  <2> QED BY <1>4, <1>5, FS_Injection
<1>7. \A r \in T, q \in S : q < r => q \in T
  BY <1>2, <1>3 DEF OldestOf
<1> QED
  BY <1>6, <1>7

\* Fewer rows do not count for more.
LEMMA FewerRows ==
  ASSUME NEW S \in SUBSET Runs, NEW T \in SUBSET S
  PROVE  Cardinality(T) <= Cardinality(S) /\ Cardinality(T) \in Nat
<1>1. IsFiniteSet(S)
  BY RunsFinite
<1> QED
  BY <1>1, FS_Subset, FS_CardinalityType

\* The running rows and what was picked into the free slots fit the cap.
LEMMA SlotsFit ==
  ASSUME NEW S \in SUBSET Runs, NEW T \in SUBSET Runs, NEW n \in Nat,
         Cardinality(S) <= n, Cardinality(S) <= MaxInflight,
         Cardinality(T) <= Slots(n)
  PROVE  Cardinality(S \cup T) <= MaxInflight
<1>1. IsFiniteSet(S) /\ IsFiniteSet(T)
  BY RunsFinite
<1>2. /\ Cardinality(S) \in Nat /\ Cardinality(T) \in Nat
      /\ Cardinality(S \cap T) \in Nat
  BY <1>1, FS_CardinalityType, FS_Intersection
<1>3. Cardinality(S \cup T) = Cardinality(S) + Cardinality(T) - Cardinality(S \cap T)
  BY <1>1, FS_Union
<1> QED
  BY <1>2, <1>3, CapAssumption DEF Slots

-----------------------------------------------------------------------------
(* Steps as long as nothing fails.                                          *)

\* The places where an attempt has picked its runs.
Picked == {"selected", "read", "start", "mark", "marking"}

\* An attempt that only lets go of runs that need not start, while no other run
\* starts, stays right.
LEMMA PickedKept ==
  ASSUME TypeOK, TypeOK', Calm, NEW a \in Attempts,
         \A r \in Runs : /\ status'[r] = "admitted" => status[r] \in {"absent", "admitted"}
                         /\ status[r] # "absent" => status'[r] # "absent",
         attempt'[a].picked \subseteq attempt[a].picked,
         \A r \in attempt[a].picked :
           r \in attempt'[a].picked \/ status'[r] # "admitted",
         attempt'[a].pc = "counted" =>
           /\ attempt[a].pc = "counted" /\ attempt'[a].running = attempt[a].running
           /\ OfStatus("running")' \subseteq OfStatus("running"),
         attempt'[a].pc \in Picked =>
           /\ attempt[a].pc \in Picked
           /\ OfStatus("running")' \subseteq OfStatus("running") \cup attempt[a].picked
  PROVE  PickedOK(a)'
<1>1. PickedOK(a) /\ \A r \in Runs : RowOK(r)
  BY DEF Calm
<1>2. attempt[a] \in AttemptType /\ attempt'[a] \in AttemptType
  BY DEF TypeOK
<1>3. attempt'[a].pc = "counted" =>
        Cardinality(OfStatus("running")') <= attempt'[a].running
  <2> SUFFICES ASSUME attempt'[a].pc = "counted"
               PROVE  Cardinality(OfStatus("running")') <= attempt'[a].running
    OBVIOUS
  <2>1. OfStatus("running") \in SUBSET Runs
    BY DEF OfStatus
  <2>2. /\ Cardinality(OfStatus("running")') <= Cardinality(OfStatus("running"))
        /\ Cardinality(OfStatus("running")') \in Nat
        /\ Cardinality(OfStatus("running")) \in Nat
    BY <2>1, FewerRows
  <2>3. attempt[a].running \in Nat
    BY <1>2, RunsAssumption DEF AttemptType
  <2> QED
    BY <1>1, <2>2, <2>3 DEF PickedOK
<1>4. attempt'[a].pc \in Picked =>
        Cardinality(OfStatus("running")' \cup attempt'[a].picked) <= MaxInflight
  <2> SUFFICES ASSUME attempt'[a].pc \in Picked
               PROVE  Cardinality(OfStatus("running")' \cup attempt'[a].picked)
                        <= MaxInflight
    OBVIOUS
  <2> DEFINE S == OfStatus("running") \cup attempt[a].picked
             T == OfStatus("running")' \cup attempt'[a].picked
  <2>1. S \in SUBSET Runs /\ T \in SUBSET S
    BY <1>2 DEF OfStatus, AttemptType
  <2>2. Cardinality(S) <= MaxInflight
    BY <1>1 DEF PickedOK, Picked
  <2> HIDE DEF S, T
  <2>3. Cardinality(T) <= Cardinality(S) /\ Cardinality(T) \in Nat
        /\ Cardinality(S) \in Nat
    BY <2>1, FewerRows
  <2>4. Cardinality(T) <= MaxInflight
    BY <2>2, <2>3, CapAssumption
  <2> QED
    BY <2>4 DEF T
<1>5. ASSUME NEW r \in attempt'[a].picked
      PROVE  /\ status'[r] # "absent"
             /\ \A q \in OfStatus("admitted")' : q < r => q \in attempt'[a].picked
  <2>1. r \in attempt[a].picked /\ r \in Runs
    BY <1>2 DEF AttemptType
  <2>2. status'[r] # "absent" /\ status[r] # "absent"
    BY <1>1, <2>1 DEF PickedOK
  <2>3. ASSUME NEW q \in Runs, status'[q] = "admitted", q < r
        PROVE  q \in attempt'[a].picked
    <3>1. status[q] = "admitted"
      BY <1>1, <2>1, <2>2, <2>3 DEF RowOK
    <3>2. q \in attempt[a].picked
      BY <1>1, <2>1, <2>3, <3>1 DEF PickedOK, OfStatus
    <3> QED
      BY <2>3, <3>2
  <2> QED
    BY <2>2, <2>3 DEF OfStatus
<1> QED
  BY <1>3, <1>4, <1>5 DEF PickedOK, Picked

\* The cap holds as long as only picked runs start.
LEMMA CapKept ==
  ASSUME TypeOK, Calm,
         \/ OfStatus("running")' \subseteq OfStatus("running")
         \/ \E a \in Attempts :
              /\ attempt[a].pc \in Picked
              /\ OfStatus("running")' \subseteq OfStatus("running") \cup attempt[a].picked
  PROVE  InflightCap'
<1>1. ASSUME NEW S \in SUBSET Runs, Cardinality(S) <= MaxInflight,
             OfStatus("running")' \subseteq S
      PROVE  Cardinality(OfStatus("running")') <= MaxInflight
  <2>1. /\ Cardinality(OfStatus("running")') <= Cardinality(S)
        /\ Cardinality(OfStatus("running")') \in Nat
    BY <1>1, FewerRows
  <2>2. Cardinality(S) \in Nat
    BY FewerRows
  <2> QED
    BY <1>1, <2>1, <2>2, CapAssumption
<1>2. OfStatus("running") \in SUBSET Runs
  BY DEF OfStatus
<1>3. CASE OfStatus("running")' \subseteq OfStatus("running")
  BY <1>1, <1>2, <1>3 DEF Calm, InflightCap
<1>4. ASSUME NEW a \in Attempts, attempt[a].pc \in Picked,
             OfStatus("running")' \subseteq OfStatus("running") \cup attempt[a].picked
      PROVE  InflightCap'
  <2>1. attempt[a].picked \in SUBSET Runs
    BY DEF TypeOK, AttemptType
  <2>2. Cardinality(OfStatus("running") \cup attempt[a].picked) <= MaxInflight
    BY <1>4 DEF Calm, PickedOK, Picked
  <2> QED
    BY <1>1, <1>2, <1>4, <2>1, <2>2 DEF InflightCap
<1> QED
  BY <1>3, <1>4

\* Queueing, poking and the controller.
LEMMA CalmPokers ==
  ASSUME IInv, TypeOK', Calm, faults = 0, faults' = 0, PokerNext \/ ControllerNext
  PROVE  Calm'
<1>1. TypeOK /\ InflightCap /\ \A r \in Runs : RowOK(r)
  BY DEF IInv, Calm
<1>2. \A a \in Attempts : a # Nobody /\ SoloOK(a)
  BY HoldersAssumption DEF Calm
<1> USE DEF rows, SetStatus, SetFlow
<1>3. CASE QueueRun
  <2>1. PICK r \in Runs : /\ status[r] = "absent"
                          /\ \A q \in Runs : status[q] = "absent" => r <= q
                          /\ status' = [status EXCEPT ![r] = "admitted"]
    BY <1>3 DEF QueueRun, OfStatus
  <2>2. UNCHANGED <<rowLock, caseLock, flow, attempt, ctl, faults>>
    BY <1>3 DEF QueueRun
  <2>3. \A q \in Runs : RowOK(q)'
    BY <1>1, <2>1, <2>2 DEF TypeOK, RowOK, Marking, IsNext, Runs
  <2>4. \A a \in Attempts : SoloOK(a)'
    BY <1>2, <2>2 DEF SoloOK
  <2>5. OfStatus("running")' \subseteq OfStatus("running")
    BY <1>1, <2>1 DEF OfStatus, TypeOK
  <2>6. ASSUME NEW a \in Attempts PROVE PickedOK(a)'
    BY <1>1, <2>1, <2>2, <2>5, PickedKept DEF TypeOK, OfStatus
  <2>7. InflightCap'
    BY <1>1, <2>5, CapKept
  <2> QED
    BY <2>3, <2>4, <2>6, <2>7 DEF Calm
<1>4. CASE /\ UNCHANGED <<status, rowLock, flow, attempt>>
           /\ \A a \in Attempts : SoloOK(a)'
  <2>1. OfStatus("running")' = OfStatus("running")
    BY <1>4 DEF OfStatus
  <2>2. \A r \in Runs : RowOK(r)'
    BY <1>1, <1>4 DEF RowOK, Marking, IsNext
  <2>3. ASSUME NEW a \in Attempts PROVE PickedOK(a)'
    BY <1>1, <1>4, <2>1, PickedKept
  <2>4. InflightCap'
    BY <1>1, <2>1, CapKept
  <2> QED
    BY <1>4, <2>2, <2>3, <2>4 DEF Calm
<1>5. CASE EndBatch \/ RecoveryScan
  BY <1>2, <1>4, <1>5 DEF EndBatch, RecoveryScan, SoloOK
<1>6. ASSUME NEW p \in Pokers, PokeStarts(p) \/ PokeSignals(p) \/ PokeFails(p)
      PROVE  Calm'
  <2>1. ~PokeFails(p)
    BY DEF PokeFails, Fault
  <2>2. UNCHANGED <<status, rowLock, flow, attempt>>
    BY <1>6 DEF PokeStarts, PokeSignals, PokeFails
  <2>3. ctl' = ctl \/ (ctl.state # "activity" /\ ctl' = NewCycle)
    BY <1>6, <2>1 DEF PokeStarts, PokeSignals, ControllerOpen
  <2>4. \A a \in Attempts : SoloOK(a)'
    BY <1>2, <2>2, <2>3 DEF SoloOK, NewCycle
  <2> QED
    BY <1>4, <2>2, <2>4
<1>7. CASE ControllerTimeout \/ ControllerLosesAttempt \/ ControllerWakes
  <2>1. ~ControllerTimeout
    BY DEF ControllerTimeout, Fault
  <2>2. ~ControllerLosesAttempt
    BY <1>1, <1>2 DEF ControllerLosesAttempt, SoloOK, TypeOK, ControllerType
  <2>3. ctl.state = "waiting" /\ ctl' = NewCycle
        /\ UNCHANGED <<status, rowLock, flow, attempt>>
    BY <1>7, <2>1, <2>2 DEF ControllerWakes
  <2>4. \A a \in Attempts : SoloOK(a)'
    BY <1>2, <2>3 DEF SoloOK, NewCycle
  <2> QED
    BY <1>4, <2>3, <2>4
<1>8. ASSUME NEW a \in Attempts, ControllerClaims(a) PROVE Calm'
  <2>1. /\ UNCHANGED <<status, rowLock, flow>>
        /\ attempt[a].pc = "idle" /\ attempt' = [attempt EXCEPT ![a].pc = "lock"]
        /\ ctl.state = "activity" /\ ctl.by = Nobody /\ ctl' = [ctl EXCEPT !.by = a]
    BY <1>8 DEF ControllerClaims
  <2>2. \A b \in Attempts :
          /\ attempt[b].pc = "idle" /\ attempt'[b].picked = attempt[b].picked
          /\ attempt'[b].pc = IF b = a THEN "lock" ELSE "idle"
    BY <1>1, <1>2, <2>1 DEF SoloOK, TypeOK, AttemptType
  <2>3. ctl'.by = a /\ ctl'.state = "activity"
    BY <1>1, <2>1 DEF TypeOK, ControllerType
  <2>4. \A b \in Attempts : SoloOK(b)'
    BY <2>2, <2>3 DEF SoloOK
  <2>5. OfStatus("running")' = OfStatus("running")
    BY <2>1 DEF OfStatus
  <2>6. \A r \in Runs : RowOK(r)'
    BY <1>1, <2>1, <2>2 DEF RowOK, Marking
  <2>7. ASSUME NEW b \in Attempts PROVE PickedOK(b)'
    <3>1. attempt'[b].pc # "counted" /\ attempt'[b].pc \notin Picked
      BY <2>2 DEF Picked
    <3> QED
      BY <1>1, <2>1, <2>2, <3>1, PickedKept
  <2>8. InflightCap'
    BY <1>1, <2>5, CapKept
  <2> QED
    BY <2>4, <2>6, <2>7, <2>8 DEF Calm
<1> QED
  BY <1>3, <1>5, <1>6, <1>7, <1>8 DEF PokerNext, ControllerNext

\* While an attempt is at work no other is, and only what it marks has a
\* workflow while its row is admitted.
LEMMA WorksAlone ==
  ASSUME IInv, Calm, NEW a \in Attempts, attempt[a].pc # "idle"
  PROVE  /\ ctl.by = a /\ ctl.state = "activity"
         /\ \A b \in Attempts : b # a => attempt[b].pc = "idle"
         /\ \A r \in Runs :
              /\ status[r] = "admitted" /\ flow[r] # "none" => Marking(a, r)
              /\ \A b \in Attempts : rowLock[r] = b =>
                   b = a /\ (attempt[a].pc \in {"selected", "read"} \/ Marking(a, r))
              /\ rowLock[r] = "node" => Marking(a, r)
<1>1. ctl.by = a /\ ctl.state = "activity"
  BY DEF Calm, SoloOK
<1>2. \A b \in Attempts : b # a => attempt[b].pc = "idle"
  BY <1>1 DEF Calm, SoloOK
<1>3. ASSUME NEW r \in Runs
      PROVE  /\ status[r] = "admitted" /\ flow[r] # "none" => Marking(a, r)
             /\ \A b \in Attempts : rowLock[r] = b =>
                   b = a /\ (attempt[a].pc \in {"selected", "read"} \/ Marking(a, r))
  <2>1. RowOK(r)
    BY DEF Calm
  <2>2. \A b \in Attempts : Marking(b, r) => b = a
    BY <1>2 DEF Marking
  <2> QED
    BY <1>2, <2>1, <2>2 DEF RowOK
<1>4. \A r \in Runs : rowLock[r] = "node" => Marking(a, r)
  BY <1>3 DEF IInv, FlowOK
<1> QED
  BY <1>1, <1>2, <1>3, <1>4

\* A step of an attempt that goes on keeps it the only one.
LEMMA SoloKept ==
  ASSUME IInv, Calm, NEW a \in Attempts, attempt[a].pc # "idle",
         attempt'[a].pc # "idle", ctl' = ctl,
         \A b \in Attempts : b # a => attempt'[b] = attempt[b]
  PROVE  \A b \in Attempts : SoloOK(b)'
BY WorksAlone DEF SoloOK

\* An idle attempt is not disturbed by what another does.
LEMMA IdleKept ==
  ASSUME IInv, TypeOK', Calm, NEW a \in Attempts, attempt[a].pc # "idle",
         NEW b \in Attempts, b # a, attempt'[b] = attempt[b],
         \A r \in Runs : /\ status'[r] = "admitted" => status[r] \in {"absent", "admitted"}
                         /\ status[r] # "absent" => status'[r] # "absent"
  PROVE  PickedOK(b)'
<1>1. attempt'[b].pc \notin Picked /\ attempt'[b].pc # "counted"
  BY WorksAlone DEF Picked
<1>2. TypeOK
  BY DEF IInv
<1> QED
  BY <1>1, <1>2, PickedKept

\* The transaction of an attempt.
LEMMA CalmSelects ==
  ASSUME IInv, TypeOK', Calm, faults = 0, faults' = 0, NEW a \in Attempts,
         \/ CountRunning(a) \/ SelectAdmitted(a) \/ ReadQueued(a)
         \/ ReadActiveAndCommit(a) \/ AttemptReturns(a)
  PROVE  Calm'
<1>1. /\ TypeOK /\ InflightCap /\ PickedOK(a) /\ \A r \in Runs : RowOK(r)
      /\ a # Nobody /\ attempt[a] \in AttemptType
  BY HoldersAssumption DEF IInv, Calm, TypeOK
<1>2. /\ attempt[a].pc \in {"lock", "counted", "selected", "read", "start"}
      /\ UNCHANGED <<status, flow>>
  BY DEF CountRunning, SelectAdmitted, ReadQueued, ReadActiveAndCommit,
         AttemptReturns, rows
<1>3. \A b \in Attempts : b # a => attempt'[b] = attempt[b]
  BY <1>1 DEF CountRunning, SelectAdmitted, ReadQueued, ReadActiveAndCommit,
              AttemptReturns, To, TypeOK
<1>4. \A b \in Attempts : b # a => attempt[b].pc = "idle" /\ PickedOK(b)'
  BY <1>2, <1>3, WorksAlone, IdleKept
<1>5. /\ \A r \in Runs : status[r] = "admitted" => flow[r] = "none"
      /\ \A r \in Runs : rowLock[r] # Nobody =>
           rowLock[r] = a /\ attempt[a].pc \in {"selected", "read"}
  <2>1. \A r \in Runs : ~Marking(a, r)
    BY <1>2 DEF Marking
  <2> QED
    BY <1>1, <1>2, <2>1, WorksAlone DEF TypeOK
<1>6. OfStatus("running")' = OfStatus("running") /\ InflightCap'
  BY <1>1, <1>2, CapKept DEF OfStatus
<1>7. ASSUME \A r \in Runs, b \in Attempts : rowLock'[r] = b =>
               b = a /\ attempt'[a].pc \in {"selected", "read"}
      PROVE  \A r \in Runs : RowOK(r)'
  BY <1>1, <1>2, <1>5, <1>7 DEF RowOK
<1>8. CASE CountRunning(a)
  <2> DEFINE n == Cardinality(OfStatus("running"))
  <2>1. attempt' = [attempt EXCEPT ![a] = [attempt[a] EXCEPT !.pc = "counted",
                                                             !.running = n]]
        /\ attempt[a].pc = "lock" /\ UNCHANGED <<rowLock, ctl>>
    BY <1>8 DEF CountRunning, To
  <2>2. /\ attempt'[a].pc = "counted" /\ attempt'[a].running = n
        /\ attempt'[a].picked = attempt[a].picked
    <3> HIDE DEF n
    <3> QED BY <1>1, <2>1 DEF TypeOK, AttemptType
  <2>3. PickedOK(a)'
    <3>1. n \in Nat
      BY FewerRows DEF OfStatus
    <3>2. OfStatus("admitted")' = OfStatus("admitted")
      BY <1>2 DEF OfStatus
    <3> QED
      BY <1>1, <1>2, <1>6, <2>2, <3>1, <3>2 DEF PickedOK
  <2>4. \A b \in Attempts : SoloOK(b)'
    BY <1>2, <1>3, <2>1, <2>2, SoloKept
  <2>5. \A r \in Runs : RowOK(r)'
    BY <1>5, <1>7, <2>1, HoldersAssumption
  <2> QED
    BY <1>4, <1>6, <2>3, <2>4, <2>5 DEF Calm
<1>9. CASE SelectAdmitted(a)
  <2> DEFINE free == OfStatus("admitted")
             n == Slots(attempt[a].running)
             chosen == OldestOf(n, free)
  <2>1. attempt[a].pc = "counted" /\ \A r \in Runs : rowLock[r] = Nobody
    BY <1>5, <1>9 DEF SelectAdmitted
  <2>2. {r \in OfStatus("admitted") : rowLock[r] = Nobody} = free
    BY <2>1 DEF OfStatus
  <2>3. /\ rowLock' = [r \in Runs |-> IF r \in chosen THEN a ELSE rowLock[r]]
        /\ To(a, [attempt[a] EXCEPT !.pc = "selected", !.running = 0,
                                    !.picked = chosen])
        /\ ctl' = ctl
    BY <1>9, <2>2 DEF SelectAdmitted
  <2>4. /\ attempt'[a].pc = "selected" /\ attempt'[a].picked = chosen
    <3> HIDE DEF chosen
    <3> QED BY <1>1, <2>3 DEF TypeOK, AttemptType, To
  <2>5. attempt[a].running \in Nat /\ n \in Nat
    BY <1>1, RunsAssumption, CapAssumption DEF AttemptType, Slots
  <2>6. free \in SUBSET Runs /\ chosen \in SUBSET free
    BY DEF OfStatus, OldestOf
  <2>7. Cardinality(chosen) <= n /\ \A r \in chosen, q \in free : q < r => q \in chosen
    BY <2>5, <2>6, OldestFits
  <2>8. Cardinality(OfStatus("running") \cup chosen) <= MaxInflight
    <3>1. OfStatus("running") \in SUBSET Runs /\ chosen \in SUBSET Runs
      BY <2>6 DEF OfStatus
    <3>2. /\ Cardinality(OfStatus("running")) <= attempt[a].running
          /\ Cardinality(OfStatus("running")) <= MaxInflight
      BY <1>1, <2>1 DEF PickedOK, InflightCap
    <3> HIDE DEF chosen
    <3> QED
      BY <2>5, <2>7, <3>1, <3>2, SlotsFit
  <2>9. PickedOK(a)'
    <3>1. OfStatus("admitted")' = free /\ \A r \in chosen : status'[r] # "absent"
      BY <1>2, <2>6 DEF OfStatus
    <3> HIDE DEF chosen, free
    <3> QED
      BY <1>6, <2>4, <2>7, <2>8, <3>1 DEF PickedOK
  <2>10. \A b \in Attempts : SoloOK(b)'
    BY <1>2, <1>3, <2>3, <2>4, SoloKept
  <2>11. \A r \in Runs : RowOK(r)'
    <3>1. \A r \in Runs, b \in Attempts : rowLock'[r] = b => b = a
      BY <2>1, <2>3, HoldersAssumption
    <3> QED
      BY <1>7, <2>4, <3>1
  <2> QED
    BY <1>4, <1>6, <2>9, <2>10, <2>11 DEF Calm
<1>10. CASE ReadQueued(a) \/ ReadActiveAndCommit(a)
  <2>1. /\ attempt[a].pc \in {"selected", "read"} /\ ctl' = ctl
        /\ \/ attempt'[a].pc = "read" /\ rowLock' = rowLock
           \/ attempt'[a].pc = "start" /\ rowLock' = Unlocked(a)
        /\ attempt'[a].picked = attempt[a].picked
    <3>1. CASE ReadQueued(a)
      <4>1. To(a, [attempt[a] EXCEPT !.pc = "read",
                                     !.idle = OfStatus("admitted") = {}])
        BY <3>1 DEF ReadQueued
      <4>2. attempt'[a] = [attempt[a] EXCEPT !.pc = "read",
                                             !.idle = OfStatus("admitted") = {}]
        BY <1>1, <4>1 DEF To, TypeOK
      <4>3. attempt'[a].pc = "read" /\ attempt'[a].picked = attempt[a].picked
        BY <1>1, <4>2, Zenon DEF AttemptType
      <4> QED
        BY <3>1, <4>3 DEF ReadQueued, rows
    <3>2. CASE ReadActiveAndCommit(a)
      <4>1. To(a, [attempt[a] EXCEPT !.pc = "start", !.idle = @ /\ ActiveRuns = {}])
        BY <3>2 DEF ReadActiveAndCommit, Fault
      <4>2. attempt'[a] = [attempt[a] EXCEPT !.pc = "start",
                                             !.idle = @ /\ ActiveRuns = {}]
        BY <1>1, <4>1 DEF To, TypeOK
      <4>3. attempt'[a].pc = "start" /\ attempt'[a].picked = attempt[a].picked
        BY <1>1, <4>2, Zenon DEF AttemptType
      <4> QED
        BY <3>2, <4>3 DEF ReadActiveAndCommit
    <3> QED
      BY <1>10, <3>1, <3>2
  <2>2. PickedOK(a)'
    BY <1>1, <1>2, <1>6, <2>1, PickedKept DEF Picked
  <2>3. \A b \in Attempts : SoloOK(b)'
    BY <1>2, <1>3, <2>1, SoloKept
  <2>4. \A r \in Runs : RowOK(r)'
    BY <1>5, <1>7, <2>1, HoldersAssumption DEF Unlocked
  <2> QED
    BY <1>4, <1>6, <2>2, <2>3, <2>4 DEF Calm
<1>11. CASE AttemptReturns(a)
  <2>1. /\ attempt[a].picked = {} /\ rowLock' = rowLock /\ attempt[a].pc = "start"
        /\ To(a, IdleAttempt) /\ ctl.by = a /\ ctl.state = "activity"
    BY <1>2, <1>11, WorksAlone DEF AttemptReturns, rows
  <2>2. attempt'[a].pc = "idle" /\ attempt'[a].picked = {}
    BY <1>1, <2>1 DEF To, TypeOK, IdleAttempt
  <2>3. ctl'.by = Nobody
    BY <1>1, <1>11, <2>1 DEF AttemptReturns, TypeOK, ControllerType
  <2>4. PickedOK(a)'
    BY <2>2 DEF PickedOK
  <2>5. \A b \in Attempts : SoloOK(b)'
    BY <1>3, <1>4, <2>2, <2>3, HoldersAssumption DEF SoloOK
  <2>6. \A r \in Runs : RowOK(r)'
    BY <1>5, <1>7, <2>1, HoldersAssumption
  <2> QED
    BY <1>4, <1>6, <2>4, <2>5, <2>6 DEF Calm
<1> QED
  BY <1>8, <1>9, <1>10, <1>11

\* Starting and marking what was picked.
LEMMA CalmStarts ==
  ASSUME IInv, TypeOK', Calm, faults = 0, faults' = 0, NEW a \in Attempts,
         NEW r \in Runs, StartRun(a, r) \/ MarkBegin(a, r) \/ MarkCommit(a, r)
  PROVE  Calm'
<1>1. /\ TypeOK /\ PickedOK(a) /\ a # Nobody /\ attempt[a] \in AttemptType
      /\ \A q \in Runs : RowOK(q)
  BY HoldersAssumption DEF IInv, Calm, TypeOK
<1>2. /\ attempt[a].pc \in {"start", "mark", "marking"} /\ IsNext(a, r)
      /\ ctl' = ctl /\ r \in attempt[a].picked
  BY DEF StartRun, MarkBegin, MarkCommit, IsNext
<1>3. /\ \A q \in Runs : IsNext(a, q) => q = r
      /\ status[r] # "absent"
  BY <1>1, <1>2, NextIsUnique DEF PickedOK
<1>4. /\ \A b \in Attempts : b # a => attempt'[b] = attempt[b]
      /\ attempt'[a].pc \in {"start", "mark", "marking"}
      /\ \/ attempt'[a].picked = attempt[a].picked
         \/ /\ attempt'[a].picked = attempt[a].picked \ {r}
            /\ status'[r] # "admitted" /\ attempt'[a].pc = "start"
      /\ \A q \in Runs : \/ status'[q] = status[q]
                         \/ q = r /\ status'[q] = "running"
  <2>1. \/ /\ To(a, [attempt[a] EXCEPT !.pc = "mark"]) \/ To(a, [attempt[a] EXCEPT !.pc = "marking"])
           /\ status' = status
        \/ /\ Started(a, r) /\ status'[r] # "admitted"
           /\ status' = status \/ status' = [status EXCEPT ![r] = "running"]
    BY <1>1 DEF StartRun, MarkBegin, MarkCommit, Fault, SetStatus, TypeOK, rows
  <2>2. Started(a, r) => /\ \A b \in Attempts : b # a => attempt'[b] = attempt[b]
                         /\ attempt'[a].pc = "start"
                         /\ attempt'[a].picked = attempt[a].picked \ {r}
    BY <1>1 DEF Started, To, TypeOK, AttemptType
  <2>3. ASSUME NEW p \in {"mark", "marking"}, To(a, [attempt[a] EXCEPT !.pc = p])
        PROVE  /\ \A b \in Attempts : b # a => attempt'[b] = attempt[b]
               /\ attempt'[a].pc = p /\ attempt'[a].picked = attempt[a].picked
    BY <1>1, <2>3 DEF To, TypeOK, AttemptType
  <2>4. status' = [status EXCEPT ![r] = "running"] =>
          \A q \in Runs : status'[q] = status[q] \/ (q = r /\ status'[q] = "running")
    BY <1>1 DEF TypeOK
  <2> QED
    BY <2>1, <2>2, <2>3, <2>4
<1>5. /\ \A q \in Runs : status[q] = "admitted" /\ flow[q] # "none" =>
                           q = r /\ attempt[a].pc # "start"
      /\ \A q \in Runs, b \in Attempts : rowLock[q] = b =>
           b = a /\ q = r /\ attempt[a].pc # "start"
  BY <1>2, <1>3, WorksAlone DEF Marking
<1>6. OfStatus("running")' \subseteq OfStatus("running") \cup attempt[a].picked
  BY <1>2, <1>4 DEF OfStatus
<1>7. InflightCap'
  BY <1>1, <1>2, <1>6, CapKept DEF Picked
<1>8. \A b \in Attempts : SoloOK(b)'
  BY <1>2, <1>4, SoloKept
<1>9. \A b \in Attempts : b # a => PickedOK(b)'
  BY <1>2, <1>4, IdleKept
<1>10. PickedOK(a)'
  BY <1>1, <1>2, <1>4, <1>6, PickedKept DEF Picked
<1>11. ASSUME NEW q \in Runs PROVE RowOK(q)'
  <2>1. CASE StartRun(a, r)
    <3>1. /\ flow' = [flow EXCEPT ![r] = "open"] /\ attempt'[a].pc = "mark"
          /\ attempt'[a].picked = attempt[a].picked /\ attempt[a].pc = "start"
          /\ status' = status /\ rowLock' = rowLock
      BY <1>1, <2>1 DEF StartRun, Fault, To, SetFlow, TypeOK, AttemptType, rows
    <3>2. Marking(a, r)'
      BY <1>2, <3>1 DEF Marking, IsNext
    <3> QED
      BY <1>1, <1>3, <1>5, <3>1, <3>2 DEF RowOK, TypeOK
  <2>2. CASE MarkBegin(a, r) /\ status[r] = "admitted"
    <3>1. /\ rowLock' = [rowLock EXCEPT ![r] = a] /\ attempt'[a].pc = "marking"
          /\ attempt'[a].picked = attempt[a].picked
          /\ status' = status /\ flow' = flow
      BY <1>1, <2>2 DEF MarkBegin, Fault, To, TypeOK, AttemptType
    <3>2. Marking(a, r)'
      BY <1>2, <3>1 DEF Marking, IsNext
    <3> QED
      BY <1>1, <1>3, <1>5, <3>1, <3>2 DEF RowOK, TypeOK
  <2>3. CASE MarkBegin(a, r) /\ status[r] # "admitted"
    <3>1. /\ rowLock' = rowLock /\ status' = status /\ flow' = flow
          /\ rowLock[r] = Nobody
      BY <2>3 DEF MarkBegin, Fault
    <3> QED
      BY <1>1, <1>3, <1>5, <2>3, <3>1, HoldersAssumption DEF RowOK
  <2>4. CASE MarkCommit(a, r)
    <3>1. /\ status' = [status EXCEPT ![r] = "running"] /\ flow' = flow
          /\ rowLock' = [rowLock EXCEPT ![r] = Nobody]
      BY <2>4 DEF MarkCommit, SetStatus
    <3> QED
      BY <1>1, <1>3, <1>5, <3>1, HoldersAssumption DEF RowOK, TypeOK
  <2> QED
    BY <2>1, <2>2, <2>3, <2>4
<1> QED
  BY <1>7, <1>8, <1>9, <1>10, <1>11 DEF Calm

\* What happens to a run outside admission.
LEMMA CalmRuns ==
  ASSUME IInv, TypeOK', Calm, faults = 0, faults' = 0, NEW r \in Runs, RunNext(r)
  PROVE  Calm'
<1>1. /\ TypeOK /\ FlowOK /\ \A q \in Runs : RowOK(q)
      /\ \A a \in Attempts : SoloOK(a) /\ PickedOK(a) /\ a # Nobody /\ a # "node"
  BY HoldersAssumption DEF IInv, Calm
<1>2. /\ attempt' = attempt /\ ctl' = ctl /\ status[r] # "absent"
      /\ \A q \in Runs \ {r} : /\ flow'[q] = flow[q] /\ status'[q] = status[q]
                               /\ rowLock'[q] = rowLock[q]
  BY <1>1 DEF RunNext, NodeMarkBegin, NodeMarkCommit, CancelRun, RunEnds, TypeOK,
              SetStatus, SetFlow, FlowOK, Fault
<1>3. /\ status'[r] # "absent"
      /\ status'[r] = "admitted" => status[r] = "admitted" /\ flow'[r] = flow[r]
      /\ rowLock'[r] \in {Nobody, "node"}
      /\ status'[r] = "running" => status[r] = "running" \/ rowLock[r] = "node"
  BY <1>1, HoldersAssumption
  DEF RunNext, NodeMarkBegin, NodeMarkCommit, CancelRun, RunEnds, TypeOK,
      SetStatus, SetFlow, Fault
<1>4. \A q \in Runs, a \in Attempts : Marking(a, q)' <=> Marking(a, q)
  BY <1>2 DEF Marking, IsNext
<1>5. \A q \in Runs : RowOK(q)'
  BY <1>1, <1>2, <1>3, <1>4 DEF RowOK
<1>6. \A a \in Attempts : SoloOK(a)'
  BY <1>1, <1>2 DEF SoloOK
<1>7. ASSUME status'[r] = "running", status[r] # "running"
      PROVE  \E a \in Attempts : Marking(a, r)
  BY <1>1, <1>3, <1>7 DEF RowOK, FlowOK
<1>8. ASSUME NEW a \in Attempts, attempt[a].pc # "idle"
      PROVE  /\ OfStatus("running")' \subseteq OfStatus("running") \cup attempt[a].picked
             /\ attempt[a].pc = "counted" =>
                  OfStatus("running")' \subseteq OfStatus("running")
  <2>1. status'[r] = "running" /\ status[r] # "running" => Marking(a, r)
    BY <1>7, <1>8, WorksAlone DEF Marking
  <2> QED
    BY <1>2, <2>1 DEF OfStatus, Marking, IsNext
<1>9. ASSUME NEW a \in Attempts PROVE PickedOK(a)'
  <2>1. attempt[a].pc \in Picked \/ attempt[a].pc = "counted" => attempt[a].pc # "idle"
    BY DEF Picked
  <2> QED
    BY <1>1, <1>2, <1>3, <1>8, <2>1, PickedKept
<1>10. InflightCap'
  <2>1. CASE status'[r] = "running" /\ status[r] # "running"
    <3>1. PICK a \in Attempts : Marking(a, r)
      BY <1>7, <2>1
    <3> QED
      BY <1>1, <1>8, <3>1, CapKept DEF Marking, Picked
  <2>2. CASE ~(status'[r] = "running" /\ status[r] # "running")
    <3>1. OfStatus("running")' \subseteq OfStatus("running")
      BY <1>2, <2>2 DEF OfStatus
    <3> QED
      BY <1>1, <3>1, CapKept
  <2> QED
    BY <2>1, <2>2
<1> QED
  BY <1>5, <1>6, <1>9, <1>10 DEF Calm

\* Faults are not forgotten.
LEMMA NoFaultYet == Next /\ faults \in Nat /\ faults' = 0 => faults = 0
<1> SUFFICES ASSUME Next, faults \in Nat, faults' = 0 PROVE faults = 0
  OBVIOUS
<1>1. ~Fault
  BY DEF Fault
<1> QED
  BY <1>1
  DEF Next, PokerNext, ControllerNext, AttemptWork, RunNext, QueueRun, EndBatch,
      RecoveryScan, PokeStarts, PokeSignals, PokeFails, ControllerClaims,
      ControllerTimeout, ControllerLosesAttempt, ControllerWakes, WorkerCrash,
      ApiCrash, CountRunning, SelectAdmitted, ReadQueued, ReadActiveAndCommit,
      AttemptReturns, AttemptFails, StartRun, MarkBegin, MarkCommit,
      NodeMarkBegin, NodeMarkCommit, CancelRun, RunEnds

\* A step without a fault keeps calm what is calm.
LEMMA CalmStep == CalmInv /\ [Next]_vars => CalmInv'
<1> SUFFICES ASSUME CalmInv, [Next]_vars PROVE CalmInv'
  OBVIOUS
<1>1. IInv /\ IInv' /\ TypeOK /\ TypeOK'
  BY InvariantStep DEF CalmInv, IInv
<1>2. ASSUME faults' = 0 PROVE Calm'
  <2>1. CASE UNCHANGED vars
    <3>1. faults = 0 /\ Calm
      BY <1>2, <2>1 DEF CalmInv, vars
    <3>2. /\ OfStatus("running")' = OfStatus("running")
          /\ OfStatus("admitted")' = OfStatus("admitted")
      BY <2>1 DEF vars, OfStatus
    <3>3. InflightCap' /\ \A a \in Attempts : SoloOK(a)'
      BY <2>1, <3>1, <3>2 DEF vars, Calm, InflightCap, SoloOK
    <3>4. \A a \in Attempts : PickedOK(a)'
      BY <2>1, <3>1, <3>2 DEF vars, Calm, PickedOK
    <3>5. \A r \in Runs : RowOK(r)'
      BY <2>1, <3>1 DEF vars, Calm, RowOK, Marking, IsNext
    <3> QED
      BY <3>3, <3>4, <3>5 DEF Calm
  <2>2. CASE Next
    <3>1. faults = 0
      BY <1>1, <1>2, <2>2, NoFaultYet DEF TypeOK
    <3>2. ~Fault
      BY <1>2, <3>1 DEF Fault
    <3>3. Calm
      BY <3>1 DEF CalmInv
    <3>4. ~WorkerCrash /\ ~ApiCrash /\ \A a \in Attempts : ~AttemptFails(a)
      BY <3>2 DEF WorkerCrash, ApiCrash, AttemptFails
    <3>5. CASE PokerNext \/ ControllerNext
      BY <1>1, <1>2, <3>1, <3>3, <3>5, CalmPokers
    <3>6. ASSUME NEW a \in Attempts, AttemptWork(a) PROVE Calm'
      BY <1>1, <1>2, <3>1, <3>3, <3>6, CalmSelects, CalmStarts DEF AttemptWork
    <3>7. ASSUME NEW r \in Runs, RunNext(r) PROVE Calm'
      BY <1>1, <1>2, <3>1, <3>3, <3>7, CalmRuns
    <3> QED
      BY <2>2, <3>4, <3>5, <3>6, <3>7 DEF Next
  <2> QED
    BY <2>1, <2>2
<1> QED
  BY <1>1, <1>2 DEF CalmInv

\* A case without runs is calm.
LEMMA CalmInit == Init => CalmInv
<1> SUFFICES ASSUME Init PROVE IInv /\ Calm
  BY DEF CalmInv
<1>1. IInv
  BY InitInvariant
<1>2. OfStatus("running") = {}
  BY DEF Init, OfStatus
<1>3. InflightCap
  BY <1>2, FS_EmptySet, CapAssumption DEF InflightCap
<1>4. \A a \in Attempts : SoloOK(a) /\ PickedOK(a)
  BY HoldersAssumption DEF Init, SoloOK, PickedOK, IdleAttempt, NewCycle
<1>5. \A r \in Runs : RowOK(r)
  BY HoldersAssumption DEF Init, RowOK
<1> QED
  BY <1>1, <1>3, <1>4, <1>5 DEF Calm

-----------------------------------------------------------------------------
\* As long as nothing fails, for any number of runs, cap and threads: one attempt
\* at a time is at work, it marks what it has started, and what it has picked
\* is the oldest that is admitted and fits the cap.
THEOREM CalmInvariance == Spec => []CalmInv
BY CalmInit, CalmStep, PTL DEF Spec

\* As long as nothing fails the case never has more running rows than the cap,
\* although the rows are counted, locked and marked by separate statements and
\* runs end, are cancelled and mark themselves in between.
THEOREM CapKeptWithoutFaults == Spec => []CapWithoutFaults
<1>1. CalmInv => CapWithoutFaults
  BY DEF CalmInv, Calm, CapWithoutFaults
<1> QED
  BY <1>1, CalmInvariance, PTL

\* As long as nothing fails a row that starts to run is being marked by an attempt
\* or by its own workflow, which the attempt has started.
LEMMA MarkedRunsStart ==
  ASSUME IInv, Calm, faults = 0, faults' = 0, Next,
         NEW r \in Runs, status[r] = "admitted", status'[r] = "running"
  PROVE  \E a \in Attempts : IsNext(a, r)
<1>1. TypeOK
  BY DEF IInv
<1> USE DEF rows, SetStatus
<1>2. ASSUME UNCHANGED status PROVE FALSE
  BY <1>2
<1>3. ~PokerNext /\ ~ControllerNext /\ ~WorkerCrash /\ ~ApiCrash
  BY <1>1, <1>2
  DEF PokerNext, QueueRun, EndBatch, RecoveryScan, PokeStarts, PokeSignals, PokeFails,
      ControllerNext, ControllerClaims, ControllerTimeout, ControllerLosesAttempt,
      ControllerWakes, WorkerCrash, ApiCrash, OfStatus, TypeOK
<1>4. ASSUME NEW a \in Attempts, AttemptWork(a) \/ AttemptFails(a)
      PROVE  IsNext(a, r)
  <2>1. PICK q \in Runs : MarkCommit(a, q)
    BY <1>2, <1>4 DEF AttemptWork, AttemptFails, CountRunning, SelectAdmitted,
       ReadQueued, ReadActiveAndCommit, AttemptReturns, StartRun, MarkBegin
  <2>2. q = r
    BY <1>1, <2>1 DEF MarkCommit, TypeOK
  <2> QED
    BY <2>1, <2>2 DEF MarkCommit
<1>5. ASSUME NEW q \in Runs, RunNext(q) PROVE \E a \in Attempts : IsNext(a, r)
  <2>1. q = r /\ rowLock[r] = "node"
    BY <1>1, <1>5 DEF RunNext, NodeMarkBegin, NodeMarkCommit, CancelRun, RunEnds,
                      TypeOK
  <2>2. flow[r] # "none"
    BY <2>1 DEF IInv, FlowOK
  <2> QED
    BY <2>2 DEF Calm, RowOK, Marking
<1> QED
  BY <1>3, <1>4, <1>5 DEF Next

\* As long as nothing fails runs start in the order they were queued in, whether
\* the attempt or the run's own workflow marks the row: nothing is left behind
\* that was queued before what was picked.
THEOREM FirstQueuedFirstStarted == Spec => FifoWithoutFaults
<1>1. CalmInv /\ [Next]_vars =>
        [\A r \in OfStatus("admitted") :
           (faults' = 0 /\ status'[r] = "running")
              => \A q \in OfStatus("admitted") : r <= q]_vars
  <2> SUFFICES ASSUME CalmInv, Next, NEW r \in OfStatus("admitted"), faults' = 0,
                      status'[r] = "running", NEW q \in OfStatus("admitted")
               PROVE  r <= q
    BY DEF vars
  <2>1. IInv /\ faults \in Nat /\ r \in Runs /\ q \in Runs
    BY DEF CalmInv, IInv, TypeOK, OfStatus
  <2>2. faults = 0
    BY <2>1, NoFaultYet
  <2>3. PICK a \in Attempts : IsNext(a, r)
    BY <2>1, <2>2, MarkedRunsStart DEF CalmInv, OfStatus
  <2>4. q < r => q \in attempt[a].picked
    BY <2>2, <2>3 DEF CalmInv, Calm, PickedOK, IsNext
  <2> QED
    BY <2>1, <2>3, <2>4 DEF IsNext, Runs
<1> QED
  BY <1>1, CalmInvariance, PTL DEF Spec, FifoWithoutFaults
=============
