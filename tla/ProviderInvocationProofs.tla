----------------------- MODULE ProviderInvocationProofs -----------------------
(***************************************************************************)
(* The durable rows of a provider call keep PurchaseContract, only move    *)
(* forward, and are billed only for what was bought, for any number of     *)
(* threads, slots, runs, rows and faults.  Nothing of this rests on the    *)
(* limiter, whose bounds are proved in the last section.                   *)
(***************************************************************************)
EXTENDS ProviderInvocation, FiniteSetTheorems, SequenceTheorems, TLAPS

RowType == [st : DOMAIN Rank, run : 0..MaxRun, task : BOOLEAN, aged : BOOLEAN,
            payload : BOOLEAN, bills : Nat]
CopyType == [st : {"none"} \cup DOMAIN Rank, task : BOOLEAN, usage : Usages]
CallerType == [pc : Pcs, run : 0..MaxRun, at : 0..MaxRows, resume : BOOLEAN,
               result : {"none", "ok", "error", "kept"}, copy : [Rows -> CopyType]]

\* The types of what the gateway keeps.
CallTypes ==
  /\ row \in [Rows -> RowType] /\ live \in 0..MaxRows /\ accepted \in [Rows -> Nat]
  /\ caller \in [Callers -> CallerType] /\ lost \in SUBSET Rows

\* The rows are inserted one after the other; the last one holds the key.  Only
\* what was inserted can be lost.
Shape == /\ \A i \in Rows : row[i].st # "absent" <=> i <= live
         /\ \A i \in lost : i <= live

\* A row that waits for its submit has bought nothing; one that polls, or is billed,
\* has bought once; a row that polls has its task, and the result of a purchase is
\* billed with it.
RowOK(i) ==
  /\ row[i].st \in {"absent", "prepared"} => accepted[i] = 0
  /\ row[i].st = "polling" => accepted[i] = 1 /\ row[i].task
  /\ row[i].bills >= 1 => accepted[i] = 1
  /\ row[i].payload => row[i].bills >= 1 /\ row[i].st \in Terminal

\* Where a thread holds a row, and where it knows that the row's task was accepted.
Holding == {"check", "recover", "refresh", "slot", "vendor", "accepted", "poll",
            "finalize", "replay", "reopen"}
Bought(c) == \/ caller[c].pc \in {"accepted", "poll"}
             \/ caller[c].pc = "slot" /\ caller[c].resume
             \/ caller[c].pc = "finalize" /\ caller[c].result = "ok"

\* The winner of the claim, until the vendor answers.
Owner(c) == caller[c].pc = "vendor" \/ (caller[c].pc = "slot" /\ ~caller[c].resume)

CallerOK(c) ==
  /\ caller[c].pc # "idle" => caller[c].run \in Runs
  /\ caller[c].pc \in Holding => caller[c].at \in 1..live
  /\ Bought(c) => accepted[caller[c].at] = 1
  /\ caller[c].pc = "reopen" =>
       /\ row[caller[c].at].st \in Terminal
       /\ row[caller[c].at].run # caller[c].run \/ caller[c].at \in lost
  /\ \A i \in Rows : caller[c].copy[i].st = "polling" \/ caller[c].copy[i].usage = "unbilled"
                       => accepted[i] = 1
  /\ \A i \in Rows : caller[c].copy[i].st = "polling" => caller[c].copy[i].task

\* The claim has one winner per row, which nobody has bought before.
OwnerOK(c) ==
  Owner(c) => /\ accepted[caller[c].at] = 0
              /\ row[caller[c].at].st # "prepared"
              /\ \A d \in Callers \ {c} : Owner(d) => caller[d].at # caller[c].at

IInv == /\ CallTypes /\ Shape
        /\ \A i \in Rows : RowOK(i)
        /\ \A c \in Callers : CallerOK(c) /\ OwnerOK(c)

LEMMA Ranks ==
  /\ DOMAIN Rank = {"absent", "prepared", "submitted", "polling"} \cup Terminal
  /\ \A s \in DOMAIN Rank :
       /\ Rank[s] \in -1..3
       /\ Rank[s] = -1 <=> s = "absent"
       /\ Rank[s] = 0 <=> s = "prepared"
       /\ Rank[s] = 1 <=> s = "submitted"
       /\ Rank[s] = 2 <=> s = "polling"
       /\ Rank[s] = 3 <=> s \in Terminal
<1>1. DOMAIN Rank = {"absent", "prepared", "submitted", "polling", "succeeded", "failed", "timed_out"}
  BY DEF Rank
<1>2. /\ Rank["absent"] = -1 /\ Rank["prepared"] = 0 /\ Rank["submitted"] = 1 /\ Rank["polling"] = 2
      /\ Rank["succeeded"] = 3 /\ Rank["failed"] = 3 /\ Rank["timed_out"] = 3
  BY DEF Rank
<1> QED
  BY <1>1, <1>2 DEF Terminal

-----------------------------------------------------------------------------
(* The four things a step does to the rows. *)

Quiet == UNCHANGED <<row, live, accepted, lost>>

\* A write of one row that exists.
Write(i) ==
  /\ i \in 1..live /\ UNCHANGED <<live, accepted, lost>>
  /\ row' \in [Rows -> RowType] /\ \A j \in Rows \ {i} : row'[j] = row[j]
  /\ row'[i].run = row[i].run /\ Rank[row'[i].st] >= Rank[row[i].st]
  /\ RowOK(i)'

\* An insert that takes the key from a settled row, or from nobody.
Insert(r) ==
  /\ r \in Runs /\ live' = live + 1 /\ live' \in Rows
  /\ UNCHANGED <<accepted, lost>>
  /\ row' \in [Rows -> RowType] /\ \A j \in Rows \ {live'} : row'[j] = row[j]
  /\ row'[live'] = [NoRow EXCEPT !.st = "prepared", !.run = r]
  /\ live # 0 => row[live].st \in Terminal /\ (row[live].run # r \/ live \in lost)

\* The vendor accepts a task.
Accept(i) ==
  /\ i \in 1..live /\ accepted[i] = 0 /\ row[i].st \notin {"absent", "prepared"}
  /\ UNCHANGED <<row, live, lost>>
  /\ accepted' = [accepted EXCEPT ![i] = @ + 1]

Evict(i) ==
  /\ i \in 1..live /\ row[i].payload /\ row[i].st \in Terminal /\ accepted[i] = 1
  /\ UNCHANGED <<row, live, accepted>>
  /\ lost' = lost \cup {i}

RowStep == \/ Quiet
           \/ \E i \in Rows : Write(i) \/ Accept(i) \/ Evict(i)
           \/ \E r \in Runs : Insert(r)

\* What never goes back.
Grows ==
  /\ live' >= live /\ lost \subseteq lost'
  /\ \A i \in 1..live :
       /\ row'[i].run = row[i].run
       /\ row[i].st \in Terminal => row'[i].st \in Terminal
       /\ row[i].st # "prepared" => row'[i].st # "prepared"
  /\ \A i \in Rows : accepted[i] = 1 => accepted'[i] = 1

LEMMA RowStepPreserves ==
  ASSUME IInv, RowStep
  PROVE  /\ row' \in [Rows -> RowType] /\ live' \in 0..MaxRows /\ accepted' \in [Rows -> Nat]
         /\ lost' \in SUBSET Rows
         /\ Shape' /\ (\A i \in Rows : RowOK(i)') /\ Grows
         /\ \A i \in Rows : Rank[row'[i].st] >= Rank[row[i].st]
<1>1. /\ row \in [Rows -> RowType] /\ live \in 0..MaxRows /\ accepted \in [Rows -> Nat]
      /\ lost \in SUBSET Rows /\ Shape /\ \A i \in Rows : RowOK(i)
  BY DEF IInv, CallTypes
<1>2. \A i \in Rows : row[i] \in RowType /\ row[i].st \in DOMAIN Rank
  BY <1>1 DEF RowType
<1>3. \A i \in 1..live : i \in Rows /\ row[i].st # "absent"
  BY <1>1, RowsAssumption DEF Shape, Rows
<1>4. \A s \in DOMAIN Rank : Rank[s] \in Int
  BY Ranks
<1>5. CASE Quiet
  BY <1>1, <1>2, <1>4, <1>5 DEF Quiet, Shape, RowOK, Grows
<1>6. ASSUME NEW i \in Rows, Write(i)
      PROVE  /\ Shape' /\ (\A j \in Rows : RowOK(j)') /\ Grows
             /\ \A j \in Rows : Rank[row'[j].st] >= Rank[row[j].st]
  <2>1. row'[i].st \in DOMAIN Rank /\ row[i].st \in DOMAIN Rank /\ row[i].st # "absent" /\ i <= live
    BY <1>2, <1>3, <1>6 DEF Write, RowType
  <2>2. /\ row'[i].st # "absent"
        /\ row[i].st \in Terminal => row'[i].st \in Terminal
        /\ row[i].st # "prepared" => row'[i].st # "prepared"
    BY <1>6, <2>1, Ranks DEF Write
  <2>3. Shape'
    BY <1>1, <1>6, <2>1, <2>2 DEF Shape, Write
  <2>4. \A j \in Rows : RowOK(j)'
    BY <1>1, <1>6 DEF Write, RowOK
  <2>5. Grows
    BY <1>1, <1>3, <1>6, <2>2 DEF Write, Grows
  <2>6. \A j \in Rows : Rank[row'[j].st] >= Rank[row[j].st]
    <3> SUFFICES ASSUME NEW j \in Rows PROVE Rank[row'[j].st] >= Rank[row[j].st]
      OBVIOUS
    <3>1. CASE j = i
      BY <1>6, <3>1 DEF Write
    <3>2. CASE j # i
      <4>1. row'[j] = row[j]
        BY <1>6, <3>2 DEF Write
      <4> QED
        BY <1>2, <1>4, <4>1
    <3> QED
      BY <3>1, <3>2
  <2> QED
    BY <2>3, <2>4, <2>5, <2>6
<1>7. ASSUME NEW i \in Rows, Accept(i)
      PROVE  /\ accepted' \in [Rows -> Nat] /\ Shape' /\ (\A j \in Rows : RowOK(j)') /\ Grows
  <2>1. /\ accepted' \in [Rows -> Nat] /\ accepted'[i] = 1
        /\ \A j \in Rows \ {i} : accepted'[j] = accepted[j]
    BY <1>1, <1>7 DEF Accept
  <2> QED
    BY <1>1, <1>7, <2>1 DEF Accept, Shape, RowOK, Grows
<1>8. ASSUME NEW i \in Rows, Evict(i)
      PROVE  lost' \in SUBSET Rows /\ Shape' /\ (\A j \in Rows : RowOK(j)') /\ Grows
  BY <1>1, <1>8 DEF Evict, Shape, RowOK, Grows
<1>9. ASSUME NEW r \in Runs, Insert(r)
      PROVE  /\ live' \in 0..MaxRows /\ Shape' /\ (\A j \in Rows : RowOK(j)') /\ Grows
             /\ \A j \in Rows : Rank[row'[j].st] >= Rank[row[j].st]
  <2>1. row'[live'].st = "prepared" /\ row'[live'].bills = 0 /\ row'[live'].payload = FALSE
    BY <1>9 DEF Insert, NoRow
  <2>2. live' = live + 1 /\ live' \in Rows /\ row[live'].st = "absent"
    BY <1>1, <1>9 DEF Insert, Shape
  <2>3. Shape'
    <3>0. \A j \in lost' : j <= live'
      BY <1>1, <1>9 DEF Insert, Shape, Rows
    <3> SUFFICES ASSUME NEW j \in Rows PROVE row'[j].st # "absent" <=> j <= live'
      BY <3>0 DEF Shape
    <3>1. CASE j = live'
      BY <1>1, <2>1, <2>2, <3>1
    <3>2. CASE j # live'
      <4>1. row'[j] = row[j] /\ (row[j].st # "absent" <=> j <= live)
        BY <1>1, <1>9, <3>2 DEF Insert, Shape
      <4> QED
        BY <1>1, <2>2, <3>2, <4>1 DEF Rows
    <3> QED
      BY <3>1, <3>2
  <2>4. \A j \in Rows : RowOK(j)'
    <3> SUFFICES ASSUME NEW j \in Rows PROVE RowOK(j)'
      OBVIOUS
    <3>0. accepted' = accepted
      BY <1>9 DEF Insert
    <3>1. CASE j = live'
      <4>1. accepted[j] = 0
        BY <1>1, <2>2, <3>1 DEF RowOK
      <4> QED
        BY <2>1, <3>0, <3>1, <4>1 DEF RowOK
    <3>2. CASE j # live'
      BY <1>1, <1>9, <3>0, <3>2 DEF Insert, RowOK
    <3> QED
      BY <3>1, <3>2
  <2>5. Grows
    BY <1>1, <1>3, <1>9, <2>2 DEF Insert, Grows
  <2>6. \A j \in Rows : Rank[row'[j].st] >= Rank[row[j].st]
    <3> SUFFICES ASSUME NEW j \in Rows PROVE Rank[row'[j].st] >= Rank[row[j].st]
      OBVIOUS
    <3>1. CASE j = live'
      BY <2>1, <2>2, <3>1, Ranks
    <3>2. CASE j # live'
      <4>1. row'[j] = row[j]
        BY <1>9, <3>2 DEF Insert
      <4> QED
        BY <1>2, <1>4, <4>1
    <3> QED
      BY <3>1, <3>2
  <2>7. live' \in 0..MaxRows
    BY <2>2, RowsAssumption DEF Rows
  <2> QED
    BY <2>3, <2>4, <2>5, <2>6, <2>7
<1>10. /\ row' \in [Rows -> RowType] /\ live' \in 0..MaxRows /\ accepted' \in [Rows -> Nat]
       /\ lost' \in SUBSET Rows
  BY <1>1, <1>7, <1>8, <1>9 DEF RowStep, Quiet, Write, Accept, Evict, Insert
<1>11. row' = row => \A j \in Rows : Rank[row'[j].st] >= Rank[row[j].st]
  BY <1>2, <1>4
<1>12. Shape' /\ (\A j \in Rows : RowOK(j)') /\ Grows
  BY <1>5, <1>6, <1>7, <1>8, <1>9 DEF RowStep
<1>13. \A j \in Rows : Rank[row'[j].st] >= Rank[row[j].st]
  BY <1>6, <1>9, <1>11 DEF RowStep, Quiet, Accept, Evict
<1> QED
  BY <1>10, <1>12, <1>13

-----------------------------------------------------------------------------
(* What a step does to a thread. *)

Moves(c) ==
  /\ caller' \in [Callers -> CallerType]
  /\ \A d \in Callers \ {c} : caller'[d] = caller[d]
Acts(c) == Moves(c) /\ caller'[c].run = caller[c].run

LEMMA GoToMoves ==
  ASSUME CallTypes, NEW c \in Callers, NEW pc \in Pcs, NEW i \in 0..MaxRows, GoTo(c, pc, i)
  PROVE  /\ Acts(c) /\ caller'[c].pc = pc /\ caller'[c].at = i
         /\ caller'[c].resume = caller[c].resume /\ caller'[c].result = caller[c].result
         /\ caller'[c].copy = caller[c].copy
BY DEF CallTypes, CallerType, GoTo, Acts, Moves

LEMMA GoWithMoves ==
  ASSUME CallTypes, NEW c \in Callers, NEW pc \in Pcs, NEW i \in Rows, NEW k \in CopyType,
         GoWith(c, pc, i, k)
  PROVE  /\ Acts(c) /\ caller'[c].pc = pc /\ caller'[c].at = i
         /\ caller'[c].resume = caller[c].resume /\ caller'[c].result = caller[c].result
         /\ caller'[c].copy[i] = k
         /\ \A j \in Rows \ {i} : caller'[c].copy[j] = caller[c].copy[j]
<1>1. i \in 0..MaxRows
  BY RowsAssumption DEF Rows
<1> QED
  BY <1>1 DEF CallTypes, CallerType, GoWith, Acts, Moves

LEMMA ReturnMoves ==
  ASSUME CallTypes, NEW c \in Callers, NEW res \in {"ok", "error"}, Return(c, res)
  PROVE  /\ Acts(c) /\ caller'[c].pc = "sync" /\ caller'[c].copy = caller[c].copy
BY DEF CallTypes, CallerType, Return, Acts, Moves, Pcs

LEMMA AnswerMoves ==
  ASSUME CallTypes, NEW c \in Callers, NEW res \in {"ok", "error", "kept"}, Answer(c, res)
  PROVE  /\ Acts(c) /\ caller'[c].pc = "finalize" /\ caller'[c].result = res
         /\ caller'[c].at = caller[c].at /\ caller'[c].copy = caller[c].copy
BY DEF CallTypes, CallerType, Answer, Acts, Moves, Pcs

LEMMA CopyTypes ==
  ASSUME CallTypes, NEW i \in Rows
  PROVE  CopyOf(i) \in CopyType /\ CopyOf(i).st = row[i].st /\ CopyOf(i).usage = "none"
         /\ CopyOf(i).task = row[i].task
<1>1. row[i] \in RowType
  BY DEF CallTypes
<1> QED
  BY <1>1 DEF CopyOf, CopyType, RowType, Usages

LEMMA ResumeMoves ==
  ASSUME CallTypes, NEW c \in Callers, NEW i \in Rows, Resume(c, i)
  PROVE  /\ Acts(c) /\ caller'[c].pc = "slot" /\ caller'[c].at = i /\ caller'[c].resume
         /\ caller'[c].copy[i].st = row[i].st /\ caller'[c].copy[i].usage = "none"
         /\ caller'[c].copy[i].task = row[i].task
         /\ \A j \in Rows \ {i} : caller'[c].copy[j] = caller[c].copy[j]
<1>1. i \in 0..MaxRows
  BY RowsAssumption DEF Rows
<1>2. PICK k \in CopyType : k = CopyOf(i) /\ k.st = row[i].st /\ k.usage = "none" /\ k.task = row[i].task
  BY CopyTypes
<1>3. caller' = [caller EXCEPT ![c].pc = "slot", ![c].at = i, ![c].resume = TRUE, ![c].copy[i] = k]
  BY <1>2 DEF Resume
<1>4. caller[c] \in CallerType /\ caller[c].copy \in [Rows -> CopyType]
  BY DEF CallTypes, CallerType
<1>5. /\ caller'[c].pc = "slot" /\ caller'[c].at = i /\ caller'[c].resume
      /\ caller'[c].run = caller[c].run /\ caller'[c].copy = [caller[c].copy EXCEPT ![i] = k]
      /\ caller'[c] \in CallerType
  BY <1>1, <1>3, <1>4 DEF CallTypes, CallerType, Pcs
<1>6. Moves(c)
  BY <1>3, <1>5 DEF CallTypes, Moves
<1> QED
  BY <1>2, <1>4, <1>5, <1>6 DEF Acts

\* What is left to show of a step of thread c.
LEMMA Concludes ==
  ASSUME IInv, NEW c \in Callers, RowStep, Moves(c), CallerOK(c)',
         accepted' = accepted \/ (Owner(c) /\ Accept(caller[c].at) /\ ~Owner(c)'),
         Owner(c)' =>
           /\ caller'[c].at = caller[c].at /\ accepted' = accepted
           /\ \/ Owner(c)
              \/ /\ caller[c].at \in 1..live /\ row[caller[c].at].st = "prepared"
                 /\ row'[caller[c].at].st # "prepared"
  PROVE  IInv'
<1>1. /\ row' \in [Rows -> RowType] /\ live' \in 0..MaxRows /\ accepted' \in [Rows -> Nat]
      /\ lost' \in SUBSET Rows /\ Shape' /\ (\A i \in Rows : RowOK(i)') /\ Grows
  BY RowStepPreserves
<1>2. CallTypes'
  BY <1>1 DEF CallTypes, Moves
<1>3. \A d \in Callers : CallerOK(d) /\ OwnerOK(d)
  BY DEF IInv
<1>4. \A i \in 1..live : i \in Rows
  BY RowsAssumption DEF IInv, CallTypes, Rows
<1>5. live \in Nat /\ live' \in Nat /\ \A i \in 1..live : i \in 1..live'
  BY <1>1 DEF Grows, IInv, CallTypes
<1>6. ASSUME NEW d \in Callers \ {c}
      PROVE  CallerOK(d)'
  <2>1. caller'[d] = caller[d] /\ CallerOK(d)
    BY <1>3, <1>6 DEF Moves
  <2>2. caller[d].pc \in Holding => caller[d].at \in 1..live /\ caller[d].at \in Rows
    BY <1>4, <2>1 DEF CallerOK
  <2>3. Bought(d) => caller[d].pc \in Holding
    BY DEF Bought, Holding
  <2> QED
    BY <1>1, <1>5, <2>1, <2>2, <2>3 DEF CallerOK, Grows, Bought, Holding
<1>7. \A d \in Callers : CallerOK(d)'
  BY <1>6
<1>8. \A d \in Callers : Owner(d) => caller[d].at \in 1..live
  BY <1>3 DEF CallerOK, Owner, Holding
<1>9. \A d \in Callers \ {c} : Owner(d)' <=> Owner(d)
  BY DEF Moves, Owner
<1>10. ASSUME NEW d \in Callers, Owner(d)'
       PROVE  OwnerOK(d)'
  <2>1. CASE d = c
    <3>1. /\ caller'[c].at = caller[c].at /\ accepted' = accepted /\ caller[c].at \in 1..live
      BY <1>8, <1>10, <2>1
    <3>2. accepted[caller[c].at] = 0
      BY <1>3, <1>4, <1>10, <2>1, <3>1 DEF OwnerOK, RowOK, IInv
    <3>3. row'[caller[c].at].st # "prepared"
      BY <1>1, <1>3, <1>10, <2>1, <3>1 DEF OwnerOK, Grows
    <3>4. \A e \in Callers \ {c} : Owner(e)' => caller'[e].at # caller[c].at
      BY <1>3, <1>9, <1>10, <2>1 DEF OwnerOK, Moves
    <3> QED
      BY <2>1, <3>1, <3>2, <3>3, <3>4 DEF OwnerOK
  <2>2. CASE d # c
    <3>1. Owner(d) /\ caller'[d] = caller[d] /\ OwnerOK(d) /\ caller[d].at \in 1..live
      BY <1>3, <1>8, <1>9, <1>10, <2>2 DEF Moves
    <3>2. accepted'[caller[d].at] = 0
      BY <1>4, <3>1, <2>2 DEF OwnerOK, Accept, IInv, CallTypes
    <3>3. row'[caller[d].at].st # "prepared"
      BY <1>1, <3>1 DEF OwnerOK, Grows
    <3>4. \A e \in Callers \ {d} : Owner(e)' => caller'[e].at # caller[d].at
      <4> SUFFICES ASSUME NEW e \in Callers \ {d}, Owner(e)'
                   PROVE  caller'[e].at # caller[d].at
        OBVIOUS
      <4>1. CASE e = c
        BY <1>3, <2>2, <3>1, <4>1 DEF OwnerOK
      <4>2. CASE e # c
        BY <1>9, <3>1, <4>2 DEF OwnerOK, Moves
      <4> QED
        BY <4>1, <4>2
    <3> QED
      BY <3>1, <3>2, <3>3, <3>4 DEF OwnerOK
  <2> QED
    BY <2>1, <2>2
<1>11. \A d \in Callers : OwnerOK(d)'
  BY <1>10 DEF OwnerOK
<1> QED
  BY <1>1, <1>2, <1>7, <1>11 DEF IInv
-----------------------------------------------------------------------------
(* Writes of a row. *)

\* A row that is not settled gets a later status.
LEMMA StatusWrite ==
  ASSUME IInv, NEW i \in 1..live, NEW s \in {"submitted", "failed", "timed_out"},
         row[i].st \notin Terminal, s = "submitted" => row[i].st = "prepared",
         UNCHANGED <<live, accepted, lost>>,
         row' = [row EXCEPT ![i].st = s, ![i].aged = FALSE]
  PROVE  Write(i) /\ row'[i].st = s /\ i \in Rows
<1>1. /\ row \in [Rows -> RowType] /\ i \in Rows /\ row[i] \in RowType /\ RowOK(i)
      /\ row[i].st \in DOMAIN Rank /\ s \in DOMAIN Rank
  BY RowsAssumption, Ranks DEF IInv, CallTypes, Rows, RowType, Terminal
<1>2. /\ row'[i].st = s /\ row'[i].run = row[i].run /\ row'[i].bills = row[i].bills
      /\ row'[i].payload = row[i].payload
      /\ row' \in [Rows -> RowType] /\ \A j \in Rows \ {i} : row'[j] = row[j]
  BY <1>1 DEF RowType
<1>3. Rank[s] >= Rank[row[i].st]
  BY <1>1, Ranks DEF Terminal
<1>4. RowOK(i)'
  BY <1>1, <1>2 DEF RowOK
<1> QED
  BY <1>1, <1>2, <1>3, <1>4 DEF Write

\* A submitted row gets its task.
LEMMA TaskWrite ==
  ASSUME IInv, NEW i \in 1..live, row[i].st = "submitted", accepted[i] = 1,
         UNCHANGED <<live, accepted, lost>>,
         row' = [row EXCEPT ![i].st = "polling", ![i].task = TRUE, ![i].aged = FALSE]
  PROVE  Write(i) /\ i \in Rows
<1>1. /\ row \in [Rows -> RowType] /\ i \in Rows /\ row[i] \in RowType /\ RowOK(i)
      /\ "polling" \in DOMAIN Rank /\ "submitted" \in DOMAIN Rank
  BY RowsAssumption, Ranks DEF IInv, CallTypes, Rows, RowType, Terminal
<1>2. /\ row'[i].st = "polling" /\ row'[i].run = row[i].run /\ row'[i].bills = row[i].bills
      /\ row'[i].payload = row[i].payload
      /\ row' \in [Rows -> RowType] /\ \A j \in Rows \ {i} : row'[j] = row[j]
  BY <1>1 DEF RowType
<1>3. Rank["polling"] >= Rank[row[i].st]
  BY <1>1, Ranks
<1>4. RowOK(i)'
  BY <1>1, <1>2 DEF RowOK, Terminal
<1> QED
  BY <1>1, <1>2, <1>3, <1>4 DEF Write

\* The first result of a purchase: payload and bill.
LEMMA ResultWrite ==
  ASSUME IInv, NEW i \in 1..live, row[i].st \notin Terminal, accepted[i] = 1,
         UNCHANGED <<live, accepted, lost>>,
         row' = [row EXCEPT ![i].st = "succeeded", ![i].payload = TRUE, ![i].bills = @ + 1,
                            ![i].aged = FALSE]
  PROVE  Write(i) /\ i \in Rows
<1>1. /\ row \in [Rows -> RowType] /\ i \in Rows /\ row[i] \in RowType /\ RowOK(i)
      /\ "succeeded" \in DOMAIN Rank /\ row[i].st \in DOMAIN Rank /\ row[i].bills \in Nat
  BY RowsAssumption, Ranks DEF IInv, CallTypes, Rows, RowType, Terminal
<1>2. /\ row'[i].st = "succeeded" /\ row'[i].run = row[i].run /\ row'[i].bills = row[i].bills + 1
      /\ row' \in [Rows -> RowType] /\ \A j \in Rows \ {i} : row'[j] = row[j]
  BY <1>1 DEF RowType
<1>3. Rank["succeeded"] >= Rank[row[i].st]
  BY <1>1, Ranks DEF Terminal
<1>4. RowOK(i)'
  BY <1>1, <1>2 DEF RowOK, Terminal
<1> QED
  BY <1>1, <1>2, <1>3, <1>4 DEF Write

LEMMA AgeWrite ==
  ASSUME IInv, NEW i \in 1..live,
         UNCHANGED <<live, accepted, lost>>, row' = [row EXCEPT ![i].aged = TRUE]
  PROVE  Write(i) /\ i \in Rows
<1>1. /\ row \in [Rows -> RowType] /\ i \in Rows /\ row[i] \in RowType /\ RowOK(i)
      /\ row[i].st \in DOMAIN Rank
  BY RowsAssumption DEF IInv, CallTypes, Rows, RowType
<1>2. /\ row'[i].st = row[i].st /\ row'[i].run = row[i].run /\ row'[i].bills = row[i].bills
      /\ row'[i].payload = row[i].payload
      /\ row' \in [Rows -> RowType] /\ \A j \in Rows \ {i} : row'[j] = row[j]
  BY <1>1 DEF RowType
<1>3. Rank[row'[i].st] >= Rank[row[i].st]
  BY <1>1, <1>2, Ranks
<1>4. RowOK(i)'
  BY <1>1, <1>2 DEF RowOK
<1> QED
  BY <1>1, <1>2, <1>3, <1>4 DEF Write

LEMMA MergedFields ==
  ASSUME NEW r \in RowType, NEW k \in CopyType, k.st # "none"
  PROVE  /\ Merged(r, k) \in RowType
         /\ (r.st = "polling" => r.task) /\ (k.st = "polling" => k.task)
              => (Merged(r, k).st = "polling" => Merged(r, k).task)
         /\ Merged(r, k).st = (IF Rank[k.st] < Rank[r.st] THEN r.st ELSE k.st)
         /\ Merged(r, k).bills = (IF k.usage = "unbilled" THEN r.bills + 1 ELSE r.bills)
         /\ Merged(r, k).run = r.run /\ Merged(r, k).payload = r.payload
<1>1. k.st \in DOMAIN Rank /\ r.st \in DOMAIN Rank /\ r.bills \in Nat
  BY DEF CopyType, RowType
<1>2. CASE Rank[k.st] < Rank[r.st]
  <2>1. Merged(r, k) = [r EXCEPT !.bills = IF k.usage = "unbilled" THEN r.bills + 1 ELSE r.bills]
    BY <1>2 DEF Merged, RowType
  <2>2. Merged(r, k).task = r.task /\ Merged(r, k).st = r.st
    BY <2>1 DEF RowType
  <2> QED
    BY <1>1, <1>2, <2>1, <2>2 DEF RowType
<1>3. CASE ~(Rank[k.st] < Rank[r.st])
  <2>1. Merged(r, k) = [r EXCEPT !.st = k.st, !.task = k.task,
                                 !.bills = IF k.usage = "unbilled" THEN r.bills + 1 ELSE r.bills]
    BY <1>3 DEF Merged
  <2>2. r.task \in BOOLEAN /\ k.task \in BOOLEAN
    BY DEF CopyType, RowType
  <2>3. /\ Merged(r, k).st = k.st /\ Merged(r, k).run = r.run /\ Merged(r, k).payload = r.payload
        /\ Merged(r, k).bills = (IF k.usage = "unbilled" THEN r.bills + 1 ELSE r.bills)
    BY <1>1, <2>1 DEF RowType
  <2>4. Merged(r, k) \in RowType
    <3> DEFINE n == IF k.usage = "unbilled" THEN r.bills + 1 ELSE r.bills
    <3>1. n \in Nat
      BY <1>1
    <3> HIDE DEF n
    <3>2. \A b \in BOOLEAN : [r EXCEPT !.st = k.st, !.task = b, !.bills = n] \in RowType
      BY <1>1, <3>1 DEF RowType
    <3>3. [r EXCEPT !.st = k.st, !.task = k.task, !.bills = n] \in RowType
      BY <2>2, <3>2, Zenon
    <3> QED
      BY <2>1, <3>3 DEF n
  <2>5. Merged(r, k).task = k.task
    BY <2>1 DEF RowType
  <2> QED
    BY <1>3, <2>3, <2>4, <2>5
<1> QED
  BY <1>2, <1>3

\* A snapshot's copy, by rank.
LEMMA MergeWrite ==
  ASSUME IInv, NEW i \in 1..live, NEW k \in CopyType, k.st # "none",
         k.st = "polling" \/ k.usage = "unbilled" => accepted[i] = 1,
         k.st = "polling" => k.task,
         UNCHANGED <<live, accepted, lost>>,
         row'[i] = Merged(row[i], k),
         \A j \in Rows \ {i} : row'[j] = row[j], row' = [j \in Rows |-> row'[j]]
  PROVE  Write(i) /\ i \in Rows
<1>1. /\ row \in [Rows -> RowType] /\ i \in Rows /\ row[i] \in RowType /\ RowOK(i)
      /\ row[i].st \in DOMAIN Rank /\ k.st \in DOMAIN Rank /\ row[i].bills \in Nat
      /\ row[i].st # "absent"
  BY RowsAssumption, Ranks DEF IInv, CallTypes, Rows, RowType, CopyType, Shape
<1> DEFINE s == row'[i].st
<1>3. /\ s = (IF Rank[k.st] < Rank[row[i].st] THEN row[i].st ELSE k.st)
      /\ row'[i].run = row[i].run /\ row'[i].payload = row[i].payload /\ row'[i] \in RowType
      /\ row'[i].bills = (IF k.usage = "unbilled" THEN row[i].bills + 1 ELSE row[i].bills)
  BY <1>1, MergedFields
<1>4. row' \in [Rows -> RowType]
  BY <1>1, <1>3
<1>5. Rank[s] >= Rank[row[i].st]
  BY <1>1, <1>3, Ranks
<1>6. row[i].st \in Terminal => s \in Terminal
  BY <1>1, <1>3, <1>5, Ranks
<1>7. s \in {"absent", "prepared"} => row[i].st = "prepared"
  BY <1>1, <1>3, <1>5, Ranks
<1>8. s = "polling" => row[i].st = "polling" \/ k.st = "polling"
  BY <1>3
<1>9. s = "polling" => row'[i].task
  BY <1>1, MergedFields DEF RowOK
<1>10. RowOK(i)'
  BY <1>1, <1>3, <1>6, <1>7, <1>8, <1>9 DEF RowOK
<1> QED
  BY <1>1, <1>3, <1>4, <1>5, <1>10 DEF Write

-----------------------------------------------------------------------------
(* The actions of a thread. *)

LEMMA Basics ==
  ASSUME IInv, NEW c \in Callers
  PROVE  /\ CallTypes /\ Shape /\ CallerOK(c) /\ OwnerOK(c)
         /\ live \in Nat /\ 0 \in 0..MaxRows /\ live \in 0..MaxRows
         /\ \A i \in 1..live : i \in Rows /\ row[i].st # "absent" /\ row[i].st \in DOMAIN Rank
                                /\ i \in 0..MaxRows /\ RowOK(i) /\ row[i] \in RowType
         /\ live # 0 => live \in 1..live
         /\ caller[c] \in CallerType /\ caller[c].copy \in [Rows -> CopyType]
<1>1. CallTypes /\ Shape /\ CallerOK(c) /\ OwnerOK(c) /\ live \in 0..MaxRows /\ \A i \in Rows : RowOK(i)
  BY DEF IInv, CallTypes
<1>2. \A i \in 1..live : i \in Rows
  BY <1>1, RowsAssumption DEF Rows
<1>3. \A i \in Rows : row[i] \in RowType /\ row[i].st \in DOMAIN Rank /\ i \in 0..MaxRows
  BY <1>1, RowsAssumption DEF CallTypes, RowType, Rows
<1>4. \A i \in 1..live : row[i].st # "absent"
  BY <1>1, <1>2 DEF Shape
<1>5. caller[c] \in CallerType /\ caller[c].copy \in [Rows -> CopyType]
  BY <1>1 DEF CallTypes, CallerType
<1> QED
  BY <1>1, <1>2, <1>3, <1>4, <1>5, RowsAssumption

\* The steps that leave the rows alone: what the thread knows afterwards.
LEMMA QuietConcludes ==
  ASSUME IInv, NEW c \in Callers, Quiet, Acts(c), CallerOK(c)',
         Owner(c)' => Owner(c) /\ caller'[c].at = caller[c].at
  PROVE  IInv' /\ RowStep
BY Concludes DEF Quiet, RowStep, Acts

\* A row write by c, after which c holds no claim that it did not hold.
LEMMA WriteConcludes ==
  ASSUME IInv, NEW c \in Callers, NEW i \in Rows, Write(i), Acts(c), CallerOK(c)',
         Owner(c)' => /\ caller'[c].at = caller[c].at
                      /\ Owner(c) \/ (i = caller[c].at /\ row[i].st = "prepared" /\ row'[i].st # "prepared")
  PROVE  IInv' /\ RowStep
BY Concludes DEF Write, RowStep, Acts

LEMMA LoadStep ==
  ASSUME IInv, NEW c \in Callers, Load(c)
  PROVE  IInv' /\ RowStep
<1>0. /\ Quiet /\ caller[c].pc = "load"
  BY DEF Load, Quiet, runVars
<1>b. /\ CallTypes /\ CallerOK(c) /\ live \in Nat /\ 0 \in 0..MaxRows
      /\ \A i \in 1..live : i \in Rows /\ i \in 0..MaxRows /\ row[i].st # "absent" /\ RowOK(i)
      /\ live # 0 => live \in 1..live
  BY Basics
<1>p. "create" \in Pcs /\ "check" \in Pcs /\ "recover" \in Pcs /\ "replay" \in Pcs /\ "reopen" \in Pcs
  BY DEF Pcs
<1> DEFINE st == IF live = 0 THEN "absent" ELSE row[live].st
<1>1. CASE GoTo(c, "create", 0)
  <2>1. Acts(c) /\ caller'[c].pc = "create" /\ caller'[c].copy = caller[c].copy
    BY <1>1, <1>b, <1>p, GoToMoves
  <2> QED
    BY <1>0, <1>b, <2>1, QuietConcludes DEF CallerOK, Owner, Bought, Holding, Quiet, Acts
<1>2. CASE st = "prepared" /\ GoWith(c, "check", live, CopyOf(live))
  <2>1. live \in 1..live /\ live \in Rows
    BY <1>2, <1>b
  <2>2. /\ CopyOf(live) \in CopyType /\ CopyOf(live).st = "prepared" /\ CopyOf(live).usage = "none"
    BY <1>2, <1>b, <2>1, CopyTypes
  <2>3. /\ Acts(c) /\ caller'[c].pc = "check" /\ caller'[c].at = live
        /\ caller'[c].copy[live] = CopyOf(live)
        /\ \A j \in Rows \ {live} : caller'[c].copy[j] = caller[c].copy[j]
    BY <1>2, <1>b, <1>p, <2>1, <2>2, GoWithMoves
  <2> QED
    BY <1>0, <1>b, <2>1, <2>2, <2>3, QuietConcludes DEF CallerOK, Owner, Bought, Holding, Quiet, Acts
<1>3. ASSUME NEW pc \in {"recover", "replay"}, st # "absent", GoTo(c, pc, live)
      PROVE  IInv' /\ RowStep
  <2>1. live \in 1..live /\ live \in 0..MaxRows
    BY <1>3, <1>b
  <2>2. Acts(c) /\ caller'[c].pc = pc /\ caller'[c].at = live /\ caller'[c].copy = caller[c].copy
    BY <1>3, <1>b, <1>p, <2>1, GoToMoves
  <2> QED
    BY <1>0, <1>b, <2>1, <2>2, QuietConcludes DEF CallerOK, Owner, Bought, Holding, Quiet, Acts
<1>4. CASE st = "polling" /\ Resume(c, live)
  <2>1. live \in 1..live /\ live \in Rows /\ row[live].st = "polling" /\ accepted[live] = 1 /\ row[live].task
    BY <1>4, <1>b DEF RowOK
  <2>2. /\ Acts(c) /\ caller'[c].pc = "slot" /\ caller'[c].at = live /\ caller'[c].resume
        /\ caller'[c].copy[live].st = row[live].st /\ caller'[c].copy[live].usage = "none"
        /\ caller'[c].copy[live].task = row[live].task
        /\ \A j \in Rows \ {live} : caller'[c].copy[j] = caller[c].copy[j]
    BY <1>4, <1>b, <2>1, ResumeMoves
  <2> QED
    BY <1>0, <1>b, <2>1, <2>2, QuietConcludes DEF CallerOK, Owner, Bought, Holding, Quiet, Acts
<1>5. CASE st \in {"failed", "timed_out"} /\ row[live].run # caller[c].run /\ GoTo(c, "reopen", live)
  <2>1. live \in 1..live /\ live \in 0..MaxRows /\ row[live].st \in Terminal
    BY <1>5, <1>b DEF Terminal
  <2>2. Acts(c) /\ caller'[c].pc = "reopen" /\ caller'[c].at = live /\ caller'[c].copy = caller[c].copy
    BY <1>5, <1>b, <1>p, <2>1, GoToMoves
  <2> QED
    BY <1>0, <1>5, <1>b, <2>1, <2>2, QuietConcludes DEF CallerOK, Owner, Bought, Holding, Quiet, Acts
<1>6. CASE Return(c, "error")
  <2>1. Acts(c) /\ caller'[c].pc = "sync" /\ caller'[c].copy = caller[c].copy
    BY <1>6, <1>b, ReturnMoves
  <2> QED
    BY <1>0, <1>b, <2>1, QuietConcludes DEF CallerOK, Owner, Bought, Holding, Quiet, Acts
<1> QED
  BY <1>1, <1>2, <1>3, <1>4, <1>5, <1>6 DEF Load

LEMMA CreateStep ==
  ASSUME IInv, NEW c \in Callers, GetOrCreate(c)
  PROVE  IInv' /\ RowStep
<1>b. /\ CallTypes /\ Shape /\ CallerOK(c) /\ 0 \in 0..MaxRows /\ caller[c].run \in Runs
  BY Basics DEF GetOrCreate, CallerOK
<1>1. Acts(c) /\ caller'[c].pc = "load" /\ caller'[c].copy = caller[c].copy
  BY <1>b, GoToMoves DEF GetOrCreate, Pcs
<1>2. UNCHANGED <<accepted, lost>>
  BY DEF GetOrCreate, runVars
<1>3. CASE live # 0
  <2>1. Quiet
    BY <1>2, <1>3 DEF GetOrCreate, Quiet
  <2> QED
    BY <1>1, <1>b, <2>1, QuietConcludes DEF CallerOK, Owner, Bought, Holding, Quiet, Acts
<1>4. CASE live = 0
  <2>1. {i \in Rows : row[i].st # "absent"} = {}
    BY <1>4, <1>b DEF Shape, Rows
  <2>2. Cardinality({i \in Rows : row[i].st # "absent"}) = 0
    BY <2>1, FS_EmptySet
  <2>3. row' = [row EXCEPT ![1] = [NoRow EXCEPT !.st = "prepared", !.run = caller[c].run]]
    BY <1>4, <2>2 DEF GetOrCreate, Opened
  <2>4. live' = 1 /\ 1 \in Rows
    BY <1>4, RowsAssumption DEF GetOrCreate, Rows
  <2>5. [NoRow EXCEPT !.st = "prepared", !.run = caller[c].run] \in RowType
    <3>1. "absent" \in DOMAIN Rank /\ "prepared" \in DOMAIN Rank /\ caller[c].run \in 0..MaxRun
      BY <1>b, Ranks, RunsAssumption DEF Runs
    <3>2. NoRow \in RowType
      BY <3>1, RunsAssumption DEF NoRow, RowType
    <3> QED
      BY <3>1, <3>2 DEF RowType
  <2>6. Insert(caller[c].run)
    BY <1>2, <1>4, <1>b, <2>3, <2>4, <2>5 DEF Insert, CallTypes
  <2>7. RowStep /\ accepted' = accepted
    BY <1>b, <2>6 DEF RowStep, Insert
  <2>8. CallerOK(c)' /\ ~Owner(c)'
    BY <1>1, <1>b, <2>7 DEF CallerOK, Owner, Bought, Holding, Acts
  <2> QED
    BY <1>1, <2>7, <2>8, Concludes DEF Acts
<1> QED
  BY <1>3, <1>4

LEMMA FailBeforeStep ==
  ASSUME IInv, NEW c \in Callers, FailBeforeSubmit(c)
  PROVE  IInv' /\ RowStep
<1> DEFINE i == caller[c].at
<1>b. /\ CallTypes /\ CallerOK(c) /\ i \in 1..live /\ i \in Rows
      /\ caller[c].copy \in [Rows -> CopyType] /\ caller[c] \in CallerType
  BY Basics DEF FailBeforeSubmit, CallerOK, Holding
<1>0. UNCHANGED <<live, accepted, lost>>
  BY DEF FailBeforeSubmit, runVars
<1>1. caller' = [caller EXCEPT ![c].pc = "sync", ![c].result = "error", ![c].copy[i].st = "failed"]
  BY DEF FailBeforeSubmit
<1>2. /\ Acts(c) /\ caller'[c].pc = "sync" /\ caller'[c].copy = [caller[c].copy EXCEPT ![i].st = "failed"]
  <2>1. "failed" \in DOMAIN Rank
    BY Ranks DEF Terminal
  <2>2. [caller[c].copy EXCEPT ![i].st = "failed"] \in [Rows -> CopyType]
    BY <1>b, <2>1 DEF CopyType
  <2> QED
    BY <1>1, <1>b, <2>2 DEF CallTypes, CallerType, Acts, Moves, Pcs
<1>3. \A j \in Rows : /\ caller'[c].copy[j].usage = caller[c].copy[j].usage
                      /\ caller'[c].copy[j].st = "polling"
                           => /\ caller[c].copy[j].st = "polling"
                              /\ caller'[c].copy[j].task = caller[c].copy[j].task
  <2>1. \A j \in Rows : caller[c].copy[j] \in CopyType
    BY <1>b
  <2> QED
    BY <1>b, <1>2, <2>1 DEF CopyType
<1>4. CallerOK(c)' /\ ~Owner(c)'
  BY <1>0, <1>b, <1>2, <1>3 DEF CallerOK, Owner, Bought, Holding, Acts, FailBeforeSubmit
<1>5. CASE row[i].st = "prepared"
  <2>1. Write(i)
    BY <1>0, <1>5, <1>b, StatusWrite DEF FailBeforeSubmit, Terminal
  <2> QED
    BY <1>b, <1>2, <1>4, <2>1, WriteConcludes
<1>6. CASE row[i].st # "prepared"
  <2>1. Quiet
    BY <1>0, <1>6 DEF FailBeforeSubmit, Quiet
  <2> QED
    BY <1>2, <1>4, <2>1, QuietConcludes
<1> QED
  BY <1>5, <1>6

LEMMA ClaimStep ==
  ASSUME IInv, NEW c \in Callers, ClaimSubmit(c)
  PROVE  IInv' /\ RowStep
<1> DEFINE i == caller[c].at
<1>b. /\ CallTypes /\ CallerOK(c) /\ i \in 1..live /\ i \in Rows /\ i \in 0..MaxRows
      /\ caller[c].copy \in [Rows -> CopyType] /\ caller[c] \in CallerType
      /\ caller[c].pc = "check"
  BY Basics DEF ClaimSubmit, CallerOK, Holding
<1>0. UNCHANGED <<live, accepted, lost>>
  BY DEF ClaimSubmit, runVars
<1>1. CASE row[i].st = "prepared"
  <2>1. caller' = [caller EXCEPT ![c].pc = "slot", ![c].resume = FALSE, ![c].copy[i].st = "submitted"]
    BY <1>1 DEF ClaimSubmit
  <2>2. [caller[c].copy EXCEPT ![i].st = "submitted"] \in [Rows -> CopyType]
    BY <1>b, Ranks DEF CopyType
  <2>3. /\ Acts(c) /\ caller'[c].pc = "slot" /\ caller'[c].at = i /\ caller'[c].resume = FALSE
        /\ caller'[c].copy = [caller[c].copy EXCEPT ![i].st = "submitted"]
    BY <1>b, <2>1, <2>2 DEF CallTypes, CallerType, Acts, Moves, Pcs
  <2>4. \A j \in Rows : /\ caller'[c].copy[j].usage = caller[c].copy[j].usage
                        /\ caller'[c].copy[j].st = "polling"
                             => /\ caller[c].copy[j].st = "polling"
                                /\ caller'[c].copy[j].task = caller[c].copy[j].task
    <3>1. \A j \in Rows : caller[c].copy[j] \in CopyType
      BY <1>b
    <3> QED
      BY <1>b, <2>3, <3>1 DEF CopyType
  <2>5. Write(i) /\ row'[i].st = "submitted"
    BY <1>0, <1>1, <1>b, StatusWrite DEF ClaimSubmit, Terminal
  <2>6. CallerOK(c)'
    BY <1>0, <1>b, <2>3, <2>4 DEF CallerOK, Bought, Holding, Acts
  <2> QED
    BY <1>1, <1>b, <2>3, <2>5, <2>6, WriteConcludes
<1>2. CASE row[i].st # "prepared"
  <2>1. Quiet /\ GoTo(c, "recover", i)
    BY <1>0, <1>2 DEF ClaimSubmit, Quiet
  <2>2. /\ Acts(c) /\ caller'[c].pc = "recover" /\ caller'[c].at = i /\ caller'[c].copy = caller[c].copy
    BY <1>b, <2>1, GoToMoves DEF Pcs
  <2> QED
    BY <1>b, <2>1, <2>2, QuietConcludes DEF CallerOK, Owner, Bought, Holding, Quiet, Acts
<1> QED
  BY <1>1, <1>2

LEMMA RecoverStep ==
  ASSUME IInv, NEW c \in Callers, RecoverSubmitted(c)
  PROVE  IInv' /\ RowStep
<1>0. Quiet
  BY DEF RecoverSubmitted, Quiet, runVars
<1>b. /\ CallTypes /\ CallerOK(c) /\ live \in 1..live /\ live \in Rows /\ live \in 0..MaxRows
      /\ RowOK(live) /\ caller[c].run \in Runs
  BY Basics DEF RecoverSubmitted, CallerOK, Holding
<1>1. CASE row[live].st = "polling" /\ Resume(c, live)
  <2>1. accepted[live] = 1 /\ row[live].task
    BY <1>1, <1>b DEF RowOK
  <2>2. /\ Acts(c) /\ caller'[c].pc = "slot" /\ caller'[c].at = live /\ caller'[c].resume
        /\ caller'[c].copy[live].st = row[live].st /\ caller'[c].copy[live].usage = "none"
        /\ caller'[c].copy[live].task = row[live].task
        /\ \A j \in Rows \ {live} : caller'[c].copy[j] = caller[c].copy[j]
    BY <1>1, <1>b, ResumeMoves
  <2> QED
    BY <1>0, <1>b, <2>1, <2>2, QuietConcludes DEF CallerOK, Owner, Bought, Holding, Quiet, Acts
<1>2. ASSUME NEW pc \in {"replay", "refresh"}, GoTo(c, pc, live)
      PROVE  IInv' /\ RowStep
  <2>1. Acts(c) /\ caller'[c].pc = pc /\ caller'[c].at = live /\ caller'[c].copy = caller[c].copy
    BY <1>2, <1>b, GoToMoves DEF Pcs
  <2> QED
    BY <1>0, <1>b, <2>1, QuietConcludes DEF CallerOK, Owner, Bought, Holding, Quiet, Acts
<1>3. CASE Return(c, "error")
  <2>1. Acts(c) /\ caller'[c].pc = "sync" /\ caller'[c].copy = caller[c].copy
    BY <1>3, <1>b, ReturnMoves
  <2> QED
    BY <1>0, <1>b, <2>1, QuietConcludes DEF CallerOK, Owner, Bought, Holding, Quiet, Acts
<1> QED
  BY <1>1, <1>2, <1>3 DEF RecoverSubmitted

LEMMA UnknownStep ==
  ASSUME IInv, NEW c \in Callers, SubmitOutcomeUnknown(c)
  PROVE  IInv' /\ RowStep
<1> DEFINE i == caller[c].at
<1>b. /\ CallTypes /\ CallerOK(c) /\ i \in 1..live /\ i \in Rows /\ live \in Rows
      /\ live \in 1..live /\ live \in Nat /\ row[live] \in RowType
      /\ caller[c].copy \in [Rows -> CopyType] /\ caller[c] \in CallerType
      /\ \A j \in Rows : RowOK(j)
  BY Basics DEF SubmitOutcomeUnknown, CallerOK, Holding, IInv
<1>0. UNCHANGED <<live, accepted, lost>>
  BY DEF SubmitOutcomeUnknown, runVars
<1>1. \/ Quiet /\ row' = row
      \/ Write(i) /\ row' \in [Rows -> RowType]
  <2>1. CASE row[i].st \in Terminal
    BY <1>0, <2>1 DEF SubmitOutcomeUnknown, Quiet
  <2>2. CASE row[i].st \notin Terminal
    <3>1. row' = [row EXCEPT ![i].st = "timed_out", ![i].aged = FALSE]
      BY <2>2 DEF SubmitOutcomeUnknown
    <3>2. Write(i)
      BY <1>0, <1>b, <2>2, <3>1, StatusWrite
    <3> QED
      BY <3>2 DEF Write
  <2> QED
    BY <2>1, <2>2
<1>2. row' \in [Rows -> RowType] /\ row'[live].st \in DOMAIN Rank /\ RowOK(live)'
  <2>1. RowStep
    BY <1>1, <1>b DEF RowStep
  <2>2. row' \in [Rows -> RowType] /\ RowOK(live)'
    BY <1>b, <1>0, <2>1, RowStepPreserves
  <2> QED
    BY <1>b, <2>2 DEF RowType
<1>3. PICK k : k = [st |-> row'[live].st, task |-> row[live].task, usage |-> "none"]
  OBVIOUS
<1>4. k \in CopyType /\ k.st = row'[live].st /\ k.usage = "none" /\ k.task = row[live].task
  <2>1. row[live].task \in BOOLEAN
    BY <1>b DEF RowType
  <2> QED
    BY <1>2, <1>3, <2>1 DEF CopyType, Usages
<1>5. caller' = [caller EXCEPT ![c].pc = "sync", ![c].result = "error", ![c].copy[live] = k]
  BY <1>3 DEF SubmitOutcomeUnknown
<1>6. /\ Acts(c) /\ caller'[c].pc = "sync" /\ caller'[c].copy = [caller[c].copy EXCEPT ![live] = k]
  <2>1. [caller[c].copy EXCEPT ![live] = k] \in [Rows -> CopyType]
    BY <1>b, <1>4
  <2> QED
    BY <1>5, <1>b, <2>1 DEF CallTypes, CallerType, Acts, Moves, Pcs
<1>7. \A j \in Rows : caller'[c].copy[j].st = "polling" \/ caller'[c].copy[j].usage = "unbilled"
                       => accepted[j] = 1
  <2> SUFFICES ASSUME NEW j \in Rows,
                      caller'[c].copy[j].st = "polling" \/ caller'[c].copy[j].usage = "unbilled"
               PROVE  accepted[j] = 1
    OBVIOUS
  <2>1. CASE j = live
    <3>1. row'[live].st = "polling"
      BY <1>4, <1>6, <1>b, <2>1
    <3> QED
      BY <1>0, <1>2, <2>1, <3>1 DEF RowOK
  <2>2. CASE j # live
    BY <1>b, <1>6, <2>2 DEF CallerOK
  <2> QED
    BY <2>1, <2>2
<1>8. k.st = "polling" => k.task
  <2> SUFFICES ASSUME row'[live].st = "polling" PROVE row[live].task
    BY <1>4
  <2>1. row'[live].task
    BY <1>0, <1>2 DEF RowOK
  <2>2. row'[live] = row[live]
    BY <1>b DEF SubmitOutcomeUnknown, CallTypes
  <2> QED
    BY <2>1, <2>2
<1>9. \A j \in Rows : caller'[c].copy[j].st = "polling" => caller'[c].copy[j].task
  <2> SUFFICES ASSUME NEW j \in Rows, caller'[c].copy[j].st = "polling"
               PROVE  caller'[c].copy[j].task
    OBVIOUS
  <2>1. CASE j = live
    <3>1. caller'[c].copy[j] = k
      BY <1>b, <1>6, <2>1
    <3> QED
      BY <1>8, <3>1
  <2>2. CASE j # live
    BY <1>b, <1>6, <2>2 DEF CallerOK
  <2> QED
    BY <2>1, <2>2
<1>10. CallerOK(c)' /\ ~Owner(c)'
  BY <1>0, <1>b, <1>6, <1>7, <1>9 DEF CallerOK, Owner, Bought, Holding, Acts, SubmitOutcomeUnknown
<1> QED
  BY <1>1, <1>b, <1>6, <1>10, QuietConcludes, WriteConcludes

LEMMA SlotStep ==
  ASSUME IInv, NEW c \in Callers, AcquireSlot(c)
  PROVE  IInv' /\ RowStep
<1>0. Quiet
  BY DEF AcquireSlot, Quiet, runVars
<1>b. CallTypes /\ CallerOK(c) /\ caller[c].at \in 1..live /\ caller[c].at \in 0..MaxRows
  BY Basics DEF AcquireSlot, CallerOK, Holding
<1>1. PICK pc \in {"poll", "vendor"} :
         GoTo(c, pc, caller[c].at) /\ (pc = "poll" <=> caller[c].resume)
  BY DEF AcquireSlot
<1>2. /\ Acts(c) /\ caller'[c].pc = pc /\ caller'[c].at = caller[c].at
      /\ caller'[c].copy = caller[c].copy
  BY <1>b, <1>1, GoToMoves DEF Pcs
<1> QED
  BY <1>0, <1>b, <1>1, <1>2, QuietConcludes DEF AcquireSlot, CallerOK, Owner, Bought, Holding, Quiet, Acts

LEMMA SubmitFailsStep ==
  ASSUME IInv, NEW c \in Callers, SubmitFails(c)
  PROVE  IInv' /\ RowStep
<1> DEFINE i == caller[c].at
<1>b. /\ CallTypes /\ CallerOK(c) /\ OwnerOK(c) /\ i \in 1..live /\ i \in Rows
      /\ row[i].st \notin {"absent", "prepared"} /\ accepted[i] = 0 /\ Owner(c)
  BY Basics DEF SubmitFails, CallerOK, Holding, OwnerOK, Owner
<1>0. UNCHANGED <<row, live, lost>>
  BY DEF SubmitFails, runVars
<1>1. /\ Acts(c) /\ caller'[c].pc = "finalize" /\ caller'[c].result = "error"
      /\ caller'[c].at = caller[c].at /\ caller'[c].copy = caller[c].copy
  BY <1>b, AnswerMoves DEF SubmitFails
<1>2. CASE accepted' = accepted
  BY <1>0, <1>b, <1>1, <1>2, QuietConcludes DEF CallerOK, Owner, Bought, Holding, Quiet, Acts
<1>3. CASE accepted' = [accepted EXCEPT ![i] = @ + 1]
  <2>1. Accept(i)
    BY <1>0, <1>b, <1>3 DEF Accept
  <2>2. RowStep /\ Grows
    <3>1. RowStep
      BY <1>b, <2>1 DEF RowStep
    <3> QED
      BY <3>1, RowStepPreserves
  <2>3. CallerOK(c)' /\ ~Owner(c)'
    BY <1>0, <1>b, <1>1, <2>2 DEF CallerOK, Owner, Bought, Holding, Quiet, Acts, Grows
  <2> QED
    BY <1>b, <1>1, <2>1, <2>2, <2>3, Concludes DEF Acts
<1> QED
  BY <1>2, <1>3 DEF SubmitFails

LEMMA SubmitAcceptedStep ==
  ASSUME IInv, NEW c \in Callers, SubmitAccepted(c)
  PROVE  IInv' /\ RowStep
<1> DEFINE i == caller[c].at
<1>b. /\ CallTypes /\ CallerOK(c) /\ OwnerOK(c) /\ i \in 1..live /\ i \in Rows /\ i \in 0..MaxRows
      /\ row[i].st \notin {"absent", "prepared"} /\ accepted[i] = 0 /\ Owner(c)
  BY Basics DEF SubmitAccepted, CallerOK, Holding, OwnerOK, Owner
<1>0. UNCHANGED <<row, live, lost>> /\ accepted' = [accepted EXCEPT ![i] = @ + 1]
  BY DEF SubmitAccepted, runVars
<1>1. PICK pc \in {"accepted", "poll"} : GoTo(c, pc, i)
  BY DEF SubmitAccepted
<1>2. /\ Acts(c) /\ caller'[c].pc = pc /\ caller'[c].at = i /\ caller'[c].copy = caller[c].copy
  BY <1>b, <1>1, GoToMoves DEF Pcs
<1>3. Accept(i)
  BY <1>0, <1>b DEF Accept
<1>4. RowStep /\ Grows /\ accepted'[i] = 1
  <2>1. RowStep
    BY <1>b, <1>3 DEF RowStep
  <2>2. accepted'[i] = 1
    BY <1>0, <1>b DEF CallTypes
  <2> QED
    BY <2>1, <2>2, RowStepPreserves
<1>5. CallerOK(c)' /\ ~Owner(c)'
  BY <1>0, <1>b, <1>2, <1>4 DEF CallerOK, Owner, Bought, Holding, Quiet, Acts, Grows, SubmitAccepted
<1> QED
  BY <1>b, <1>2, <1>3, <1>4, <1>5, Concludes DEF Acts

LEMMA MarkPollingStep ==
  ASSUME IInv, NEW c \in Callers, MarkPolling(c)
  PROVE  IInv' /\ RowStep
<1> DEFINE i == caller[c].at
<1>b. /\ CallTypes /\ CallerOK(c) /\ i \in 1..live /\ i \in Rows /\ accepted[i] = 1
      /\ caller[c].copy \in [Rows -> CopyType]
  BY Basics DEF MarkPolling, CallerOK, Holding, Bought
<1>0. UNCHANGED <<live, accepted, lost>>
  BY DEF MarkPolling, runVars
<1>1. PICK k : k = [caller[c].copy[i] EXCEPT !.st = "polling", !.task = TRUE]
  OBVIOUS
<1>2. k \in CopyType /\ k.task = TRUE /\ k.usage = caller[c].copy[i].usage
  <2>1. caller[c].copy[i] \in CopyType /\ "polling" \in DOMAIN Rank
    BY <1>b, Ranks
  <2> QED
    BY <1>1, <2>1 DEF CopyType
<1>3. /\ Acts(c) /\ caller'[c].pc = "poll" /\ caller'[c].at = i /\ caller'[c].copy[i] = k
      /\ \A j \in Rows \ {i} : caller'[c].copy[j] = caller[c].copy[j]
  <2>1. GoWith(c, "poll", i, k)
    BY <1>1 DEF MarkPolling
  <2> QED
    BY <1>b, <1>2, <2>1, GoWithMoves DEF Pcs
<1>4. CallerOK(c)' /\ ~Owner(c)'
  BY <1>0, <1>b, <1>2, <1>3 DEF CallerOK, Owner, Bought, Holding, Quiet, Acts, MarkPolling
<1>5. CASE row[i].st = "submitted"
  <2>1. Write(i)
    BY <1>0, <1>5, <1>b, TaskWrite DEF MarkPolling
  <2> QED
    BY <1>b, <1>3, <1>4, <2>1, WriteConcludes
<1>6. CASE row[i].st # "submitted"
  <2>1. Quiet
    BY <1>0, <1>6 DEF MarkPolling, Quiet
  <2> QED
    BY <1>3, <1>4, <2>1, QuietConcludes
<1> QED
  BY <1>5, <1>6

LEMMA CollectStep ==
  ASSUME IInv, NEW c \in Callers, CollectResult(c)
  PROVE  IInv' /\ RowStep
<1>0. Quiet
  BY DEF CollectResult, Quiet, runVars
<1>b. CallTypes /\ CallerOK(c)
  BY Basics
<1>1. /\ Acts(c) /\ caller'[c].pc = "finalize" /\ caller'[c].at = caller[c].at
      /\ caller'[c].copy = caller[c].copy
  BY <1>b, AnswerMoves DEF CollectResult
<1> QED
  BY <1>0, <1>b, <1>1, QuietConcludes DEF CollectResult, CallerOK, Owner, Bought, Holding, Quiet, Acts

LEMMA SuccessStep ==
  ASSUME IInv, NEW c \in Callers, FinalizeSuccess(c)
  PROVE  IInv' /\ RowStep
<1> DEFINE i == caller[c].at
<1>b. /\ CallTypes /\ CallerOK(c) /\ i \in 1..live /\ i \in Rows /\ accepted[i] = 1
      /\ caller[c].copy \in [Rows -> CopyType]
  BY Basics DEF FinalizeSuccess, CallerOK, Holding, Bought
<1>0. UNCHANGED <<live, accepted, lost>>
  BY DEF FinalizeSuccess, runVars
<1>1. PICK u \in {"billed", "unbilled"} :
         u = IF row[i].st \notin Terminal THEN "billed" ELSE "unbilled"
  OBVIOUS
<1>2. PICK k : k = [caller[c].copy[i] EXCEPT !.st = "succeeded", !.usage = u]
  OBVIOUS
<1>3. k \in CopyType /\ k.st = "succeeded"
  <2>1. caller[c].copy[i] \in CopyType /\ "succeeded" \in DOMAIN Rank /\ u \in Usages
    BY <1>b, <1>1, Ranks DEF Terminal, Usages
  <2> QED
    BY <1>2, <2>1 DEF CopyType
<1>4. /\ Acts(c) /\ caller'[c].pc = "sync" /\ caller'[c].copy[i] = k
      /\ \A j \in Rows \ {i} : caller'[c].copy[j] = caller[c].copy[j]
  <2>1. GoWith(c, "sync", i, k)
    BY <1>1, <1>2 DEF FinalizeSuccess
  <2> QED
    BY <1>b, <1>3, <2>1, GoWithMoves DEF Pcs
<1>5. CallerOK(c)' /\ ~Owner(c)'
  BY <1>0, <1>b, <1>3, <1>4 DEF CallerOK, Owner, Bought, Holding, Quiet, Acts, FinalizeSuccess
<1>6. CASE row[i].st \notin Terminal
  <2>1. Write(i)
    BY <1>0, <1>6, <1>b, ResultWrite DEF FinalizeSuccess
  <2> QED
    BY <1>b, <1>4, <1>5, <2>1, WriteConcludes
<1>7. CASE row[i].st \in Terminal
  <2>1. Quiet
    BY <1>0, <1>7 DEF FinalizeSuccess, Quiet
  <2> QED
    BY <1>4, <1>5, <2>1, QuietConcludes
<1> QED
  BY <1>6, <1>7

LEMMA FailureStep ==
  ASSUME IInv, NEW c \in Callers, FinalizeFailure(c)
  PROVE  IInv' /\ RowStep
<1> DEFINE i == caller[c].at
<1>b. /\ CallTypes /\ CallerOK(c) /\ i \in 1..live /\ i \in Rows
      /\ caller[c].copy \in [Rows -> CopyType] /\ caller[c] \in CallerType
      /\ caller[c].copy[i] \in CopyType
  BY Basics DEF FinalizeFailure, CallerOK, Holding
<1>0. UNCHANGED <<live, accepted, lost>>
  BY DEF FinalizeFailure, runVars
<1> DEFINE kept == caller[c].result = "kept" /\ caller[c].copy[i].st = "polling"
<1>1. PICK st \in {"failed", "timed_out"} :
        /\ row' = IF kept \/ row[i].st \in Terminal THEN row
                  ELSE [row EXCEPT ![i].st = st, ![i].aged = FALSE]
        /\ caller' = [caller EXCEPT ![c].pc = "sync", ![c].result = "error",
                                    ![c].copy[i].st = IF kept THEN @ ELSE st]
  BY DEF FinalizeFailure
<1>2. PICK s : s = IF kept THEN caller[c].copy[i].st ELSE st
  OBVIOUS
<1>3. caller' = [caller EXCEPT ![c].pc = "sync", ![c].result = "error", ![c].copy[i].st = s]
  BY <1>1, <1>2
<1>4. [caller[c].copy EXCEPT ![i].st = s] \in [Rows -> CopyType]
  <2>1. s \in {"none"} \cup DOMAIN Rank
    BY <1>b, <1>1, <1>2, Ranks DEF CopyType, Terminal
  <2> QED
    BY <1>b, <2>1 DEF CopyType
<1>5. /\ Acts(c) /\ caller'[c].pc = "sync" /\ caller'[c].copy = [caller[c].copy EXCEPT ![i].st = s]
  BY <1>3, <1>b, <1>4 DEF CallTypes, CallerType, Acts, Moves, Pcs
<1>6. \A j \in Rows : /\ caller'[c].copy[j].usage = caller[c].copy[j].usage
                      /\ caller'[c].copy[j].st = "polling"
                           => /\ caller[c].copy[j].st = "polling"
                              /\ caller'[c].copy[j].task = caller[c].copy[j].task
  <2>1. \A j \in Rows : caller[c].copy[j] \in CopyType
    BY <1>b
  <2>2. s = "polling" => caller[c].copy[i].st = "polling"
    BY <1>1, <1>2
  <2> QED
    BY <1>b, <1>5, <2>1, <2>2 DEF CopyType
<1>7. CallerOK(c)' /\ ~Owner(c)'
  BY <1>0, <1>b, <1>5, <1>6 DEF CallerOK, Owner, Bought, Holding, Quiet, Acts, FinalizeFailure
<1>8. CASE row' = row
  BY <1>0, <1>5, <1>7, <1>8, QuietConcludes DEF Quiet
<1>9. CASE ~kept /\ row[i].st \notin Terminal
  <2>1. row' = [row EXCEPT ![i].st = st, ![i].aged = FALSE]
    BY <1>1, <1>9
  <2>2. Write(i)
    BY <1>0, <1>9, <1>b, <2>1, StatusWrite
  <2> QED
    BY <1>b, <1>5, <1>7, <2>2, WriteConcludes
<1> QED
  BY <1>1, <1>8, <1>9

LEMMA IdleThread ==
  ASSUME NEW c \in Callers, CallTypes, caller'[c] = Idle
  PROVE  CallerOK(c)' /\ ~Owner(c)'
BY DEF Idle, NoCopy, CallerOK, Owner, Bought, Holding

LEMMA IdleTyped == Idle \in CallerType /\ Idle.pc = "idle"
<1>1. NoCopy \in CopyType
  BY DEF NoCopy, CopyType, Usages
<1> QED
  BY <1>1, RunsAssumption, RowsAssumption DEF Idle, CallerType, Pcs

\* A thread that ends.
LEMMA IdleMoves ==
  ASSUME CallTypes, NEW c \in Callers, caller' = [caller EXCEPT ![c] = Idle]
  PROVE  Moves(c) /\ caller'[c] = Idle
BY IdleTyped DEF CallTypes, Moves

LEMMA ReplayStep ==
  ASSUME IInv, NEW c \in Callers, Replay(c)
  PROVE  IInv' /\ RowStep
<1> DEFINE i == caller[c].at
<1>0. Quiet
  BY DEF Replay, Quiet, runVars
<1>b. /\ CallTypes /\ CallerOK(c) /\ i \in 1..live /\ i \in Rows /\ i \in 0..MaxRows /\ RowOK(i)
      /\ caller[c].copy \in [Rows -> CopyType] /\ caller[c] \in CallerType /\ caller[c].run \in Runs
  BY Basics DEF Replay, CallerOK, Holding
<1>1. CASE Return(c, "error")
  <2>1. Acts(c) /\ caller'[c].pc = "sync" /\ caller'[c].copy = caller[c].copy
    BY <1>1, <1>b, ReturnMoves
  <2> QED
    BY <1>0, <1>b, <2>1, QuietConcludes DEF CallerOK, Owner, Bought, Holding, Quiet, Acts
<1>2. CASE row[i].payload /\ i \in lost /\ GoTo(c, "reopen", i)
  <2>1. row[i].st \in Terminal
    BY <1>2, <1>b DEF RowOK
  <2>2. Acts(c) /\ caller'[c].pc = "reopen" /\ caller'[c].at = i /\ caller'[c].copy = caller[c].copy
    BY <1>2, <1>b, GoToMoves DEF Pcs
  <2> QED
    BY <1>0, <1>2, <1>b, <2>1, <2>2, QuietConcludes DEF CallerOK, Owner, Bought, Holding, Quiet, Acts
<1>3. CASE row[i].payload /\ caller' = [caller EXCEPT ![c].pc = "sync", ![c].result = "ok",
                         ![c].copy[i] = [CopyOf(i) EXCEPT !.usage = "billed"]]
  <2>1. PICK k : k = [CopyOf(i) EXCEPT !.usage = "billed"]
    OBVIOUS
  <2>2. k \in CopyType /\ k.st = row[i].st /\ k.usage = "billed"
    <3>1. CopyOf(i) \in CopyType /\ CopyOf(i).st = row[i].st
      BY <1>b, CopyTypes
    <3> QED
      BY <2>1, <3>1 DEF CopyType, Usages
  <2>3. /\ Acts(c) /\ caller'[c].pc = "sync" /\ caller'[c].copy = [caller[c].copy EXCEPT ![i] = k]
    <3>1. [caller[c].copy EXCEPT ![i] = k] \in [Rows -> CopyType]
      BY <1>b, <2>2
    <3>2. caller' = [caller EXCEPT ![c].pc = "sync", ![c].result = "ok", ![c].copy[i] = k]
      BY <1>3, <2>1
    <3> QED
      BY <1>b, <3>1, <3>2 DEF CallTypes, CallerType, Acts, Moves, Pcs
  <2>4. k.st # "polling"
    BY <1>3, <1>b, <2>2 DEF RowOK, Terminal
  <2>5. \A j \in Rows : caller'[c].copy[j].st = "polling" \/ caller'[c].copy[j].usage = "unbilled"
                        => caller'[c].copy[j] = caller[c].copy[j]
    BY <1>b, <2>2, <2>3, <2>4
  <2> QED
    BY <1>0, <1>b, <2>3, <2>5, QuietConcludes DEF CallerOK, Owner, Bought, Holding, Quiet, Acts
<1> QED
  BY <1>1, <1>2, <1>3 DEF Replay

\* The rows as their counting finds them.
LEMMA Counted ==
  ASSUME IInv
  PROVE  /\ Cardinality({i \in Rows : row[i].st # "absent"}) = live
         /\ RoomForRow => live + 1 \in Rows /\ LastRow = live
<1>b. Shape /\ live \in 0..MaxRows
  BY DEF IInv, CallTypes
<1>1. {i \in Rows : row[i].st # "absent"} = 1..live
  BY <1>b, RowsAssumption DEF Shape, Rows
<1>2. Cardinality(1..live) = live
  BY <1>b, RowsAssumption, FS_Interval
<1>3. ASSUME RoomForRow
      PROVE  live + 1 \in Rows
  BY <1>b, <1>3, RowsAssumption DEF RoomForRow, Shape, Rows
<1>4. LastRow = live
  <2> DEFINE Is(i) == /\ i # 0 => row[i].st # "absent"
                      /\ \A j \in Rows : j > i => row[j].st = "absent"
  <2>1. Is(live) /\ live \in Rows \cup {0}
    BY <1>b, RowsAssumption DEF Shape, Rows
  <2>2. \A i \in Rows \cup {0} : Is(i) => i = live
    <3> SUFFICES ASSUME NEW i \in Rows \cup {0}, Is(i) PROVE i = live
      OBVIOUS
    <3>1. i # 0 => i <= live
      BY <1>b DEF Shape, Rows
    <3>2. live # 0 => ~(live > i)
      BY <1>b, RowsAssumption DEF Shape, Rows
    <3> QED
      BY <1>b, <3>1, <3>2, RowsAssumption DEF Rows
  <2> QED
    BY <2>1, <2>2 DEF LastRow
<1> QED
  BY <1>1, <1>2, <1>3, <1>4

LEMMA ReopenStep ==
  ASSUME IInv, NEW c \in Callers, Reopen(c)
  PROVE  IInv' /\ RowStep
<1>b. /\ CallTypes /\ Shape /\ CallerOK(c) /\ caller[c].run \in Runs /\ caller[c].at \in 1..live
      /\ caller[c].copy \in [Rows -> CopyType]
  BY Basics DEF Reopen, CallerOK, Holding
<1>0. UNCHANGED <<accepted, lost>>
  BY DEF Reopen, runVars
<1>1. CASE live = caller[c].at /\ RoomForRow
  <2>1. live' = live + 1 /\ live' \in Rows
    BY <1>1, Counted DEF Reopen
  <2>2. row' = [row EXCEPT ![live'] = [NoRow EXCEPT !.st = "prepared", !.run = caller[c].run]]
    BY <1>1, <2>1, Counted DEF Reopen, Opened
  <2>3. [NoRow EXCEPT !.st = "prepared", !.run = caller[c].run] \in RowType
    <3>1. "absent" \in DOMAIN Rank /\ "prepared" \in DOMAIN Rank /\ caller[c].run \in 0..MaxRun
      BY <1>b, Ranks, RunsAssumption DEF Runs
    <3>2. NoRow \in RowType
      BY <3>1, RunsAssumption DEF NoRow, RowType
    <3> QED
      BY <3>1, <3>2 DEF RowType
  <2>4. Insert(caller[c].run)
    <3>1. row[live].st \in Terminal /\ (row[live].run # caller[c].run \/ live \in lost)
      BY <1>1, <1>b DEF Reopen, CallerOK
    <3> QED
      BY <1>0, <1>b, <2>1, <2>2, <2>3, <3>1 DEF Insert, CallTypes
  <2>5. PICK k : k = [NoCopy EXCEPT !.st = "prepared"]
    OBVIOUS
  <2>6. k \in CopyType /\ k.st = "prepared" /\ k.usage = "none"
    BY <2>5, Ranks DEF NoCopy, CopyType, Usages
  <2>7. /\ Acts(c) /\ caller'[c].pc = "check" /\ caller'[c].at = live'
        /\ caller'[c].copy[live'] = k
        /\ \A j \in Rows \ {live'} : caller'[c].copy[j] = caller[c].copy[j]
    <3>1. GoWith(c, "check", live', k)
      BY <1>1, <2>5 DEF Reopen
    <3> QED
      BY <1>b, <2>1, <2>6, <3>1, GoWithMoves DEF Pcs
  <2>8. RowStep /\ accepted' = accepted /\ live' \in 1..live'
    BY <1>0, <1>b, <2>1, <2>4 DEF RowStep, Rows, CallTypes
  <2>9. CallerOK(c)' /\ ~Owner(c)'
    BY <1>b, <2>6, <2>7, <2>8 DEF CallerOK, Owner, Bought, Holding, Acts
  <2> QED
    BY <2>7, <2>8, <2>9, Concludes DEF Acts
<1>2. CASE ~(live = caller[c].at /\ RoomForRow)
  <2>1. Quiet /\ caller' = [caller EXCEPT ![c] = Idle]
    BY <1>0, <1>2 DEF Reopen, Quiet
  <2>2. Moves(c) /\ caller'[c] = Idle
    BY <1>b, <2>1, IdleMoves
  <2>3. CallerOK(c)' /\ ~Owner(c)'
    BY <1>b, <2>2, IdleThread
  <2> QED
    BY <2>1, <2>2, <2>3, Concludes DEF Quiet, RowStep
<1> QED
  BY <1>1, <1>2

LEMMA SyncStep ==
  ASSUME IInv, NEW c \in Callers, SyncCall(c)
  PROVE  IInv' /\ RowStep
<1>b. /\ CallTypes /\ CallerOK(c) /\ caller[c].copy \in [Rows -> CopyType]
      /\ live \in Rows => live \in 1..live
  BY Basics, RowsAssumption DEF Rows
<1>0. UNCHANGED <<live, accepted, lost>>
  BY DEF SyncCall
<1>1. Moves(c) /\ caller'[c] = Idle
  BY <1>b, IdleMoves DEF SyncCall
<1>2. CallerOK(c)' /\ ~Owner(c)'
  BY <1>b, <1>1, IdleThread
<1>3. CASE row' = row
  BY <1>0, <1>1, <1>2, <1>3, Concludes DEF Quiet, RowStep
<1>4. CASE row' # row
  <2>1. /\ Copied(c) \subseteq {live}
        /\ row' = [i \in Rows |-> IF i \in Copied(c) THEN Merged(row[i], caller[c].copy[i])
                                                       ELSE row[i]]
    BY <1>4 DEF SyncCall
  <2>2. Copied(c) # {}
    <3> SUFFICES ASSUME Copied(c) = {} PROVE FALSE
      OBVIOUS
    <3>1. row' = [i \in Rows |-> row[i]]
      BY <2>1
    <3>2. row = [i \in Rows |-> row[i]]
      BY <1>b DEF CallTypes
    <3> QED
      BY <1>4, <3>1, <3>2
  <2>3. Copied(c) = {live} /\ live \in Rows /\ live \in 1..live /\ caller[c].copy[live].st # "none"
    BY <1>b, <2>1, <2>2 DEF Copied
  <2>4. /\ row'[live] = Merged(row[live], caller[c].copy[live])
        /\ \A j \in Rows \ {live} : row'[j] = row[j]
        /\ row' = [j \in Rows |-> row'[j]]
    BY <2>1, <2>3
  <2>5. Write(live)
    <3>1. /\ caller[c].copy[live] \in CopyType
          /\ caller[c].copy[live].st = "polling" \/ caller[c].copy[live].usage = "unbilled"
               => accepted[live] = 1
          /\ caller[c].copy[live].st = "polling" => caller[c].copy[live].task
      BY <1>b, <2>3 DEF CallerOK
    <3> QED
      BY <1>0, <2>3, <2>4, <3>1, MergeWrite
  <2> QED
    BY <1>0, <1>1, <1>2, <2>3, <2>5, Concludes DEF RowStep
<1> QED
  BY <1>3, <1>4
-----------------------------------------------------------------------------
(* Steps of the environment. *)

\* A step that moves no thread and accepts no task.
LEMMA ThreadsStay ==
  ASSUME IInv, RowStep, UNCHANGED <<caller, accepted>>
  PROVE  IInv'
<1>1. /\ row' \in [Rows -> RowType] /\ live' \in 0..MaxRows /\ accepted' \in [Rows -> Nat]
      /\ lost' \in SUBSET Rows /\ Shape' /\ (\A i \in Rows : RowOK(i)') /\ Grows
  BY RowStepPreserves
<1>2. CallTypes'
  BY <1>1 DEF CallTypes, IInv
<1>3. \A c \in Callers : CallerOK(c) /\ OwnerOK(c)
  BY DEF IInv
<1>4. live \in Nat /\ live' \in Nat /\ \A i \in 1..live : i \in 1..live'
  BY <1>1 DEF Grows, IInv, CallTypes
<1>5. ASSUME NEW c \in Callers
      PROVE  CallerOK(c)' /\ OwnerOK(c)'
  <2>1. CallerOK(c) /\ (caller[c].pc \in Holding => caller[c].at \in 1..live)
    BY <1>3 DEF CallerOK
  <2>2. CallerOK(c)'
    BY <1>1, <1>4, <2>1 DEF CallerOK, Grows, Bought, Holding
  <2>3. OwnerOK(c)'
    BY <1>1, <1>3, <2>1 DEF OwnerOK, Owner, Grows, Holding
  <2> QED
    BY <2>2, <2>3
<1> QED
  BY <1>1, <1>2, <1>5 DEF IInv

LEMMA BeginStep ==
  ASSUME IInv, NEW c \in Callers, NEW r \in Runs, Begin(c, r)
  PROVE  IInv' /\ Quiet
<1>1. Quiet
  BY DEF Begin, Quiet
<1>2. PICK k : k = [Idle EXCEPT !.pc = "load", !.run = r]
  OBVIOUS
<1>3. /\ k \in CallerType /\ k.pc = "load" /\ k.run = r /\ k.copy = Idle.copy
  <2>1. Idle \in CallerType /\ r \in 0..MaxRun
    BY IdleTyped, RunsAssumption DEF Runs
  <2> QED
    BY <1>2, <2>1 DEF CallerType, Pcs
<1>4. Moves(c) /\ caller'[c] = k
  BY <1>2, <1>3 DEF Begin, IInv, CallTypes, Moves
<1>5. CallerOK(c)' /\ ~Owner(c)'
  <2>1. \A i \in Rows : caller'[c].copy[i].st # "polling" /\ caller'[c].copy[i].usage # "unbilled"
    BY <1>3, <1>4 DEF Idle, NoCopy
  <2> QED
    BY <1>3, <1>4, <2>1 DEF CallerOK, Owner, Bought, Holding
<1> QED
  BY <1>1, <1>4, <1>5, Concludes DEF Quiet, RowStep

LEMMA DeathStep ==
  ASSUME IInv, NEW c \in Callers, AttemptDies(c)
  PROVE  IInv' /\ Quiet
<1>1. Quiet /\ caller' = [caller EXCEPT ![c] = Idle]
  BY DEF AttemptDies, Quiet, runVars
<1>2. Moves(c) /\ caller'[c] = Idle
  BY <1>1, IdleMoves DEF IInv
<1>3. CallerOK(c)' /\ ~Owner(c)'
  BY <1>2, IdleThread DEF IInv
<1> QED
  BY <1>1, <1>2, <1>3, Concludes DEF Quiet, RowStep

LEMMA CrashStep ==
  ASSUME IInv, Crash
  PROVE  IInv' /\ Quiet
<1>1. Quiet /\ caller' = [c \in Callers |-> Idle]
  BY DEF Crash, Quiet, runVars
<1>2. /\ row' \in [Rows -> RowType] /\ live' \in 0..MaxRows /\ accepted' \in [Rows -> Nat]
      /\ lost' \in SUBSET Rows /\ Shape' /\ \A i \in Rows : RowOK(i)'
  BY <1>1, RowStepPreserves DEF RowStep
<1>3. CallTypes'
  BY <1>1, <1>2, IdleTyped DEF CallTypes
<1>4. \A c \in Callers : CallerOK(c)' /\ ~Owner(c)'
  BY <1>1, IdleThread DEF IInv
<1> QED
  BY <1>1, <1>2, <1>3, <1>4 DEF IInv, OwnerOK

LEMMA AgeStep ==
  ASSUME IInv, NEW i \in Rows, RowAges(i)
  PROVE  IInv' /\ RowStep
<1>1. i \in 1..live
  BY DEF RowAges, Rows, IInv, CallTypes
<1>2. Write(i)
  BY <1>1, AgeWrite DEF RowAges, runVars
<1> QED
  BY <1>2, ThreadsStay DEF RowAges, RowStep

LEMMA EvictStep ==
  ASSUME IInv, NEW i \in Rows, EvictMedia(i)
  PROVE  IInv' /\ RowStep
<1>1. row[i].payload /\ UNCHANGED <<row, live, accepted, caller>> /\ lost' = lost \cup {i}
  BY DEF EvictMedia, callVars
<1>2. row[i].st \in Terminal /\ accepted[i] = 1
  BY <1>1 DEF IInv, RowOK
<1>3. i \in 1..live
  BY <1>2 DEF IInv, Shape, Terminal, CallTypes, Rows
<1>4. Evict(i)
  BY <1>1, <1>2, <1>3 DEF Evict
<1> QED
  BY <1>1, <1>4, ThreadsStay DEF RowStep

\* A step that leaves the call to its limiter, its workflow or nobody.
LEMMA ElsewhereStep ==
  ASSUME IInv, UNCHANGED <<callVars, lost>>
  PROVE  IInv' /\ Quiet
<1>1. Quiet /\ caller' = caller
  BY DEF callVars, Quiet
<1> QED
  BY <1>1, ThreadsStay DEF RowStep, Quiet

LEMMA AdvanceStep ==
  ASSUME IInv, NEW c \in Callers, Advance(c)
  PROVE  IInv' /\ RowStep
<1>1. CASE LimiterTrouble(c)
  BY <1>1, ElsewhereStep DEF LimiterTrouble, runVars, RowStep
<1>2. CASE Load(c) \/ GetOrCreate(c) \/ FailBeforeSubmit(c) \/ ClaimSubmit(c)
  BY <1>2, LoadStep, CreateStep, FailBeforeStep, ClaimStep
<1>3. CASE RecoverSubmitted(c) \/ SubmitOutcomeUnknown(c) \/ AcquireSlot(c)
  BY <1>3, RecoverStep, UnknownStep, SlotStep
<1>4. CASE SubmitFails(c) \/ SubmitAccepted(c) \/ MarkPolling(c) \/ CollectResult(c)
  BY <1>4, SubmitFailsStep, SubmitAcceptedStep, MarkPollingStep, CollectStep
<1>5. CASE FinalizeSuccess(c) \/ FinalizeFailure(c) \/ Replay(c) \/ Reopen(c) \/ SyncCall(c)
  BY <1>5, SuccessStep, FailureStep, ReplayStep, ReopenStep, SyncStep
<1> QED
  BY <1>1, <1>2, <1>3, <1>4, <1>5 DEF Advance

LEMMA StepPreserves ==
  ASSUME IInv, [Next]_vars
  PROVE  IInv' /\ RowStep
<1>1. ASSUME NEW c \in Callers, Advance(c) PROVE IInv' /\ RowStep
  BY <1>1, AdvanceStep
<1>2. ASSUME NEW c \in Callers, AttemptDies(c) PROVE IInv' /\ RowStep
  BY <1>2, DeathStep DEF RowStep
<1>3. ASSUME NEW c \in Callers, NEW r \in Runs, Begin(c, r) PROVE IInv' /\ RowStep
  BY <1>3, BeginStep DEF RowStep
<1>4. CASE Crash
  BY <1>4, CrashStep DEF RowStep
<1>5. ASSUME NEW r \in Runs, RunFails(r) PROVE IInv' /\ RowStep
  BY <1>5, ElsewhereStep DEF RunFails, RowStep
<1>6. ASSUME NEW i \in Rows, RowAges(i) \/ EvictMedia(i) PROVE IInv' /\ RowStep
  BY <1>6, AgeStep, EvictStep
<1>7. CASE LimiterStep
  BY <1>7, ElsewhereStep DEF LimiterStep, runVars, RowStep
<1>8. CASE UNCHANGED vars
  BY <1>8, ElsewhereStep DEF vars, runVars, RowStep
<1> QED
  BY <1>1, <1>2, <1>3, <1>4, <1>5, <1>6, <1>7, <1>8 DEF Next

LEMMA InitEstablishes ==
  ASSUME Init
  PROVE  IInv
<1>1. /\ row = [i \in Rows |-> NoRow] /\ live = 0 /\ accepted = [i \in Rows |-> 0]
      /\ caller = [c \in Callers |-> Idle] /\ lost = {}
  BY DEF Init
<1>2. NoRow \in RowType
  BY Ranks, RunsAssumption DEF NoRow, RowType
<1>3. CallTypes
  BY <1>1, <1>2, IdleTyped, RowsAssumption DEF CallTypes
<1>4. Shape /\ \A i \in Rows : RowOK(i)
  BY <1>1 DEF Shape, RowOK, NoRow, Rows
<1>5. \A c \in Callers : CallerOK(c) /\ OwnerOK(c)
  BY <1>1 DEF CallerOK, OwnerOK, Owner, Bought, Holding, Idle, NoCopy
<1> QED
  BY <1>3, <1>4, <1>5 DEF IInv
-----------------------------------------------------------------------------
(* The refinement. *)

\* The openings of the contract, as the rows show them.
Page(i) == [run |-> row[i].run, settled |-> row[i].st \in Terminal, lost |-> i \in lost,
            bought |-> accepted[i]]
Books == [i \in {j \in Rows : row[j].st # "absent"} |->
            [run |-> row[i].run, settled |-> row[i].st \in Terminal, lost |-> i \in lost,
             bought |-> accepted[i]]]

LEMMA BooksPages ==
  ASSUME IInv
  PROVE  Books = [i \in 1..live |-> Page(i)]
<1>1. {j \in Rows : row[j].st # "absent"} = 1..live
  BY RowsAssumption DEF IInv, CallTypes, Shape, Rows
<1> QED
  BY <1>1 DEF Books, Page

LEMMA BooksPagesNext ==
  ASSUME IInv'
  PROVE  Books' = [i \in 1..live' |-> Page(i)']
<1>1. {j \in Rows : row'[j].st # "absent"} = 1..live'
  BY RowsAssumption DEF IInv, CallTypes, Shape, Rows
<1> QED
  BY <1>1 DEF Books, Page

LEMMA QuietBooks ==
  ASSUME Quiet
  PROVE  Books' = Books
BY DEF Quiet, Books

LEMMA AcceptBuys ==
  ASSUME IInv, IInv', NEW i \in Rows, Accept(i)
  PROVE  Purchase!Buy
<1>1. /\ i \in DOMAIN Books /\ Books[i].bought = 0
      /\ Books' = [Books EXCEPT ![i].bought = 1]
  <2>1. accepted \in [Rows -> Nat] /\ \A j \in 1..live : j \in Rows
    BY RowsAssumption DEF IInv, CallTypes, Rows
  <2> QED
    BY <2>1, BooksPages, BooksPagesNext DEF Accept, Page
<1> QED
  BY <1>1 DEF Purchase!Buy, Books

LEMMA EvictLoses ==
  ASSUME IInv, IInv', NEW i \in Rows, Evict(i)
  PROVE  Purchase!LoseMedia
<1>1. /\ i \in DOMAIN Books /\ Books[i].bought > 0 /\ Books[i].settled
      /\ Books' = [Books EXCEPT ![i].lost = TRUE]
  <2>0. DOMAIN Books = 1..live /\ i \in 1..live /\ Books[i] = Page(i) /\ live' = live
    BY BooksPages DEF Evict
  <2>1. Books[i].bought = 1 /\ Books[i].settled
    <3>1. accepted[i] = 1 /\ row[i].st \in Terminal
      BY DEF Evict
    <3>2. Page(i).bought = 1 /\ Page(i).settled
      BY <3>1 DEF Page
    <3> QED
      BY <2>0, <3>2
  <2>2. Page(i)' = [Page(i) EXCEPT !.lost = TRUE]
    <3>1. row' = row /\ accepted' = accepted /\ (i \in lost') = TRUE
      BY DEF Evict
    <3>2. PICK s, l, v : s = (row[i].st \in Terminal) /\ l = (i \in lost) /\ v = TRUE
      OBVIOUS
    <3>3. Page(i) = [run |-> row[i].run, settled |-> s, lost |-> l, bought |-> accepted[i]]
      BY <3>2, Zenon DEF Page
    <3>4. Page(i)' = [run |-> row[i].run, settled |-> s, lost |-> v, bought |-> accepted[i]]
      BY <3>1, <3>2, Zenon DEF Page
    <3>5. Page(i)' = [Page(i) EXCEPT !.lost = v]
      BY <3>3, <3>4
    <3> QED
      BY <3>2, <3>5, Zenon
  <2>3. \A j \in 1..live : j # i => Page(j)' = Page(j)
    BY DEF Evict, Page
  <2> QED
    BY <2>0, <2>1, <2>2, <2>3, BooksPages, BooksPagesNext
<1> QED
  BY <1>1 DEF Purchase!LoseMedia, Books

LEMMA WriteSettles ==
  ASSUME IInv, IInv', NEW i \in Rows, Write(i)
  PROVE  Books' = Books \/ Purchase!Settle
<1>1. \A j \in 1..live : j # i => Page(j)' = Page(j)
  BY RowsAssumption DEF Write, Page, Rows, IInv, CallTypes
<1>2. live' = live /\ i \in 1..live /\ row'[i].run = row[i].run /\ accepted' = accepted /\ lost' = lost
  BY DEF Write
<1>3. CASE (row'[i].st \in Terminal) = (row[i].st \in Terminal)
  <2>1. Page(i)' = Page(i)
    BY <1>2, <1>3 DEF Page
  <2> QED
    BY <1>1, <1>2, <2>1, BooksPages, BooksPagesNext
<1>4. CASE (row'[i].st \in Terminal) # (row[i].st \in Terminal)
  <2>1. row'[i].st \in Terminal
    <3>1. Grows
      BY RowStepPreserves DEF RowStep
    <3> QED
      BY <1>2, <1>4, <3>1 DEF Grows
  <2>2. i \in DOMAIN Books /\ Books' = [Books EXCEPT ![i].settled = TRUE]
    <3>1. Page(i)' = [Page(i) EXCEPT !.settled = TRUE]
      <4>1. (row'[i].st \in Terminal) = TRUE
        BY <2>1
      <4>2. PICK s, l, v : s = (row[i].st \in Terminal) /\ l = (i \in lost) /\ v = TRUE
        OBVIOUS
      <4>3. Page(i) = [run |-> row[i].run, settled |-> s, lost |-> l, bought |-> accepted[i]]
        BY <4>2, Zenon DEF Page
      <4>4. Page(i)' = [run |-> row[i].run, settled |-> v, lost |-> l, bought |-> accepted[i]]
        BY <1>2, <4>1, <4>2, Zenon DEF Page
      <4>5. Page(i)' = [Page(i) EXCEPT !.settled = v]
        BY <4>3, <4>4
      <4> QED
        BY <4>2, <4>5, Zenon
    <3> QED
      BY <1>1, <1>2, <3>1, BooksPages, BooksPagesNext
  <2> QED
    BY <2>2 DEF Purchase!Settle, Books
<1> QED
  BY <1>3, <1>4

LEMMA InsertOpens ==
  ASSUME IInv, IInv', NEW r \in Runs, Insert(r)
  PROVE  Purchase!Open
<1> DEFINE new == [run |-> r, settled |-> FALSE, lost |-> FALSE, bought |-> 0]
<1>1. live' = live + 1 /\ live \in Nat /\ live' \in Rows /\ accepted' = accepted /\ lost' = lost
  BY DEF Insert, IInv, CallTypes
<1>2. \A j \in 1..live : Page(j)' = Page(j)
  BY <1>1, RowsAssumption DEF Insert, Page, Rows, IInv, CallTypes
<1>n. PICK n \in Rows : n = live'
  BY <1>1
<1>3. Page(n)' = new
  <2>1. row'[n].run = r /\ row'[n].st = "prepared"
    BY <1>n DEF Insert, NoRow
  <2>2. row[n].st = "absent" /\ accepted[n] = 0 /\ n \notin lost
    BY <1>1, <1>n DEF IInv, Shape, RowOK
  <2>3. (row'[n].st \in Terminal) = FALSE /\ (n \in lost') = FALSE /\ accepted'[n] = 0
    BY <1>1, <2>1, <2>2 DEF Terminal
  <2> QED
    BY <2>1, <2>3 DEF Page
<1> DEFINE Pages == {Page(i) : i \in 1..live} \cup {new}
<1>4. Books \in Seq(Pages) /\ Len(Books) = live /\ DOMAIN Books = 1..live
  BY <1>1, BooksPages
<1>5. Books' = Append(Books, new)
  <2>1. \A j \in 1..live : Books'[j] = Books[j]
    BY <1>1, <1>2, BooksPages, BooksPagesNext
  <2>2. Books'[n] = new /\ n = live + 1
    BY <1>1, <1>n, <1>3, BooksPagesNext
  <2>3. Books' = [j \in 1..live + 1 |-> Books'[j]]
    BY <1>1, BooksPagesNext
  <2> HIDE DEF new, Pages
  <2>4. Books' \in [1..live + 1 -> Pages] /\ new \in Pages
    BY <1>1, <1>4, <2>1, <2>2, <2>3 DEF Pages
  <2> QED
    BY <1>1, <1>4, <2>1, <2>2, <2>3, <2>4
<1>6. Books = <<>> \/ Purchase!Justified(Books[Len(Books)], r)
  <2>1. CASE live = 0
    BY <1>4, <2>1
  <2>2. CASE live # 0
    <3>1. Books[Len(Books)] = Page(live)
      BY <1>1, <1>4, <2>2, BooksPages
    <3>2. row[live].st \in Terminal /\ (row[live].run # r \/ live \in lost)
      BY <2>2 DEF Insert
    <3> QED
      <4>1. Page(live).settled /\ (Page(live).run # r \/ Page(live).lost)
        BY <3>2 DEF Page
      <4> QED
        BY <3>1, <4>1 DEF Purchase!Justified
  <2> QED
    BY <2>1, <2>2
<1> QED
  BY <1>5, <1>6 DEF Purchase!Open, Books

-----------------------------------------------------------------------------
(* The theorems. *)

LEMMA Steps == IInv /\ [Next]_vars => IInv' /\ RowStep
BY StepPreserves

\* Always: the types, the order of the rows, what each row has bought, and one winner
\* of the claim per row.
THEOREM Invariance == Spec => []IInv
BY InitEstablishes, Steps, PTL DEF Spec

\* No step of any thread, snapshot or environment lowers the rank of a row, for any
\* number of threads, runs and faults: a row that was sent is never sent again.
THEOREM NeverBackwards == Spec => ForwardOnly
<1>1. IInv /\ [Next]_vars => [\A i \in Rows : Rank[row'[i].st] >= Rank[row[i].st]]_vars
  BY StepPreserves, RowStepPreserves
<1> QED
  BY <1>1, Invariance, PTL DEF Spec, ForwardOnly

\* mark_succeeded and the late snapshots bill a row only for a task the vendor accepted,
\* and every result that was bought is on the bill.
THEOREM BillsFollowPurchases == Spec => []BillsMatchPurchases
<1>1. IInv => BillsMatchPurchases
  BY DEF IInv, RowOK, BillsMatchPurchases
<1> QED
  BY <1>1, Invariance, PTL

\* A row that polls has its task id, however mark_polling, a failure that keeps the task
\* and the merge of late copies follow each other: _resume_polling can always resume.
THEOREM PollingResumable == Spec => []PollingKeepsTask
<1>1. IInv => PollingKeepsTask
  BY DEF IInv, RowOK, PollingKeepsTask
<1> QED
  BY <1>1, Invariance, PTL

\* The rows implement the contract: one purchase per row, a new row only for a settled
\* one and for a reason, whatever attempts overlap, crash or come late.
THEOREM PurchasesFollowContract == Spec => ImplementsPurchases
<1>1. Init => Purchase!ContractInit
  <2> SUFFICES ASSUME Init PROVE Books = <<>>
    BY DEF Purchase!ContractInit, Books
  <2>1. IInv /\ live = 0
    BY InitEstablishes DEF Init
  <2> QED
    BY <2>1, BooksPages
<1>2. IInv /\ IInv' /\ [Next]_vars => [Purchase!ContractNext]_Books
  <2> SUFFICES ASSUME IInv, IInv', RowStep PROVE Books' = Books \/ Purchase!ContractNext
    BY StepPreserves
  <2> QED
    BY QuietBooks, AcceptBuys, EvictLoses, WriteSettles, InsertOpens
    DEF RowStep, Purchase!ContractNext
<1> QED
  BY <1>1, <1>2, Invariance, PTL DEF Spec, ImplementsPurchases, Purchase!ContractSpec, Books
-----------------------------------------------------------------------------
(* The slots of the limiter, and the types. *)

\* What the limiter keeps, its two bounds, and who is inside a slot.
SlotTypes ==
  /\ redis \in {"up", "degraded"} /\ lease \in [Callers -> {"none", "young", "old"}]
  /\ leaked \in Nat /\ queued \in SUBSET Callers /\ permits \in SUBSET queued
  /\ faults \in 0..MaxFaults
Holds(c) == lease[c] # "none" \/ c \in permits
SlotInv == /\ SlotTypes /\ InflightBounded
           /\ \A c \in Callers : lease[c] # "none" => c \notin queued

LEMMA YoungFinite ==
  ASSUME SlotTypes
  PROVE  IsFiniteSet(Young) /\ IsFiniteSet(permits)
BY CallersAssumption, FS_Subset DEF SlotTypes, Young

\* What a step of the limiter does, with only thread c entering or leaving a slot.
Slots == /\ SlotTypes' /\ Inflight' <= MaxInflight /\ Cardinality(permits') <= MaxInflight
         /\ \A c \in Callers : lease'[c] # "none" => c \notin queued'
OnlyOf(c) == \A d \in Callers \ {c} : Holds(d)' <=> Holds(d)

\* The bounds follow when the counted leases and the permits do.
LEMMA Bounds ==
  ASSUME SlotInv, SlotTypes', Young' \subseteq Young, leaked' <= leaked, permits' \subseteq permits
  PROVE  Inflight' <= MaxInflight /\ Cardinality(permits') <= MaxInflight
<1>1. IsFiniteSet(Young) /\ IsFiniteSet(permits)
  BY YoungFinite DEF SlotInv
<1>2. /\ Cardinality(Young') <= Cardinality(Young) /\ Cardinality(permits') <= Cardinality(permits)
      /\ Cardinality(Young) \in Nat /\ Cardinality(permits) \in Nat
      /\ Cardinality(Young') \in Nat /\ Cardinality(permits') \in Nat
  BY <1>1, FS_Subset, FS_CardinalityType
<1> QED
  BY <1>2, InflightAssumption DEF SlotInv, SlotTypes, InflightBounded, Inflight

LEMMA TakeSlot ==
  ASSUME SlotInv, NEW c \in Callers, TakeLease(c) \/ TakePermit(c), UNCHANGED faults
  PROVE  Slots /\ Holds(c)' /\ OnlyOf(c)
<1>t. /\ SlotTypes /\ Inflight <= MaxInflight /\ Cardinality(permits) <= MaxInflight
      /\ \A d \in Callers : lease[d] # "none" => d \notin queued
      /\ IsFiniteSet(Young) /\ IsFiniteSet(permits)
      /\ Cardinality(Young) \in Nat /\ Cardinality(permits) \in Nat
  BY YoungFinite, FS_CardinalityType DEF SlotInv, InflightBounded
<1>1. CASE TakeLease(c)
  <2>1. SlotTypes' /\ Holds(c)' /\ OnlyOf(c) /\ \A d \in Callers : lease'[d] # "none" => d \notin queued'
    BY <1>t, <1>1 DEF TakeLease, SlotTypes, Holds, OnlyOf
  <2>2. Young' = Young \cup {c}
    BY <1>t, <1>1 DEF TakeLease, SlotTypes, Young
  <2>3. Cardinality(Young') <= Cardinality(Young) + 1 /\ Cardinality(Young') \in Nat
    <3>1. /\ IsFiniteSet(Young \cup {c})
          /\ Cardinality(Young \cup {c}) = IF c \in Young THEN Cardinality(Young)
                                                        ELSE Cardinality(Young) + 1
      BY <1>t, FS_AddElement
    <3> QED
      BY <1>t, <2>2, <3>1, FS_CardinalityType
  <2>4. Inflight' <= MaxInflight
    BY <1>t, <1>1, <2>3, InflightAssumption DEF TakeLease, Inflight, SlotTypes
  <2> QED
    BY <1>t, <1>1, <2>1, <2>4 DEF TakeLease, Slots
<1>2. CASE TakePermit(c)
  <2>1. SlotTypes' /\ Holds(c)' /\ OnlyOf(c) /\ \A d \in Callers : lease'[d] # "none" => d \notin queued'
    BY <1>t, <1>2 DEF TakePermit, SlotTypes, Holds, OnlyOf
  <2>2. Inflight' = Inflight
    BY <1>2 DEF TakePermit, Inflight, Young
  <2>3. Cardinality(permits') <= Cardinality(permits) + 1 /\ Cardinality(permits') \in Nat
    <3>1. /\ IsFiniteSet(permits \cup {c})
          /\ Cardinality(permits \cup {c}) = IF c \in permits THEN Cardinality(permits)
                                                            ELSE Cardinality(permits) + 1
      BY <1>t, FS_AddElement
    <3> QED
      BY <1>t, <1>2, <3>1, FS_CardinalityType DEF TakePermit
  <2>4. Cardinality(permits') <= MaxInflight
    BY <1>t, <1>2, <2>3, InflightAssumption DEF TakePermit
  <2> QED
    BY <1>t, <2>1, <2>2, <2>4 DEF Slots
<1> QED
  BY <1>1, <1>2

\* A young lease that stays behind moves from the thread to the leaked ones.
LEMMA LeakCounts ==
  ASSUME SlotInv, NEW c \in Callers, lease[c] = "young", SlotTypes',
         lease' = [lease EXCEPT ![c] = "none"], leaked' = leaked + 1
  PROVE  Inflight' <= MaxInflight
<1>1. /\ IsFiniteSet(Young) /\ Cardinality(Young) \in Nat /\ Inflight <= MaxInflight /\ leaked \in Nat
  BY YoungFinite, FS_CardinalityType DEF SlotInv, InflightBounded, SlotTypes
<1>2. c \in Young /\ Young' = Young \ {c}
  BY DEF Young, SlotInv, SlotTypes
<1>3. Cardinality(Young') = Cardinality(Young) - 1
  BY <1>1, <1>2, FS_RemoveElement
<1> QED
  BY <1>1, <1>3, InflightAssumption DEF Inflight

LEMMA GiveSlot ==
  ASSUME SlotInv, NEW c \in Callers,
         \/ ReleaseSlot(c) /\ (UNCHANGED faults \/ Fault)
         \/ ReleaseFails(c)
  PROVE  Slots /\ ~Holds(c)' /\ OnlyOf(c)
<1>t. /\ SlotTypes /\ \A d \in Callers : lease[d] # "none" => d \notin queued
  BY DEF SlotInv
<1>1. faults' \in 0..MaxFaults
  BY <1>t, FaultBoundAssumption DEF SlotTypes, Fault, ReleaseFails
<1>2. /\ lease' = [lease EXCEPT ![c] = "none"] /\ permits' \in SUBSET queued' /\ queued' \subseteq queued
      /\ permits' \subseteq permits /\ c \notin permits' /\ permits \ {c} \subseteq permits'
      /\ redis' \in {"up", "degraded"}
      /\ leaked' = leaked \/ (lease[c] = "young" /\ leaked' = leaked + 1)
  BY <1>t DEF ReleaseSlot, ReleaseFails, SlotTypes
<1>3. SlotTypes' /\ ~Holds(c)' /\ OnlyOf(c) /\ \A d \in Callers : lease'[d] # "none" => d \notin queued'
  BY <1>t, <1>1, <1>2 DEF SlotTypes, Holds, OnlyOf
<1>4. Young' \subseteq Young
  BY <1>t, <1>2 DEF Young, SlotTypes
<1>5. Cardinality(permits') <= MaxInflight
  <2>1. IsFiniteSet(permits) /\ Cardinality(permits) <= MaxInflight
    BY <1>t, YoungFinite DEF SlotInv, InflightBounded
  <2>2. /\ Cardinality(permits') <= Cardinality(permits)
        /\ Cardinality(permits') \in Nat /\ Cardinality(permits) \in Nat
    BY <1>2, <2>1, FS_Subset, FS_CardinalityType
  <2> QED
    BY <2>1, <2>2, InflightAssumption
<1>6. Inflight' <= MaxInflight
  <2>1. CASE leaked' = leaked
    BY <1>t, <1>2, <1>3, <1>4, <2>1, Bounds DEF SlotTypes
  <2>2. CASE lease[c] = "young" /\ leaked' = leaked + 1
    BY <1>2, <1>3, <2>2, LeakCounts
  <2> QED
    BY <1>2, <2>1, <2>2
<1> QED
  BY <1>3, <1>5, <1>6 DEF Slots

\* A thread that holds nothing loses Redis or comes back to it.
LEMMA Trouble ==
  ASSUME SlotInv, NEW c \in Callers, ~Holds(c), GoLocal(c) \/ Reconnect(c) \/ AcquireFails(c)
  PROVE  Slots /\ \A d \in Callers : Holds(d)' <=> Holds(d)
<1>t. /\ SlotTypes /\ \A d \in Callers : lease[d] # "none" => d \notin queued
      /\ Inflight <= MaxInflight /\ Cardinality(permits) <= MaxInflight
  BY DEF SlotInv, InflightBounded
<1>1. lease' = lease /\ permits' = permits /\ Young' = Young
  BY DEF GoLocal, Reconnect, AcquireFails, Young
<1>2. SlotTypes' /\ \A d \in Callers : lease'[d] # "none" => d \notin queued'
  BY <1>t, FaultBoundAssumption DEF GoLocal, Reconnect, AcquireFails, SlotTypes, Holds, Fault
<1>3. Inflight' <= MaxInflight
  <2>1. Cardinality(Young) \in Nat
    BY <1>t, YoungFinite, FS_CardinalityType
  <2> QED
    BY <1>t, <1>1, <2>1, InflightAssumption
    DEF GoLocal, Reconnect, AcquireFails, Inflight, SlotTypes
<1> QED
  BY <1>t, <1>1, <1>2, <1>3 DEF Slots, Holds

LEMMA Killed ==
  ASSUME SlotInv, LoseSlots, Fault
  PROVE  Slots /\ \A c \in Callers : ~Holds(c)'
<1>t. SlotTypes /\ Inflight <= MaxInflight
  BY DEF SlotInv, InflightBounded
<1>1. Cardinality(Young) \in Nat /\ Cardinality({}) = 0
  BY <1>t, YoungFinite, FS_CardinalityType, FS_EmptySet
<1>2. SlotTypes'
  BY <1>t, <1>1, FaultBoundAssumption DEF LoseSlots, SlotTypes, Fault, Inflight
<1>3. Young' = {}
  BY DEF LoseSlots, Young
<1>4. Inflight' <= MaxInflight
  BY <1>t, <1>1, <1>3, InflightAssumption DEF LoseSlots, Inflight, SlotTypes
<1> QED
  BY <1>1, <1>2, <1>4, InflightAssumption DEF LoseSlots, Slots, Holds

LEMMA LeasesAge ==
  ASSUME SlotInv, LeakedLeaseAges \/ \E c \in Callers : LeaseAges(c)
  PROVE  Slots /\ \A c \in Callers : Holds(c)' <=> Holds(c)
<1>t. SlotTypes /\ \A d \in Callers : lease[d] # "none" => d \notin queued
  BY DEF SlotInv
<1>1. SlotTypes'
  BY <1>t, FaultBoundAssumption DEF SlotTypes, LeakedLeaseAges, LeaseAges, Fault
<1>2. Young' \subseteq Young /\ leaked' <= leaked /\ permits' = permits /\ queued' = queued
      /\ \A c \in Callers : lease'[c] # "none" <=> lease[c] # "none"
  BY <1>t DEF SlotTypes, LeakedLeaseAges, LeaseAges, Young
<1>3. Inflight' <= MaxInflight /\ Cardinality(permits') <= MaxInflight
  BY <1>1, <1>2, Bounds
<1> QED
  BY <1>t, <1>1, <1>2, <1>3 DEF Slots, Holds
\* The threads see of the limiter only whether they are in a slot.
Agree == \A c \in Callers : InVendor(c)' <=> Holds(c)'
Others(c) == \A d \in Callers \ {c} : caller'[d] = caller[d]

LEMMA SlotsAgree ==
  ASSUME Slots, Agree
  PROVE  SlotInv'
BY DEF Slots, Agree, SlotInv, InflightBounded, Holds

LEMMA OthersAgree ==
  ASSUME SlotInv, Slots, NEW c \in Callers, Others(c), OnlyOf(c), InVendor(c)' <=> Holds(c)'
  PROVE  SlotInv'
<1>1. ASSUME NEW d \in Callers \ {c}
      PROVE  InVendor(d)' <=> Holds(d)'
  BY DEF SlotInv, InflightBounded, Others, OnlyOf, InVendor, Holds
<1> QED
  BY <1>1, SlotsAgree DEF Agree

\* The limiter rests, or only a fault is counted.
LEMMA RestingSlots ==
  ASSUME SlotInv, UNCHANGED limiterVars, UNCHANGED faults \/ Fault
  PROVE  Slots /\ \A c \in Callers : Holds(c)' <=> Holds(c)
<1>1. Inflight' = Inflight /\ UNCHANGED <<lease, leaked, queued, permits, redis>>
  BY DEF limiterVars, Inflight, Young
<1>2. faults' \in 0..MaxFaults
  BY FaultBoundAssumption DEF SlotInv, SlotTypes, Fault
<1> QED
  BY <1>1, <1>2 DEF SlotInv, SlotTypes, InflightBounded, Slots, Holds

\* The steps of a thread outside its slot, and those inside.
LEMMA OutsideSteps ==
  ASSUME CallTypes, NEW c \in Callers,
         \/ Load(c) \/ GetOrCreate(c) \/ FailBeforeSubmit(c) \/ ClaimSubmit(c)
         \/ RecoverSubmitted(c) \/ SubmitOutcomeUnknown(c)
         \/ FinalizeSuccess(c) \/ FinalizeFailure(c) \/ Replay(c) \/ Reopen(c) \/ SyncCall(c)
  PROVE  UNCHANGED <<limiterVars, faults>> /\ Others(c) /\ ~InVendor(c) /\ ~InVendor(c)'
<1>1. caller \in [Callers -> CallerType] /\ caller[c] \in CallerType
  BY DEF CallTypes
<1>2. CASE Load(c)
  BY <1>1, <1>2 DEF Load, GoTo, GoWith, Resume, Return, Others, InVendor, CallerType
<1>3. CASE GetOrCreate(c)
  BY <1>1, <1>3 DEF GetOrCreate, GoTo, Others, InVendor, CallerType
<1>4. CASE FailBeforeSubmit(c)
  BY <1>1, <1>4 DEF FailBeforeSubmit, Others, InVendor, CallerType
<1>5. CASE ClaimSubmit(c)
  BY <1>1, <1>5 DEF ClaimSubmit, GoTo, Others, InVendor, CallerType
<1>6. CASE RecoverSubmitted(c)
  BY <1>1, <1>6 DEF RecoverSubmitted, GoTo, Resume, Return, Others, InVendor, CallerType
<1>7. CASE SubmitOutcomeUnknown(c)
  BY <1>1, <1>7 DEF SubmitOutcomeUnknown, Others, InVendor, CallerType
<1>8. CASE FinalizeSuccess(c)
  BY <1>1, <1>8 DEF FinalizeSuccess, GoWith, Others, InVendor, CallerType
<1>9. CASE FinalizeFailure(c)
  BY <1>1, <1>9 DEF FinalizeFailure, Others, InVendor, CallerType
<1>10. CASE Replay(c)
  BY <1>1, <1>10 DEF Replay, GoTo, Return, Others, InVendor, CallerType
<1>11. CASE Reopen(c)
  BY <1>1, <1>11 DEF Reopen, GoWith, Idle, Others, InVendor, CallerType
<1>12. CASE SyncCall(c)
  BY <1>1, <1>12 DEF SyncCall, Idle, Others, InVendor, CallerType
<1> QED
  BY <1>2, <1>3, <1>4, <1>5, <1>6, <1>7, <1>8, <1>9, <1>10, <1>11, <1>12

LEMMA InsideSteps ==
  ASSUME CallTypes, NEW c \in Callers, SubmitAccepted(c) \/ MarkPolling(c)
  PROVE  UNCHANGED <<limiterVars, faults>> /\ Others(c) /\ InVendor(c) /\ InVendor(c)'
<1>1. caller \in [Callers -> CallerType] /\ caller[c] \in CallerType
  BY DEF CallTypes
<1>2. CASE SubmitAccepted(c)
  BY <1>1, <1>2 DEF SubmitAccepted, GoTo, Others, InVendor, CallerType
<1>3. CASE MarkPolling(c)
  BY <1>1, <1>3 DEF MarkPolling, GoWith, Others, InVendor, CallerType
<1> QED
  BY <1>2, <1>3

LEMMA LeavingSteps ==
  ASSUME CallTypes, NEW c \in Callers, SubmitFails(c) \/ CollectResult(c) \/ AttemptDies(c)
  PROVE  /\ (ReleaseSlot(c) /\ (UNCHANGED faults \/ Fault)) \/ ReleaseFails(c)
         /\ Others(c) /\ ~InVendor(c)'
<1>1. caller \in [Callers -> CallerType] /\ caller[c] \in CallerType
  BY DEF CallTypes
<1>2. CASE SubmitFails(c)
  BY <1>1, <1>2 DEF SubmitFails, Answer, LeaveSlot, Others, InVendor, CallerType
<1>3. CASE CollectResult(c)
  BY <1>1, <1>3 DEF CollectResult, Answer, LeaveSlot, Others, InVendor, CallerType
<1>4. CASE AttemptDies(c)
  BY <1>1, <1>4 DEF AttemptDies, Idle, Others, InVendor, CallerType
<1> QED
  BY <1>2, <1>3, <1>4

LEMMA SlotAdvance ==
  ASSUME IInv, SlotInv, NEW c \in Callers, Advance(c)
  PROVE  SlotInv'
<1>t. CallTypes /\ (InVendor(c) <=> Holds(c))
  BY DEF IInv, SlotInv, InflightBounded, Holds
<1>1. CASE \/ Load(c) \/ GetOrCreate(c) \/ FailBeforeSubmit(c) \/ ClaimSubmit(c)
           \/ RecoverSubmitted(c) \/ SubmitOutcomeUnknown(c)
           \/ FinalizeSuccess(c) \/ FinalizeFailure(c) \/ Replay(c) \/ Reopen(c) \/ SyncCall(c)
           \/ SubmitAccepted(c) \/ MarkPolling(c)
  <2>1. UNCHANGED <<limiterVars, faults>> /\ Others(c) /\ (InVendor(c)' <=> InVendor(c))
    BY <1>t, <1>1, OutsideSteps, InsideSteps
  <2> QED
    BY <1>t, <2>1, RestingSlots, OthersAgree DEF OnlyOf
<1>2. CASE AcquireSlot(c)
  <2>1. (TakeLease(c) \/ TakePermit(c)) /\ UNCHANGED faults
    BY <1>2 DEF AcquireSlot
  <2>2. Others(c) /\ InVendor(c)'
    BY <1>t, <1>2 DEF AcquireSlot, GoTo, Others, InVendor, CallTypes, CallerType
  <2> QED
    BY <2>1, <2>2, TakeSlot, OthersAgree
<1>3. CASE LimiterTrouble(c)
  <2>1. ~InVendor(c) /\ caller' = caller /\ (GoLocal(c) \/ Reconnect(c) \/ AcquireFails(c))
    BY <1>3 DEF LimiterTrouble, InVendor, callVars
  <2>2. Slots /\ \A d \in Callers : Holds(d)' <=> Holds(d)
    BY <1>t, <2>1, Trouble
  <2> QED
    BY <1>t, <2>1, <2>2, OthersAgree DEF Others, OnlyOf, InVendor
<1>4. CASE SubmitFails(c) \/ CollectResult(c)
  BY <1>t, <1>4, LeavingSteps, GiveSlot, OthersAgree
<1> QED
  BY <1>1, <1>2, <1>3, <1>4 DEF Advance

LEMMA SlotStepPreserves ==
  ASSUME IInv, SlotInv, [Next]_vars
  PROVE  SlotInv'
<1>t. CallTypes /\ \A c \in Callers : InVendor(c) <=> Holds(c)
  BY DEF IInv, SlotInv, InflightBounded, Holds
<1>1. ASSUME NEW c \in Callers, AttemptDies(c) PROVE SlotInv'
  BY <1>t, <1>1, LeavingSteps, GiveSlot, OthersAgree
<1>2. ASSUME NEW c \in Callers, NEW r \in Runs, Begin(c, r) PROVE SlotInv'
  <2>1. UNCHANGED limiterVars /\ (UNCHANGED faults \/ Fault)
    BY <1>2 DEF Begin
  <2>2. Others(c) /\ ~InVendor(c) /\ ~InVendor(c)'
    BY <1>t, <1>2 DEF Begin, Idle, Others, InVendor, CallTypes, CallerType
  <2> QED
    BY <1>t, <2>1, <2>2, RestingSlots, OthersAgree DEF OnlyOf
<1>3. CASE Crash
  BY <1>3, Killed, SlotsAgree DEF Crash, Idle, InVendor, Agree
<1>4. ASSUME caller' = caller, UNCHANGED limiterVars, UNCHANGED faults \/ Fault PROVE SlotInv'
  BY <1>t, <1>4, RestingSlots, SlotsAgree DEF Agree, InVendor
<1>5. ASSUME NEW r \in Runs, RunFails(r) PROVE SlotInv'
  BY <1>4, <1>5 DEF RunFails, callVars
<1>6. ASSUME NEW i \in Rows, RowAges(i) \/ EvictMedia(i) PROVE SlotInv'
  BY <1>4, <1>6 DEF RowAges, EvictMedia, callVars
<1>7. CASE LimiterStep
  <2>1. caller' = caller /\ (LeakedLeaseAges \/ \E c \in Callers : LeaseAges(c))
    BY <1>7 DEF LimiterStep, callVars
  <2> QED
    BY <1>t, <2>1, LeasesAge, SlotsAgree DEF Agree, InVendor
<1>8. CASE UNCHANGED vars
  BY <1>4, <1>8 DEF vars, callVars
<1> QED
  BY <1>1, <1>2, <1>3, <1>5, <1>6, <1>7, <1>8, SlotAdvance DEF Next

LEMMA SlotInit ==
  ASSUME Init
  PROVE  SlotInv
<1>1. SlotTypes
  BY FaultBoundAssumption DEF Init, LimiterInit, SlotTypes
<1>2. Young = {} /\ leaked = 0 /\ permits = {} /\ Cardinality({}) = 0
  BY FS_EmptySet DEF Init, LimiterInit, Young
<1>3. \A c \in Callers : ~InVendor(c) /\ ~Holds(c)
  BY DEF Init, LimiterInit, InVendor, Holds, Idle
<1> QED
  BY <1>1, <1>2, <1>3, InflightAssumption
  DEF SlotInv, InflightBounded, Inflight, Holds, Init, LimiterInit

RestTypes == /\ adapter \in {"sync", "polling"} /\ overlapped \in BOOLEAN
             /\ outcome \in [Runs -> {"open", "failed", "succeeded"}]

LEMMA RestSteps ==
  ASSUME RestTypes, [Next]_vars
  PROVE  RestTypes'
<1>1. CASE \E c \in Callers : SyncCall(c)
  BY <1>1 DEF SyncCall, RestTypes
<1>2. CASE \E r \in Runs : RunFails(r)
  BY <1>2 DEF RunFails, RestTypes
<1>3. CASE \E c \in Callers, r \in Runs : Begin(c, r)
  BY <1>3 DEF Begin, RestTypes
<1>4. CASE UNCHANGED <<adapter, outcome, overlapped>>
  BY <1>4 DEF RestTypes
<1>5. ASSUME NEW c \in Callers, Advance(c), ~SyncCall(c)
      PROVE  UNCHANGED <<adapter, outcome, overlapped>>
  <2>1. UNCHANGED runVars
    BY <1>5 DEF Advance, Load, GetOrCreate, FailBeforeSubmit, ClaimSubmit,
         RecoverSubmitted, SubmitOutcomeUnknown, AcquireSlot, LimiterTrouble, SubmitFails,
         SubmitAccepted, MarkPolling, CollectResult, FinalizeSuccess, FinalizeFailure, Replay,
         Reopen
  <2> QED
    BY <2>1 DEF runVars
<1>6. ASSUME \/ \E c \in Callers : AttemptDies(c)
             \/ Crash \/ LimiterStep \/ UNCHANGED vars
             \/ \E i \in Rows : RowAges(i) \/ EvictMedia(i)
      PROVE  UNCHANGED <<adapter, outcome, overlapped>>
  BY <1>6 DEF AttemptDies, Crash, LimiterStep, RowAges, EvictMedia, vars, runVars
<1> QED
  BY <1>1, <1>2, <1>3, <1>4, <1>5, <1>6 DEF Next

LEMMA AllInvariant == Spec => [](IInv /\ SlotInv /\ RestTypes)
<1>1. IInv /\ SlotInv /\ RestTypes /\ [Next]_vars => (IInv /\ SlotInv /\ RestTypes)'
  BY StepPreserves, SlotStepPreserves, RestSteps
<1>2. Init => IInv /\ SlotInv /\ RestTypes
  BY InitEstablishes, SlotInit DEF Init, RestTypes
<1> QED
  BY <1>1, <1>2, PTL DEF Spec

\* max_inflight bounds the leases that count and the permits at every moment, and only
\* a thread that has one of them is at the vendor, for any number of threads and slots:
\* leaked, old and late-released leases, a degraded client and crashes included.
THEOREM SlotsBounded == Spec => []InflightBounded
<1>1. SlotInv => InflightBounded
  BY DEF SlotInv
<1> QED
  BY <1>1, AllInvariant, PTL

\* The rows, the threads and the limiter stay within their types.
THEOREM CallTypesKept == Spec => []TypeOK
<1>1. SlotInv => LimiterType
  <2> SUFFICES ASSUME SlotInv PROVE LimiterType
    OBVIOUS
  <2>1. SlotTypes /\ Inflight <= MaxInflight
    BY DEF SlotInv, InflightBounded
  <2>2. Cardinality(Young) \in Nat
    BY <2>1, YoungFinite, FS_CardinalityType
  <2>3. leaked \in 0..MaxInflight
    BY <2>1, <2>2, InflightAssumption DEF SlotTypes, Inflight
  <2> QED
    BY <2>1, <2>3 DEF SlotTypes, LimiterType
<1>2. IInv /\ LimiterType /\ RestTypes => TypeOK
  BY DEF IInv, CallTypes, RowType, CallerType, CopyType, RestTypes, TypeOK
<1> QED
  BY <1>1, <1>2, AllInvariant, PTL
=============================================================================
