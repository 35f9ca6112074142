------------------------- MODULE ProviderReplayProofs -------------------------
(***************************************************************************)
(* As long as no two attempts were at work together, every success of a    *)
(* provider call can be replayed and is billed once.  The rows' invariant  *)
(* of ProviderInvocationProofs is used, and what it lacks is what a thread *)
(* that was always alone knows: the rows stand as it left them.            *)
(***************************************************************************)
EXTENDS ProviderInvocationProofs

\* A row that succeeded has its result, and a result is on the bill once.
Sold(i) == /\ row[i].st = "succeeded" <=> row[i].payload
           /\ row[i].bills = (IF row[i].payload THEN 1 ELSE 0)

\* A thread that waits for its task stands at a row that is still open; no copy of it
\* settles a row that is not settled that way, or brings a second bill.
AtWork == {"slot", "vendor", "accepted", "poll", "finalize"}
CopyOK(i, k) == k.usage # "unbilled" /\ (k.st \in Terminal => row[i].st = k.st)
LoneOK(c) ==
  /\ caller[c].pc = "check" => row[caller[c].at].st = "prepared"
  /\ caller[c].pc \in AtWork => row[caller[c].at].st \notin Terminal
  /\ \A i \in Rows : CopyOK(i, caller[c].copy[i])

AllSold == \A i \in Rows : Sold(i)
LoneInv == ~overlapped =>
             /\ AllSold
             /\ \A c, d \in Busy : c = d
             /\ \A c \in Busy : LoneOK(c)

-----------------------------------------------------------------------------
(* What the step of a lone thread leaves. *)

\* It is enough to look at the rows and at the thread.
LEMMA AloneConcludes ==
  ASSUME LoneInv, NEW c \in Callers, caller[c].pc # "idle", Moves(c), UNCHANGED overlapped,
         ~overlapped => AllSold' /\ (caller'[c].pc # "idle" => LoneOK(c)')
  PROVE  LoneInv'
<1> SUFFICES ASSUME ~overlapped PROVE LoneInv'
  BY DEF LoneInv
<1>1. \A d \in Callers \ {c} : caller[d].pc = "idle" /\ caller'[d] = caller[d]
  BY DEF LoneInv, Busy, Moves
<1>2. \A d \in Busy' : d = c
  BY <1>1 DEF Busy
<1>3. c \in Busy' => LoneOK(c)'
  BY DEF Busy
<1> QED
  BY <1>2, <1>3 DEF LoneInv

\* What a lone thread may rely on.
LEMMA Lone ==
  ASSUME LoneInv, ~overlapped, NEW c \in Callers, caller[c].pc # "idle"
  PROVE  LoneOK(c) /\ AllSold
BY DEF LoneInv, Busy

\* Settled rows keep their status in this step, and with it the copies.
Lasting == \A i \in Rows : row[i].st \in Terminal => row'[i].st = row[i].st

LEMMA CopyLasts ==
  ASSUME Lasting, NEW i \in Rows, NEW k, CopyOK(i, k)
  PROVE  k.usage # "unbilled" /\ (k.st \in Terminal => row'[i].st = k.st)
BY DEF CopyOK, Lasting

LEMMA KeptRows ==
  ASSUME AllSold, row' = row
  PROVE  AllSold' /\ Lasting
BY DEF AllSold, Sold, Lasting

\* An open row gets a status that is no success.
LEMMA StatusRows ==
  ASSUME CallTypes, AllSold, NEW i \in Rows, NEW s \in DOMAIN Rank, s # "succeeded",
         row[i].st \notin Terminal,
         row' = [row EXCEPT ![i].st = s, ![i].aged = FALSE]
  PROVE  AllSold' /\ Lasting /\ row'[i].st = s
<1>1. row[i] \in RowType
  BY DEF CallTypes
<1>2. /\ row'[i].st = s /\ row'[i].payload = row[i].payload /\ row'[i].bills = row[i].bills
      /\ \A j \in Rows \ {i} : row'[j] = row[j]
  BY <1>1 DEF CallTypes, RowType
<1>3. ~row[i].payload
  BY DEF AllSold, Sold, Terminal
<1> QED
  BY <1>2, <1>3 DEF AllSold, Sold, Lasting

\* A row is inserted.
LEMMA InsertedRows ==
  ASSUME CallTypes, AllSold, NEW n \in Rows, row[n].st = "absent", NEW r,
         row' = [row EXCEPT ![n] = [NoRow EXCEPT !.st = "prepared", !.run = r]]
  PROVE  AllSold' /\ Lasting /\ row'[n].st = "prepared"
<1>1. PICK k : k = [NoRow EXCEPT !.st = "prepared", !.run = r]
  OBVIOUS
<1>2. k.st = "prepared" /\ ~k.payload /\ k.bills = 0
  BY <1>1 DEF NoRow
<1>3. row'[n] = k /\ \A j \in Rows \ {n} : row'[j] = row[j]
  BY <1>1 DEF CallTypes
<1>4. Sold(n)'
  <2>1. row'[n].st = "prepared" /\ ~row'[n].payload /\ row'[n].bills = 0
    BY <1>2, <1>3
  <2> QED
    BY <2>1 DEF Sold
<1>5. \A j \in Rows \ {n} : Sold(j)'
  BY <1>3 DEF AllSold, Sold
<1>6. Lasting
  BY <1>3 DEF Lasting, Terminal
<1> QED
  BY <1>2, <1>3, <1>4, <1>5, <1>6 DEF AllSold

\* The thread ends up outside the check and the vendor with the copies it had.
LEMMA ThreadKeeps ==
  ASSUME NEW c \in Callers, LoneOK(c), Lasting, caller'[c].copy = caller[c].copy,
         caller'[c].pc \notin AtWork \cup {"check"}
  PROVE  LoneOK(c)'
BY CopyLasts DEF LoneOK, CopyOK

\* One copy is new, the others stay.
LEMMA ThreadCopies ==
  ASSUME NEW c \in Callers, LoneOK(c), Lasting, NEW i \in Rows, NEW k,
         caller'[c].copy[i] = k, k.usage # "unbilled", k.st \in Terminal => row'[i].st = k.st,
         \A j \in Rows \ {i} : caller'[c].copy[j] = caller[c].copy[j],
         caller'[c].pc = "check" => row'[caller'[c].at].st = "prepared",
         caller'[c].pc \in AtWork => row'[caller'[c].at].st \notin Terminal
  PROVE  LoneOK(c)'
<1>1. \A j \in Rows : CopyOK(j, caller[c].copy[j])'
  <2> SUFFICES ASSUME NEW j \in Rows PROVE CopyOK(j, caller[c].copy[j])'
    OBVIOUS
  <2>1. CASE j = i
    BY <2>1 DEF CopyOK
  <2>2. CASE j # i
    BY <2>2, CopyLasts DEF CopyOK, LoneOK
  <2> QED
    BY <2>1, <2>2
<1> QED
  BY <1>1 DEF LoneOK

\* The rows and the copies stay; the thread goes on, or to another place.
LEMMA QuietAlone ==
  ASSUME LoneInv, NEW c \in Callers, caller[c].pc # "idle", Moves(c),
         UNCHANGED <<row, overlapped>>, caller'[c].copy = caller[c].copy,
         \/ caller'[c].pc \notin AtWork \cup {"check"}
         \/ /\ caller[c].pc \in AtWork /\ caller'[c].pc \in AtWork
            /\ caller'[c].at = caller[c].at
  PROVE  LoneInv'
<1> SUFFICES ASSUME ~overlapped PROVE AllSold' /\ LoneOK(c)'
  BY AloneConcludes
<1>1. LoneOK(c) /\ AllSold
  BY Lone
<1>2. AllSold' /\ Lasting
  BY <1>1, KeptRows
<1>3. CASE caller'[c].pc \notin AtWork \cup {"check"}
  BY <1>1, <1>2, <1>3, ThreadKeeps
<1>4. CASE caller[c].pc \in AtWork /\ caller'[c].pc \in AtWork /\ caller'[c].at = caller[c].at
  <2>1. caller'[c].pc # "check" /\ row'[caller'[c].at].st \notin Terminal
    BY <1>1, <1>4 DEF LoneOK, AtWork
  <2>2. \A j \in Rows : CopyOK(j, caller[c].copy[j])'
    BY <1>1 DEF LoneOK, CopyOK
  <2> QED
    BY <1>2, <2>1, <2>2 DEF LoneOK
<1> QED
  BY <1>2, <1>3, <1>4

\* The thread resumes a task.
LEMMA ResumeAlone ==
  ASSUME IInv, LoneInv, NEW c \in Callers, caller[c].pc # "idle", NEW i \in Rows,
         UNCHANGED <<row, overlapped>>, row[i].st = "polling", Resume(c, i)
  PROVE  LoneInv'
<1>1. /\ Moves(c) /\ caller'[c].pc = "slot" /\ caller'[c].at = i
      /\ caller'[c].copy[i].st = row[i].st /\ caller'[c].copy[i].usage = "none"
      /\ \A j \in Rows \ {i} : caller'[c].copy[j] = caller[c].copy[j]
  BY ResumeMoves DEF IInv, Acts
<1> SUFFICES ASSUME ~overlapped PROVE AllSold' /\ LoneOK(c)'
  BY <1>1, AloneConcludes
<1>2. LoneOK(c) /\ AllSold
  BY Lone
<1>3. AllSold' /\ Lasting
  BY <1>2, KeptRows
<1>4. row'[i].st \notin Terminal
  BY DEF Terminal
<1> QED
  BY <1>1, <1>2, <1>3, <1>4, ThreadCopies

-----------------------------------------------------------------------------
(* The actions of a thread. *)

LEMMA LoadAlone ==
  ASSUME IInv, LoneInv, NEW c \in Callers, Load(c)
  PROVE  LoneInv'
<1>b. /\ CallTypes /\ 0 \in 0..MaxRows
      /\ live # 0 => live \in Rows /\ live \in 0..MaxRows
  BY Basics
<1>0. UNCHANGED <<row, overlapped>> /\ caller[c].pc = "load"
  BY DEF Load, runVars
<1> DEFINE st == IF live = 0 THEN "absent" ELSE row[live].st
<1>1. ASSUME NEW pc \in {"create", "recover", "replay", "reopen"}, NEW i \in 0..MaxRows, GoTo(c, pc, i)
      PROVE  LoneInv'
  <2>1. Acts(c) /\ caller'[c].pc = pc /\ caller'[c].copy = caller[c].copy
    BY <1>1, <1>b, GoToMoves DEF Pcs
  <2> QED
    BY <1>0, <2>1, QuietAlone DEF Acts, AtWork
<1>2. CASE st = "prepared" /\ GoWith(c, "check", live, CopyOf(live))
  <2>1. live \in Rows
    BY <1>2, <1>b
  <2>2. CopyOf(live) \in CopyType /\ CopyOf(live).st = "prepared" /\ CopyOf(live).usage = "none"
    BY <1>2, <1>b, <2>1, CopyTypes
  <2>3. /\ Moves(c) /\ caller'[c].pc = "check" /\ caller'[c].at = live
        /\ caller'[c].copy[live] = CopyOf(live)
        /\ \A j \in Rows \ {live} : caller'[c].copy[j] = caller[c].copy[j]
    BY <1>2, <1>b, <2>1, <2>2, GoWithMoves DEF Pcs, Acts
  <2> SUFFICES ASSUME ~overlapped PROVE AllSold' /\ LoneOK(c)'
    BY <1>0, <2>3, AloneConcludes
  <2>4. LoneOK(c) /\ AllSold
    BY <1>0, Lone
  <2>5. AllSold' /\ Lasting
    BY <1>0, <2>4, KeptRows
  <2>6. row'[live].st = "prepared" /\ "prepared" \notin Terminal
    BY <1>0, <1>2, <2>1 DEF Terminal
  <2>7. LoneOK(c)'
    BY <2>1, <2>2, <2>3, <2>4, <2>5, <2>6, ThreadCopies DEF AtWork
  <2> QED
    BY <2>5, <2>7
<1>3. CASE st = "polling" /\ Resume(c, live)
  <2>1. live \in Rows /\ row[live].st = "polling"
    BY <1>3, <1>b
  <2> QED
    BY <1>0, <1>3, <2>1, ResumeAlone
<1>4. CASE Return(c, "error")
  <2>1. Acts(c) /\ caller'[c].pc = "sync" /\ caller'[c].copy = caller[c].copy
    BY <1>4, <1>b, ReturnMoves
  <2> QED
    BY <1>0, <2>1, QuietAlone DEF Acts, AtWork
<1>5. st # "absent" => live \in 0..MaxRows
  BY <1>b
<1> QED
  BY <1>1, <1>2, <1>3, <1>4, <1>5, <1>b DEF Load

LEMMA CreateAlone ==
  ASSUME IInv, LoneInv, NEW c \in Callers, GetOrCreate(c)
  PROVE  LoneInv'
<1>b. CallTypes /\ Shape /\ 0 \in 0..MaxRows
  BY Basics
<1>0. overlapped' = overlapped /\ caller[c].pc = "create"
  BY DEF GetOrCreate, runVars
<1>1. Moves(c) /\ caller'[c].pc = "load" /\ caller'[c].copy = caller[c].copy
  BY <1>b, GoToMoves DEF GetOrCreate, Pcs, Acts
<1> SUFFICES ASSUME ~overlapped PROVE AllSold' /\ LoneOK(c)'
  BY <1>0, <1>1, AloneConcludes
<1>2. LoneOK(c) /\ AllSold
  BY <1>0, Lone
<1>3. AllSold' /\ Lasting
  <2>1. CASE live # 0
    BY <1>2, <2>1, KeptRows DEF GetOrCreate
  <2>2. CASE live = 0
    <3>1. {i \in Rows : row[i].st # "absent"} = {} /\ 1 \in Rows /\ row[1].st = "absent"
      BY <1>b, <2>2, RowsAssumption DEF Shape, Rows
    <3>2. Cardinality({i \in Rows : row[i].st # "absent"}) = 0
      BY <3>1, FS_EmptySet
    <3>3. row' = [row EXCEPT ![1] = [NoRow EXCEPT !.st = "prepared", !.run = caller[c].run]]
      BY <2>2, <3>2 DEF GetOrCreate, Opened
    <3> QED
      BY <1>2, <1>b, <3>1, <3>3, InsertedRows
  <2> QED
    BY <2>1, <2>2
<1> QED
  BY <1>1, <1>2, <1>3, ThreadKeeps DEF AtWork

LEMMA FailBeforeAlone ==
  ASSUME IInv, LoneInv, NEW c \in Callers, FailBeforeSubmit(c)
  PROVE  LoneInv'
<1> DEFINE i == caller[c].at
<1>b. /\ CallTypes /\ i \in Rows /\ caller[c].copy \in [Rows -> CopyType]
      /\ caller[c] \in CallerType /\ caller[c].copy[i] \in CopyType
  BY Basics DEF FailBeforeSubmit, CallerOK, Holding
<1>0. overlapped' = overlapped /\ caller[c].pc = "check"
  BY DEF FailBeforeSubmit, runVars
<1>1. PICK k : k = [caller[c].copy[i] EXCEPT !.st = "failed"]
  OBVIOUS
<1>2. k \in CopyType /\ k.st = "failed" /\ k.usage = caller[c].copy[i].usage
  BY <1>b, <1>1, Ranks DEF CopyType, Terminal
<1>3. caller' = [caller EXCEPT ![c].pc = "sync", ![c].result = "error", ![c].copy[i] = k]
  BY <1>1 DEF FailBeforeSubmit
<1>4. /\ Moves(c) /\ caller'[c].pc = "sync" /\ caller'[c].copy[i] = k
      /\ \A j \in Rows \ {i} : caller'[c].copy[j] = caller[c].copy[j]
  BY <1>b, <1>2, <1>3 DEF CallTypes, CallerType, Moves, Pcs
<1> SUFFICES ASSUME ~overlapped PROVE AllSold' /\ LoneOK(c)'
  BY <1>0, <1>4, AloneConcludes
<1>5. LoneOK(c) /\ AllSold /\ k.usage # "unbilled" /\ row[i].st = "prepared"
  BY <1>0, <1>2, <1>b, Lone DEF LoneOK, CopyOK
<1>6. row' = [row EXCEPT ![i].st = "failed", ![i].aged = FALSE]
  BY <1>5 DEF FailBeforeSubmit
<1>7. AllSold' /\ Lasting /\ row'[i].st = "failed"
  BY <1>5, <1>6, <1>b, StatusRows, Ranks DEF Terminal
<1> QED
  BY <1>2, <1>4, <1>5, <1>7, <1>b, ThreadCopies DEF AtWork

LEMMA ClaimAlone ==
  ASSUME IInv, LoneInv, NEW c \in Callers, ClaimSubmit(c)
  PROVE  LoneInv'
<1> DEFINE i == caller[c].at
<1>b. /\ CallTypes /\ i \in Rows /\ i \in 0..MaxRows /\ caller[c].copy \in [Rows -> CopyType]
      /\ caller[c] \in CallerType /\ caller[c].copy[i] \in CopyType
  BY Basics DEF ClaimSubmit, CallerOK, Holding
<1>0. overlapped' = overlapped /\ caller[c].pc = "check"
  BY DEF ClaimSubmit, runVars
<1>1. CASE row[i].st = "prepared"
  <2>1. PICK k : k = [caller[c].copy[i] EXCEPT !.st = "submitted"]
    OBVIOUS
  <2>2. k \in CopyType /\ k.st = "submitted" /\ k.usage = caller[c].copy[i].usage
    BY <1>b, <2>1, Ranks DEF CopyType
  <2>3. caller' = [caller EXCEPT ![c].pc = "slot", ![c].resume = FALSE, ![c].copy[i] = k]
    BY <1>1, <2>1 DEF ClaimSubmit
  <2>4. /\ Moves(c) /\ caller'[c].pc = "slot" /\ caller'[c].copy[i] = k /\ caller'[c].at = i
        /\ \A j \in Rows \ {i} : caller'[c].copy[j] = caller[c].copy[j]
    BY <1>b, <2>2, <2>3 DEF CallTypes, CallerType, Moves, Pcs
  <2> SUFFICES ASSUME ~overlapped PROVE AllSold' /\ LoneOK(c)'
    BY <1>0, <2>4, AloneConcludes
  <2>5. LoneOK(c) /\ AllSold /\ k.usage # "unbilled"
    BY <1>0, <1>b, <2>2, Lone DEF LoneOK, CopyOK
  <2>6. row' = [row EXCEPT ![i].st = "submitted", ![i].aged = FALSE]
    BY <1>1 DEF ClaimSubmit
  <2>7. AllSold' /\ Lasting /\ row'[i].st = "submitted" /\ "submitted" \notin Terminal
    BY <1>1, <1>b, <2>5, <2>6, StatusRows, Ranks DEF Terminal
  <2> QED
    BY <1>b, <2>2, <2>4, <2>5, <2>7, ThreadCopies
<1>2. CASE row[i].st # "prepared"
  <2>1. GoTo(c, "recover", i) /\ row' = row
    BY <1>2 DEF ClaimSubmit
  <2>2. Moves(c) /\ caller'[c].pc = "recover" /\ caller'[c].copy = caller[c].copy
    BY <1>b, <2>1, GoToMoves DEF Pcs, Acts
  <2> QED
    BY <1>0, <2>1, <2>2, QuietAlone DEF AtWork
<1> QED
  BY <1>1, <1>2

LEMMA RecoverAlone ==
  ASSUME IInv, LoneInv, NEW c \in Callers, RecoverSubmitted(c)
  PROVE  LoneInv'
<1>b. CallTypes /\ live \in Rows /\ live \in 0..MaxRows
  BY Basics DEF RecoverSubmitted, CallerOK, Holding
<1>0. UNCHANGED <<row, overlapped>> /\ caller[c].pc = "recover"
  BY DEF RecoverSubmitted, runVars
<1>1. CASE row[live].st = "polling" /\ Resume(c, live)
  BY <1>0, <1>1, <1>b, ResumeAlone
<1>2. ASSUME NEW pc \in {"replay", "refresh"}, GoTo(c, pc, live)
      PROVE  LoneInv'
  <2>1. Moves(c) /\ caller'[c].pc = pc /\ caller'[c].copy = caller[c].copy
    BY <1>2, <1>b, GoToMoves DEF Pcs, Acts
  <2> QED
    BY <1>0, <2>1, QuietAlone DEF AtWork
<1>3. CASE Return(c, "error")
  <2>1. Moves(c) /\ caller'[c].pc = "sync" /\ caller'[c].copy = caller[c].copy
    BY <1>3, <1>b, ReturnMoves DEF Acts
  <2> QED
    BY <1>0, <2>1, QuietAlone DEF AtWork
<1> QED
  BY <1>1, <1>2, <1>3 DEF RecoverSubmitted

LEMMA UnknownAlone ==
  ASSUME IInv, LoneInv, NEW c \in Callers, SubmitOutcomeUnknown(c)
  PROVE  LoneInv'
<1> DEFINE i == caller[c].at
<1>b. /\ CallTypes /\ i \in Rows /\ live \in Rows /\ caller[c].copy \in [Rows -> CopyType]
      /\ caller[c] \in CallerType /\ row[live] \in RowType
      /\ i \in 1..live /\ live \in 1..live
  BY Basics DEF SubmitOutcomeUnknown, CallerOK, Holding
<1>0. UNCHANGED <<live, overlapped>> /\ caller[c].pc = "refresh"
  BY DEF SubmitOutcomeUnknown, runVars
<1>1. PICK k : k = [st |-> row'[live].st, task |-> row[live].task, usage |-> "none"]
  OBVIOUS
<1>2. k \in CopyType /\ k.st = row'[live].st /\ k.usage = "none"
  <2>1. IInv' /\ row[live].task \in BOOLEAN
    BY <1>b, UnknownStep DEF RowType
  <2>2. row'[live].st \in DOMAIN Rank
    BY <1>b, <2>1 DEF IInv, CallTypes, RowType
  <2> QED
    BY <1>1, <2>1, <2>2 DEF CopyType, Usages
<1>3. caller' = [caller EXCEPT ![c].pc = "sync", ![c].result = "error", ![c].copy[live] = k]
  BY <1>1 DEF SubmitOutcomeUnknown
<1>4. /\ Moves(c) /\ caller'[c].pc = "sync" /\ caller'[c].copy[live] = k
      /\ \A j \in Rows \ {live} : caller'[c].copy[j] = caller[c].copy[j]
  BY <1>b, <1>2, <1>3 DEF CallTypes, CallerType, Moves, Pcs
<1> SUFFICES ASSUME ~overlapped PROVE AllSold' /\ LoneOK(c)'
  BY <1>0, <1>4, AloneConcludes
<1>5. LoneOK(c) /\ AllSold
  BY <1>0, Lone
<1>6. AllSold' /\ Lasting
  <2>1. CASE row[i].st \in Terminal
    BY <1>5, <2>1, KeptRows DEF SubmitOutcomeUnknown
  <2>2. CASE row[i].st \notin Terminal
    <3>1. row' = [row EXCEPT ![i].st = "timed_out", ![i].aged = FALSE]
      BY <2>2 DEF SubmitOutcomeUnknown
    <3> QED
      BY <1>5, <1>b, <2>2, <3>1, StatusRows, Ranks DEF Terminal
  <2> QED
    BY <2>1, <2>2
<1> QED
  BY <1>2, <1>4, <1>5, <1>6, <1>b, ThreadCopies DEF AtWork

\* Between the slot and the finalize the thread only goes on.
LEMMA SlotAlone ==
  ASSUME IInv, LoneInv, NEW c \in Callers,
         AcquireSlot(c) \/ SubmitFails(c) \/ SubmitAccepted(c) \/ CollectResult(c)
  PROVE  LoneInv'
<1>b. CallTypes /\ caller[c].at \in 0..MaxRows
  BY Basics DEF IInv, CallTypes, CallerType
<1>0. UNCHANGED <<row, overlapped>>
  BY DEF AcquireSlot, SubmitFails, SubmitAccepted, CollectResult, runVars
<1>1. /\ caller[c].pc \in {"slot", "vendor", "poll"}
      /\ \/ \E pc \in {"vendor", "accepted", "poll"} : GoTo(c, pc, caller[c].at)
         \/ \E res \in {"ok", "error", "kept"} : Answer(c, res)
  BY DEF AcquireSlot, SubmitFails, SubmitAccepted, CollectResult
<1>2. /\ Moves(c) /\ caller'[c].copy = caller[c].copy /\ caller'[c].at = caller[c].at
      /\ caller'[c].pc \in AtWork
  <2>1. ASSUME NEW pc \in {"vendor", "accepted", "poll"}, GoTo(c, pc, caller[c].at)
        PROVE  /\ Moves(c) /\ caller'[c].copy = caller[c].copy /\ caller'[c].at = caller[c].at
               /\ caller'[c].pc \in AtWork
    BY <1>b, <2>1, GoToMoves DEF Pcs, Acts, AtWork
  <2>2. ASSUME NEW res \in {"ok", "error", "kept"}, Answer(c, res)
        PROVE  /\ Moves(c) /\ caller'[c].copy = caller[c].copy /\ caller'[c].at = caller[c].at
               /\ caller'[c].pc \in AtWork
    BY <1>b, <2>2, AnswerMoves DEF Acts, AtWork
  <2> QED
    BY <1>1, <2>1, <2>2
<1> QED
  BY <1>0, <1>1, <1>2, QuietAlone DEF AtWork

LEMMA PollingAlone ==
  ASSUME IInv, LoneInv, NEW c \in Callers, MarkPolling(c)
  PROVE  LoneInv'
<1> DEFINE i == caller[c].at
<1>b. /\ CallTypes /\ i \in Rows /\ i \in 1..live /\ caller[c].copy \in [Rows -> CopyType]
      /\ row[i] \in RowType
  BY Basics DEF MarkPolling, CallerOK, Holding
<1>0. overlapped' = overlapped /\ caller[c].pc = "accepted"
  BY DEF MarkPolling, runVars
<1>1. PICK k : k = [caller[c].copy[i] EXCEPT !.st = "polling", !.task = TRUE]
  OBVIOUS
<1>2. k \in CopyType /\ k.st = "polling" /\ k.usage = caller[c].copy[i].usage
  <2>1. caller[c].copy[i] \in CopyType /\ "polling" \in DOMAIN Rank
    BY <1>b, Ranks
  <2> QED
    BY <1>1, <2>1 DEF CopyType
<1>3. /\ Moves(c) /\ caller'[c].pc = "poll" /\ caller'[c].at = i /\ caller'[c].copy[i] = k
      /\ \A j \in Rows \ {i} : caller'[c].copy[j] = caller[c].copy[j]
  <2>1. GoWith(c, "poll", i, k)
    BY <1>1 DEF MarkPolling
  <2> QED
    BY <1>b, <1>2, <2>1, GoWithMoves DEF Pcs, Acts
<1> SUFFICES ASSUME ~overlapped PROVE AllSold' /\ LoneOK(c)'
  BY <1>0, <1>3, AloneConcludes
<1>4. LoneOK(c) /\ AllSold /\ k.usage # "unbilled" /\ row[i].st \notin Terminal
  BY <1>0, <1>2, <1>b, Lone DEF LoneOK, CopyOK, AtWork
<1>5. AllSold' /\ Lasting /\ row'[i].st \notin Terminal
  <2>1. CASE row[i].st = "submitted"
    <3>1. row' = [row EXCEPT ![i].st = "polling", ![i].task = TRUE, ![i].aged = FALSE]
      BY <2>1 DEF MarkPolling
    <3>2. /\ row'[i].st = "polling" /\ row'[i].payload = row[i].payload
          /\ row'[i].bills = row[i].bills /\ \A j \in Rows \ {i} : row'[j] = row[j]
      BY <1>b, <3>1 DEF CallTypes, RowType
    <3> QED
      BY <1>4, <2>1, <3>2 DEF AllSold, Sold, Lasting, Terminal
  <2>2. CASE row[i].st # "submitted"
    BY <1>4, <2>2, KeptRows DEF MarkPolling
  <2> QED
    BY <2>1, <2>2
<1> QED
  BY <1>2, <1>3, <1>4, <1>5, <1>b, ThreadCopies DEF Terminal

\* The row of a lone thread is open, so its success is the first one.
LEMMA SuccessAlone ==
  ASSUME IInv, LoneInv, NEW c \in Callers, FinalizeSuccess(c)
  PROVE  LoneInv'
<1> DEFINE i == caller[c].at
<1>b. /\ CallTypes /\ i \in Rows /\ i \in 1..live /\ caller[c].copy \in [Rows -> CopyType]
      /\ row[i] \in RowType
  BY Basics DEF FinalizeSuccess, CallerOK, Holding
<1>0. overlapped' = overlapped /\ caller[c].pc = "finalize"
  BY DEF FinalizeSuccess, runVars
<1>1. PICK u \in {"billed", "unbilled"} :
         u = IF row[i].st \notin Terminal THEN "billed" ELSE "unbilled"
  OBVIOUS
<1>2. PICK k : k = [caller[c].copy[i] EXCEPT !.st = "succeeded", !.usage = u]
  OBVIOUS
<1>3. k \in CopyType /\ k.st = "succeeded" /\ k.usage = u
  <2>1. caller[c].copy[i] \in CopyType /\ "succeeded" \in DOMAIN Rank /\ u \in Usages
    BY <1>b, <1>1, Ranks DEF Terminal, Usages
  <2> QED
    BY <1>2, <2>1 DEF CopyType
<1>4. /\ Moves(c) /\ caller'[c].pc = "sync" /\ caller'[c].copy[i] = k
      /\ \A j \in Rows \ {i} : caller'[c].copy[j] = caller[c].copy[j]
  <2>1. GoWith(c, "sync", i, k)
    BY <1>1, <1>2 DEF FinalizeSuccess
  <2> QED
    BY <1>b, <1>3, <2>1, GoWithMoves DEF Pcs, Acts
<1> SUFFICES ASSUME ~overlapped PROVE AllSold' /\ LoneOK(c)'
  BY <1>0, <1>4, AloneConcludes
<1>5. LoneOK(c) /\ AllSold /\ row[i].st \notin Terminal /\ k.usage # "unbilled"
  BY <1>0, <1>1, <1>3, <1>b, Lone DEF LoneOK, AtWork
<1>6. row' = [row EXCEPT ![i].st = "succeeded", ![i].payload = TRUE,
                         ![i].bills = @ + 1, ![i].aged = FALSE]
  BY <1>5 DEF FinalizeSuccess
<1>7. PICK r : r = [row[i] EXCEPT !.st = "succeeded", !.payload = TRUE, !.bills = @ + 1]
  OBVIOUS
<1>8. r.st = "succeeded" /\ r.payload /\ r.bills = row[i].bills + 1
  BY <1>b, <1>7 DEF RowType
<1>9. row[i].bills = 0
  BY <1>5, <1>b DEF AllSold, Sold, Terminal
<1>10. /\ row'[i].st = r.st /\ row'[i].payload = r.payload /\ row'[i].bills = r.bills
       /\ \A j \in Rows \ {i} : row'[j] = row[j]
  BY <1>6, <1>7, <1>b DEF CallTypes, RowType
<1>11. AllSold' /\ Lasting /\ row'[i].st = "succeeded"
  <2>1. row'[i].st = "succeeded" /\ row'[i].payload /\ row'[i].bills = 1
    BY <1>8, <1>9, <1>10
  <2> QED
    BY <1>5, <1>10, <2>1 DEF AllSold, Sold, Lasting
<1> QED
  BY <1>3, <1>4, <1>5, <1>11, <1>b, ThreadCopies DEF AtWork

LEMMA FailureAlone ==
  ASSUME IInv, LoneInv, NEW c \in Callers, FinalizeFailure(c)
  PROVE  LoneInv'
<1> DEFINE i == caller[c].at
<1> DEFINE kept == caller[c].result = "kept" /\ caller[c].copy[i].st = "polling"
<1>b. /\ CallTypes /\ i \in Rows /\ i \in 1..live /\ caller[c].copy \in [Rows -> CopyType]
      /\ caller[c] \in CallerType /\ caller[c].copy[i] \in CopyType
  BY Basics DEF FinalizeFailure, CallerOK, Holding
<1>0. overlapped' = overlapped /\ caller[c].pc = "finalize"
  BY DEF FinalizeFailure, runVars
<1>1. PICK st \in {"failed", "timed_out"} :
        /\ row' = IF kept \/ row[i].st \in Terminal THEN row
                  ELSE [row EXCEPT ![i].st = st, ![i].aged = FALSE]
        /\ caller' = [caller EXCEPT ![c].pc = "sync", ![c].result = "error",
                                    ![c].copy[i].st = IF kept THEN @ ELSE st]
  BY DEF FinalizeFailure
<1>2. PICK s : s = IF kept THEN caller[c].copy[i].st ELSE st
  OBVIOUS
<1>3. PICK k : k = [caller[c].copy[i] EXCEPT !.st = s]
  OBVIOUS
<1>4. k \in CopyType /\ k.st = s /\ k.usage = caller[c].copy[i].usage
  <2>1. s \in {"none"} \cup DOMAIN Rank
    BY <1>b, <1>1, <1>2, Ranks DEF CopyType, Terminal
  <2> QED
    BY <1>3, <1>b, <2>1 DEF CopyType
<1>5. caller' = [caller EXCEPT ![c].pc = "sync", ![c].result = "error", ![c].copy[i] = k]
  BY <1>1, <1>2, <1>3
<1>6. /\ Moves(c) /\ caller'[c].pc = "sync" /\ caller'[c].copy[i] = k
      /\ \A j \in Rows \ {i} : caller'[c].copy[j] = caller[c].copy[j]
  BY <1>b, <1>4, <1>5 DEF CallTypes, CallerType, Moves, Pcs
<1> SUFFICES ASSUME ~overlapped PROVE AllSold' /\ LoneOK(c)'
  BY <1>0, <1>6, AloneConcludes
<1>7. LoneOK(c) /\ AllSold /\ row[i].st \notin Terminal /\ k.usage # "unbilled"
  BY <1>0, <1>4, <1>b, Lone DEF LoneOK, CopyOK, AtWork
<1>8. AllSold' /\ Lasting /\ (k.st \in Terminal => row'[i].st = k.st)
  <2>1. CASE kept
    <3>1. row' = row /\ k.st = "polling"
      BY <1>1, <1>2, <1>4, <2>1
    <3> QED
      BY <1>7, <3>1, KeptRows DEF Terminal
  <2>2. CASE ~kept
    <3>1. row' = [row EXCEPT ![i].st = st, ![i].aged = FALSE] /\ k.st = st
      BY <1>1, <1>2, <1>4, <1>7, <2>2
    <3>2. st \in DOMAIN Rank /\ st # "succeeded"
      BY <1>1, Ranks DEF Terminal
    <3> QED
      BY <1>7, <1>b, <3>1, <3>2, StatusRows
  <2> QED
    BY <2>1, <2>2
<1> QED
  BY <1>6, <1>7, <1>8, <1>b, ThreadCopies DEF AtWork

LEMMA ReplayAlone ==
  ASSUME IInv, LoneInv, NEW c \in Callers, Replay(c)
  PROVE  LoneInv'
<1> DEFINE i == caller[c].at
<1>b. /\ CallTypes /\ i \in Rows /\ i \in 0..MaxRows /\ i \in 1..live
      /\ caller[c].copy \in [Rows -> CopyType] /\ caller[c] \in CallerType
  BY Basics DEF Replay, CallerOK, Holding
<1>0. UNCHANGED <<row, overlapped>> /\ caller[c].pc = "replay"
  BY DEF Replay, runVars
<1>1. CASE Return(c, "error")
  <2>1. Moves(c) /\ caller'[c].pc = "sync" /\ caller'[c].copy = caller[c].copy
    BY <1>1, <1>b, ReturnMoves DEF Acts
  <2> QED
    BY <1>0, <2>1, QuietAlone DEF AtWork
<1>2. CASE GoTo(c, "reopen", i)
  <2>1. Moves(c) /\ caller'[c].pc = "reopen" /\ caller'[c].copy = caller[c].copy
    BY <1>2, <1>b, GoToMoves DEF Pcs, Acts
  <2> QED
    BY <1>0, <2>1, QuietAlone DEF AtWork
<1>3. CASE caller' = [caller EXCEPT ![c].pc = "sync", ![c].result = "ok",
                         ![c].copy[i] = [CopyOf(i) EXCEPT !.usage = "billed"]]
  <2>1. PICK k : k = [CopyOf(i) EXCEPT !.usage = "billed"]
    OBVIOUS
  <2>2. k \in CopyType /\ k.st = row[i].st /\ k.usage = "billed"
    <3>1. CopyOf(i) \in CopyType /\ CopyOf(i).st = row[i].st
      BY <1>b, CopyTypes
    <3> QED
      BY <2>1, <3>1 DEF CopyType, Usages
  <2>3. caller' = [caller EXCEPT ![c].pc = "sync", ![c].result = "ok", ![c].copy[i] = k]
    BY <1>3, <2>1
  <2>4. /\ Moves(c) /\ caller'[c].pc = "sync" /\ caller'[c].copy[i] = k
        /\ \A j \in Rows \ {i} : caller'[c].copy[j] = caller[c].copy[j]
    BY <1>b, <2>2, <2>3 DEF CallTypes, CallerType, Moves, Pcs
  <2> SUFFICES ASSUME ~overlapped PROVE AllSold' /\ LoneOK(c)'
    BY <1>0, <2>4, AloneConcludes
  <2>5. LoneOK(c) /\ AllSold
    BY <1>0, Lone
  <2>6. AllSold' /\ Lasting
    BY <1>0, <2>5, KeptRows
  <2> QED
    BY <1>0, <1>b, <2>2, <2>4, <2>5, <2>6, ThreadCopies DEF AtWork
<1> QED
  BY <1>1, <1>2, <1>3 DEF Replay

LEMMA ReopenAlone ==
  ASSUME IInv, LoneInv, NEW c \in Callers, Reopen(c)
  PROVE  LoneInv'
<1>b. CallTypes /\ Shape /\ caller[c].copy \in [Rows -> CopyType] /\ live \in Nat
  BY Basics
<1>0. overlapped' = overlapped /\ caller[c].pc = "reopen"
  BY DEF Reopen, runVars
<1>1. CASE live = caller[c].at /\ RoomForRow
  <2>1. live' = live + 1 /\ live' \in Rows
    BY <1>1, Counted DEF Reopen
  <2>2. row' = [row EXCEPT ![live'] = [NoRow EXCEPT !.st = "prepared", !.run = caller[c].run]]
    BY <1>1, <2>1, Counted DEF Reopen, Opened
  <2>3. PICK n \in Rows : n = live' /\ row[n].st = "absent"
    BY <1>b, <2>1 DEF Shape
  <2>4. PICK k : k = [NoCopy EXCEPT !.st = "prepared"]
    OBVIOUS
  <2>5. k \in CopyType /\ k.st = "prepared" /\ k.usage = "none"
    BY <2>4, Ranks DEF NoCopy, CopyType, Usages
  <2>6. /\ Moves(c) /\ caller'[c].pc = "check" /\ caller'[c].at = n /\ caller'[c].copy[n] = k
        /\ \A j \in Rows \ {n} : caller'[c].copy[j] = caller[c].copy[j]
    <3>1. GoWith(c, "check", n, k)
      BY <1>1, <2>3, <2>4 DEF Reopen
    <3> QED
      BY <1>b, <2>5, <3>1, GoWithMoves DEF Pcs, Acts
  <2> SUFFICES ASSUME ~overlapped PROVE AllSold' /\ LoneOK(c)'
    BY <1>0, <2>6, AloneConcludes
  <2>7. LoneOK(c) /\ AllSold
    BY <1>0, Lone
  <2>8. AllSold' /\ Lasting /\ row'[n].st = "prepared"
    BY <1>b, <2>2, <2>3, <2>7, InsertedRows
  <2> QED
    BY <2>5, <2>6, <2>7, <2>8, ThreadCopies DEF AtWork, Terminal
<1>2. CASE ~(live = caller[c].at /\ RoomForRow)
  <2>1. row' = row /\ caller' = [caller EXCEPT ![c] = Idle]
    BY <1>2 DEF Reopen
  <2>2. Moves(c) /\ caller'[c].pc = "idle"
    BY <1>b, <2>1, IdleMoves, IdleTyped
  <2> SUFFICES ASSUME ~overlapped PROVE AllSold'
    BY <1>0, <2>2, AloneConcludes
  <2> QED
    BY <1>0, <2>1, Lone, KeptRows
<1> QED
  BY <1>1, <1>2

\* The snapshot of a lone thread brings no status that the row has not and no bill.
LEMMA SyncAlone ==
  ASSUME IInv, LoneInv, NEW c \in Callers, SyncCall(c)
  PROVE  LoneInv'
<1>b. /\ CallTypes /\ caller[c].copy \in [Rows -> CopyType]
  BY Basics
<1>0. overlapped' = overlapped /\ caller[c].pc = "sync" /\ caller' = [caller EXCEPT ![c] = Idle]
  BY DEF SyncCall
<1>1. Moves(c) /\ caller'[c].pc = "idle"
  BY <1>b, <1>0, IdleMoves, IdleTyped
<1> SUFFICES ASSUME ~overlapped PROVE AllSold'
  BY <1>0, <1>1, AloneConcludes
<1>2. LoneOK(c) /\ AllSold
  BY <1>0, Lone
<1>3. CASE row' = row
  BY <1>2, <1>3, KeptRows
<1>4. CASE row' = [i \in Rows |-> IF i \in Copied(c) THEN Merged(row[i], caller[c].copy[i])
                                                    ELSE row[i]]
  <2> SUFFICES ASSUME NEW i \in Rows PROVE Sold(i)'
    BY DEF AllSold
  <2>1. CASE i \notin Copied(c)
    BY <1>2, <1>4, <2>1 DEF AllSold, Sold
  <2>2. CASE i \in Copied(c)
    <3>1. PICK k \in CopyType, r \in RowType : k = caller[c].copy[i] /\ r = row[i]
      BY <1>b DEF CallTypes
    <3>2. k.st # "none" /\ k.usage # "unbilled" /\ (k.st \in Terminal => r.st = k.st)
      BY <1>2, <2>2, <3>1 DEF Copied, LoneOK, CopyOK
    <3>3. /\ Merged(r, k).st = (IF Rank[k.st] < Rank[r.st] THEN r.st ELSE k.st)
          /\ Merged(r, k).bills = r.bills /\ Merged(r, k).payload = r.payload
      BY <3>1, <3>2, MergedFields
    <3>4. k.st \in DOMAIN Rank /\ r.st \in DOMAIN Rank
      BY <3>1, <3>2 DEF CopyType, RowType
    <3>5. Merged(r, k).st = "succeeded" <=> r.st = "succeeded"
      BY <3>2, <3>3, <3>4, Ranks DEF Terminal
    <3>6. row'[i] = Merged(r, k)
      BY <1>4, <2>2, <3>1
    <3>7. /\ r.st = "succeeded" <=> r.payload
          /\ r.bills = (IF r.payload THEN 1 ELSE 0)
      BY <1>2, <3>1 DEF AllSold, Sold
    <3> QED
      BY <3>3, <3>5, <3>6, <3>7 DEF Sold
  <2> QED
    BY <2>1, <2>2
<1> QED
  BY <1>3, <1>4 DEF SyncCall

-----------------------------------------------------------------------------
(* Steps of the environment, and the theorem. *)

\* A second thread at work ends the promise; the first one starts from nothing.
LEMMA BeginAlone ==
  ASSUME IInv, LoneInv, NEW c \in Callers, NEW r \in Runs, Begin(c, r)
  PROVE  LoneInv'
<1> SUFFICES ASSUME ~overlapped' PROVE LoneInv'
  BY DEF LoneInv
<1>1. ~overlapped /\ Busy = {} /\ row' = row
  BY DEF Begin
<1>2. PICK k : k = [Idle EXCEPT !.pc = "load", !.run = r]
  OBVIOUS
<1>3. k.pc = "load" /\ k.copy = Idle.copy
  BY <1>2 DEF Idle
<1>4. caller'[c] = k /\ \A d \in Callers \ {c} : caller'[d] = caller[d]
  BY <1>2 DEF Begin, IInv, CallTypes
<1>5. \A d \in Busy' : d = c
  BY <1>1, <1>4 DEF Busy
<1>6. AllSold'
  BY <1>1, KeptRows DEF LoneInv
<1>7. LoneOK(c)'
  <2>1. \A i \in Rows : caller'[c].copy[i].st = "none" /\ caller'[c].copy[i].usage = "none"
    BY <1>3, <1>4 DEF Idle, NoCopy
  <2> QED
    BY <1>3, <1>4, <2>1 DEF LoneOK, CopyOK, AtWork, Terminal
<1> QED
  BY <1>5, <1>6, <1>7 DEF LoneInv

\* Threads end, the others and the rows stay.
LEMMA EndAlone ==
  ASSUME LoneInv, UNCHANGED <<row, overlapped>>,
         \A c \in Callers : caller'[c] = caller[c] \/ caller'[c].pc = "idle"
  PROVE  LoneInv'
<1> SUFFICES ASSUME ~overlapped PROVE LoneInv'
  BY DEF LoneInv
<1>1. \A c \in Busy' : c \in Busy /\ caller'[c] = caller[c]
  BY DEF Busy
<1>2. AllSold'
  BY KeptRows DEF LoneInv
<1>3. \A c \in Busy' : LoneOK(c)'
  BY <1>1 DEF LoneInv, LoneOK, CopyOK
<1> QED
  BY <1>1, <1>2, <1>3 DEF LoneInv

LEMMA AgeAlone ==
  ASSUME IInv, LoneInv, NEW i \in Rows, RowAges(i)
  PROVE  LoneInv'
<1>1. row' = [row EXCEPT ![i].aged = TRUE] /\ UNCHANGED <<caller, overlapped>>
  BY DEF RowAges, runVars
<1>2. \A j \in Rows : /\ row'[j].st = row[j].st /\ row'[j].payload = row[j].payload
                      /\ row'[j].bills = row[j].bills
  <2>1. \A j \in Rows : row[j] \in RowType
    BY DEF IInv, CallTypes
  <2> QED
    BY <1>1, <2>1 DEF IInv, CallTypes, RowType
<1>3. AllSold => AllSold'
  BY <1>2 DEF AllSold, Sold
<1>4. \A c \in Busy : caller[c].pc \in AtWork \cup {"check"} => caller[c].at \in Rows
  BY RowsAssumption DEF IInv, CallTypes, CallerOK, Holding, AtWork, Busy, Rows
<1>5. \A c \in Busy : LoneOK(c) => LoneOK(c)'
  BY <1>1, <1>2, <1>4 DEF LoneOK, CopyOK
<1> QED
  BY <1>1, <1>3, <1>5 DEF LoneInv, Busy

LEMMA AdvanceAlone ==
  ASSUME IInv, LoneInv, NEW c \in Callers, Advance(c)
  PROVE  LoneInv'
<1>1. CASE LimiterTrouble(c)
  BY <1>1, EndAlone DEF LimiterTrouble, callVars, runVars
<1>2. CASE Load(c) \/ GetOrCreate(c) \/ FailBeforeSubmit(c) \/ ClaimSubmit(c)
  BY <1>2, LoadAlone, CreateAlone, FailBeforeAlone, ClaimAlone
<1>3. CASE RecoverSubmitted(c) \/ SubmitOutcomeUnknown(c)
  BY <1>3, RecoverAlone, UnknownAlone
<1>4. CASE AcquireSlot(c) \/ SubmitFails(c) \/ SubmitAccepted(c) \/ CollectResult(c)
  BY <1>4, SlotAlone
<1>5. CASE MarkPolling(c) \/ FinalizeSuccess(c) \/ FinalizeFailure(c)
  BY <1>5, PollingAlone, SuccessAlone, FailureAlone
<1>6. CASE Replay(c) \/ Reopen(c) \/ SyncCall(c)
  BY <1>6, ReplayAlone, ReopenAlone, SyncAlone
<1> QED
  BY <1>1, <1>2, <1>3, <1>4, <1>5, <1>6 DEF Advance

LEMMA LoneStep == IInv /\ LoneInv /\ [Next]_vars => LoneInv'
<1> SUFFICES ASSUME IInv, LoneInv, [Next]_vars PROVE LoneInv'
  OBVIOUS
<1>1. ASSUME NEW c \in Callers, Advance(c) PROVE LoneInv'
  BY <1>1, AdvanceAlone
<1>2. ASSUME NEW c \in Callers, AttemptDies(c) PROVE LoneInv'
  <2>1. UNCHANGED <<row, overlapped>> /\ caller' = [caller EXCEPT ![c] = Idle]
    BY <1>2 DEF AttemptDies, runVars
  <2>2. Moves(c) /\ caller'[c] = Idle
    BY <2>1, IdleMoves DEF IInv
  <2> QED
    BY <2>1, <2>2, EndAlone, IdleTyped DEF Moves
<1>3. ASSUME NEW c \in Callers, NEW r \in Runs, Begin(c, r) PROVE LoneInv'
  BY <1>3, BeginAlone
<1>4. CASE Crash
  BY <1>4, EndAlone, IdleTyped DEF Crash, runVars
<1>5. CASE UNCHANGED <<row, caller, overlapped>>
  BY <1>5, EndAlone
<1>6. ASSUME NEW i \in Rows, RowAges(i) PROVE LoneInv'
  BY <1>6, AgeAlone
<1>7. \/ \E r \in Runs : RunFails(r)
      \/ LimiterStep
      \/ \E i \in Rows : EvictMedia(i)
      \/ UNCHANGED vars
      => UNCHANGED <<row, caller, overlapped>>
  BY DEF RunFails, LimiterStep, EvictMedia, vars, callVars, runVars
<1> QED
  BY <1>1, <1>2, <1>3, <1>4, <1>5, <1>6, <1>7 DEF Next

LEMMA LoneInit == Init => LoneInv
<1> SUFFICES ASSUME Init PROVE LoneInv
  OBVIOUS
<1>1. Busy = {}
  BY DEF Init, Busy, Idle
<1>2. AllSold
  BY DEF Init, AllSold, Sold, NoRow
<1> QED
  BY <1>1, <1>2 DEF LoneInv

\* Always: while no two attempts have overlapped, the one thread at work knows what the
\* rows say, and the rows are sold or not.
THEOREM LoneInvariance == Spec => []LoneInv
BY LoneInit, LoneStep, Invariance, PTL DEF Spec

\* As long as no two attempts were at work together, a row has succeeded exactly when its
\* result can be replayed, and it is billed exactly once, through crashes, deaths between
\* any two steps, lost answers, resumes of the job, stale rows and reopened keys.
THEOREM ReplayableAlone == Spec => []ReplayableWithoutOverlap
<1>1. LoneInv => ReplayableWithoutOverlap
  BY DEF LoneInv, AllSold, Sold, ReplayableWithoutOverlap
<1> QED
  BY <1>1, LoneInvariance, PTL
=============================================================================
