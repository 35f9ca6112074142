------------------------- MODULE PublishBatchProofs -------------------------
(***************************************************************************)
(* What the vendor has taken, what the rows record and what the calls hold *)
(* agree, for any number of items, callers, calls, edits and faults.       *)
(*                                                                         *)
(* Due, Holding and Busy are the calls that will still publish an item,    *)
(* that hold a success of it, and that are at work at all; each step moves *)
(* one caller in or out of them.  Counted bounds the vendor's count and    *)
(* the recorded attempts by the calls made.  AloneOK and Once hold while   *)
(* no two calls have been at work together: what a call has read still     *)
(* stands when it writes, although no row is locked, and a write that is   *)
(* refused all the same is one of a batch that was already past it.        *)
(***************************************************************************)
EXTENDS PublishBatch, FiniteSetTheorems, TLAPS

\* The callers that hold a success of an item, and those that will still publish it.
Holding(i) == {c \in Callers : call[c].got[i] = "ok"}
Due(i) ==
  {c \in Callers : i \in call[c].todo \/ (call[c].pc = "retry" /\ i \in call[c].picked)}

\* What a call knows, however the calls overlap.
CallOK(k) ==
  /\ \A i \in k.todo : k.got[i] = "none"
  /\ k.todo # {} => k.pc = "publish"
  /\ k.dry => k.pc \in {"load", "write"}
  /\ k.dry \/ k.pc \in {"idle", "retry"} => \A i \in Items : k.got[i] # "ok"
  /\ k.pc \in {"retry", "retried"} => \E i \in Items : k.picked = {i}
  /\ k.pc = "retried" => \A i \in Items : k.got[i] = "ok" <=> i \in k.picked

\* A call that was never next to another one: what it has read still stands, but for
\* what was deleted, and what it publishes is ticked and may be submitted.
AloneOK(k) ==
  /\ k.pc = "write" => /\ batch \in {k.batch, "deleted"}
                       /\ \A i \in Items : item[i] \in {k.item[i], "deleted"}
                       /\ ~disturbed => k.picked = selected \cap Live
  /\ k.pc \in {"retry", "retried"} => /\ batch \in {k.batch, "deleted"}
                                      /\ \A i \in k.picked : item[i] \in {"publish_failed", "deleted"}
  /\ ~disturbed /\ k.pc \in {"publish", "load", "write"} =>
       /\ k.todo \cup Published(k) \subseteq selected \cap Live
       /\ \A i \in selected \cap Live : item[i] \in Submittable

Counted ==
  \A i \in Items :
    /\ vendor[i] + Cardinality(Due(i)) <= calls
    /\ posted[i] + Cardinality(Busy) <= calls

\* A deletion disturbs.
Intact == ~disturbed => batch # "deleted" /\ \A i \in Items : item[i] # "deleted"

\* A call's publications are dropped only when the batch is past them, and it stays so.
Closed == {"publishing", "completed"}

\* What the vendor has, unless a call failed with it or dropped it, it has once, and it is
\* published or in the hands of a call.
Once ==
  /\ dropped # {} => batch \in Closed
  /\ \A i \in Items \ (doubtful \cup dropped) :
       /\ vendor[i] <= 1
       /\ vendor[i] = 1 => item[i] = "published" \/ Holding(i) # {}

IInv ==
  /\ TypeOK
  /\ Counted
  /\ RecordsMatchVendor
  /\ Intact
  /\ \A c \in Callers : CallOK(call[c])
  /\ ~overlapped => \A c, d \in Busy : c = d
  /\ ~overlapped => \A c \in Callers : AloneOK(call[c])
  /\ ~overlapped /\ ~disturbed => Once
-----------------------------------------------------------------------------
(* Types and counts. *)

CallType ==
  [pc : {"idle", "publish", "load", "write", "retry", "retried"}, dry : BOOLEAN,
   todo : SUBSET Items, got : [Items -> Outcomes], batch : BatchStates,
   item : [Items -> ItemStates], picked : SUBSET Items]

LEMMA Types == TypeOK <=> /\ batch \in BatchStates /\ item \in [Items -> ItemStates]
                          /\ selected \in SUBSET Items
                          /\ posted \in [Items -> 0..MaxCalls] /\ vendor \in [Items -> 0..MaxCalls]
                          /\ call \in [Callers -> CallType]
                          /\ calls \in 0..MaxCalls /\ edits \in 0..MaxEdits /\ faults \in 0..MaxFaults
                          /\ overlapped \in BOOLEAN /\ disturbed \in BOOLEAN
                          /\ doubtful \in SUBSET Items /\ dropped \in SUBSET Items
BY DEF TypeOK, CallType

LEMMA IdleTyped == /\ Idle \in CallType /\ Idle.pc = "idle" /\ Idle.dry = FALSE /\ Idle.todo = {}
                   /\ \A i \in Items : Idle.got[i] = "none"
<1>1. [i \in Items |-> "none"] \in [Items -> Outcomes]
  BY DEF Outcomes
<1>2. [i \in Items |-> "uploaded"] \in [Items -> ItemStates]
  BY DEF ItemStates
<1> QED
  BY <1>1, <1>2 DEF Idle, CallType, BatchStates

\* One caller moves: how the number of those with some trait changes.
LEMMA CountMoves ==
  ASSUME NEW S, NEW T, IsFiniteSet(S), NEW c, \A d : d # c => (d \in S <=> d \in T)
  PROVE  /\ IsFiniteSet(T) /\ Cardinality(S) \in Nat /\ Cardinality(T) \in Nat
         /\ (c \in S <=> c \in T) => Cardinality(T) = Cardinality(S)
         /\ c \in T /\ c \notin S => Cardinality(T) = Cardinality(S) + 1
         /\ c \in S /\ c \notin T => Cardinality(S) = Cardinality(T) + 1
<1>1. CASE c \in S <=> c \in T
  <2>1. S = T
    BY <1>1
  <2> QED
    BY <1>1, <2>1, FS_CardinalityType
<1>2. CASE c \in T /\ c \notin S
  <2>1. T = S \cup {c}
    BY <1>2
  <2>2. IsFiniteSet(T) /\ Cardinality(T) = Cardinality(S) + 1
    BY <1>2, <2>1, FS_AddElement
  <2> QED
    BY <1>2, <2>2, FS_CardinalityType
<1>3. CASE c \in S /\ c \notin T
  <2>1. T = S \ {c}
    BY <1>3
  <2>2. IsFiniteSet(T) /\ Cardinality(T) = Cardinality(S) - 1
    BY <1>3, <2>1, FS_RemoveElement
  <2>3. Cardinality(T) \in Nat /\ Cardinality(S) \in Nat
    BY <2>2, FS_CardinalityType
  <2> QED
    BY <1>3, <2>2, <2>3
<1> QED
  BY <1>1, <1>2, <1>3

\* The sets of callers are finite.
LEMMA Finite ==
  /\ IsFiniteSet(Busy) /\ Cardinality(Busy) \in Nat
  /\ \A i \in Items : /\ IsFiniteSet(Holding(i)) /\ Pending(i) = Cardinality(Holding(i))
                       /\ IsFiniteSet(Due(i)) /\ Cardinality(Due(i)) \in Nat /\ Pending(i) \in Nat
<1>1. Busy \subseteq Callers /\ \A i \in Items : Holding(i) \subseteq Callers /\ Due(i) \subseteq Callers
  BY DEF Busy, Holding, Due
<1>2. IsFiniteSet(Busy) /\ \A i \in Items : IsFiniteSet(Holding(i)) /\ IsFiniteSet(Due(i))
  BY <1>1, CallersAssumption, FS_Subset
<1>3. \A i \in Items : Pending(i) = Cardinality(Holding(i))
  BY DEF Pending, Holding
<1> QED
  BY <1>2, <1>3, FS_CardinalityType

DueIn(k, i) == i \in k.todo \/ (k.pc = "retry" /\ i \in k.picked)

\* The counts after a step that puts call n in the place of k.
CountsMove(k, n) ==
  /\ Cardinality(Busy) \in Nat /\ Cardinality(Busy)' \in Nat
  /\ (k.pc = "idle" <=> n.pc = "idle") => Cardinality(Busy)' = Cardinality(Busy)
  /\ k.pc = "idle" /\ n.pc # "idle" => Cardinality(Busy)' = Cardinality(Busy) + 1
  /\ k.pc # "idle" /\ n.pc = "idle" => Cardinality(Busy) = Cardinality(Busy)' + 1
  /\ \A i \in Items :
       /\ Cardinality(Due(i)) \in Nat /\ Cardinality(Due(i))' \in Nat
       /\ (DueIn(k, i) <=> DueIn(n, i)) => Cardinality(Due(i))' = Cardinality(Due(i))
       /\ ~DueIn(k, i) /\ DueIn(n, i) => Cardinality(Due(i))' = Cardinality(Due(i)) + 1
       /\ DueIn(k, i) /\ ~DueIn(n, i) => Cardinality(Due(i)) = Cardinality(Due(i))' + 1
       /\ Pending(i) \in Nat /\ Pending(i)' \in Nat
       /\ (k.got[i] = "ok" <=> n.got[i] = "ok") => Pending(i)' = Pending(i)
       /\ k.got[i] # "ok" /\ n.got[i] = "ok" => Pending(i)' = Pending(i) + 1
       /\ k.got[i] = "ok" /\ n.got[i] # "ok" => Pending(i) = Pending(i)' + 1

LEMMA Counting ==
  ASSUME call \in [Callers -> CallType], NEW c \in Callers, NEW n \in CallType,
         call' = [call EXCEPT ![c] = n]
  PROVE  CountsMove(call[c], n)
<1>k. PICK k : k = call[c]
  OBVIOUS
<1>1. call'[c] = n /\ \A d \in Callers : d # c => call'[d] = call[d]
  OBVIOUS
<1>2. PICK S, T : S = Busy /\ T = Busy'
  OBVIOUS
<1>3. /\ \A d : d # c => (d \in S <=> d \in T)
      /\ (c \in S <=> k.pc # "idle") /\ (c \in T <=> n.pc # "idle")
  BY <1>k, <1>1, <1>2 DEF Busy
<1>4. /\ (k.pc = "idle" <=> n.pc = "idle") => Cardinality(T) = Cardinality(S)
      /\ k.pc = "idle" /\ n.pc # "idle" => Cardinality(T) = Cardinality(S) + 1
      /\ k.pc # "idle" /\ n.pc = "idle" => Cardinality(S) = Cardinality(T) + 1
      /\ Cardinality(T) \in Nat
  <2>1. IsFiniteSet(S)
    BY <1>2, Finite
  <2> QED
    BY <1>3, <2>1, CountMoves
<1>5. ASSUME NEW i \in Items
      PROVE  /\ (DueIn(k, i) <=> DueIn(n, i)) => Cardinality(Due(i))' = Cardinality(Due(i))
             /\ ~DueIn(k, i) /\ DueIn(n, i) => Cardinality(Due(i))' = Cardinality(Due(i)) + 1
             /\ DueIn(k, i) /\ ~DueIn(n, i) => Cardinality(Due(i)) = Cardinality(Due(i))' + 1
             /\ Cardinality(Due(i))' \in Nat
  <2>1. PICK D, E : D = Due(i) /\ E = Due(i)'
    OBVIOUS
  <2>2. /\ \A d : d # c => (d \in D <=> d \in E)
        /\ (c \in D <=> DueIn(k, i)) /\ (c \in E <=> DueIn(n, i))
    BY <1>k, <1>1, <2>1 DEF Due, DueIn
  <2>3. IsFiniteSet(D)
    BY <2>1, Finite
  <2>4. /\ (c \in D <=> c \in E) => Cardinality(E) = Cardinality(D)
        /\ c \in E /\ c \notin D => Cardinality(E) = Cardinality(D) + 1
        /\ c \in D /\ c \notin E => Cardinality(D) = Cardinality(E) + 1
        /\ Cardinality(E) \in Nat
    BY <2>2, <2>3, CountMoves
  <2> HIDE DEF DueIn
  <2> QED
    BY <2>1, <2>2, <2>4
<1>6. ASSUME NEW i \in Items
      PROVE  /\ (k.got[i] = "ok" <=> n.got[i] = "ok") => Pending(i)' = Pending(i)
             /\ k.got[i] # "ok" /\ n.got[i] = "ok" => Pending(i)' = Pending(i) + 1
             /\ k.got[i] = "ok" /\ n.got[i] # "ok" => Pending(i) = Pending(i)' + 1
             /\ Pending(i)' \in Nat
  <2>1. PICK D, E : D = Holding(i) /\ E = Holding(i)'
    OBVIOUS
  <2>2. /\ \A d : d # c => (d \in D <=> d \in E)
        /\ (c \in D <=> k.got[i] = "ok") /\ (c \in E <=> n.got[i] = "ok")
    BY <1>k, <1>1, <2>1 DEF Holding
  <2>3. IsFiniteSet(D)
    BY <2>1, Finite
  <2>4. /\ (c \in D <=> c \in E) => Cardinality(E) = Cardinality(D)
        /\ c \in E /\ c \notin D => Cardinality(E) = Cardinality(D) + 1
        /\ c \in D /\ c \notin E => Cardinality(D) = Cardinality(E) + 1
        /\ Cardinality(E) \in Nat
    BY <2>2, <2>3, CountMoves
  <2>5. Pending(i) = Cardinality(D) /\ Pending(i)' = Cardinality(E)
    BY <2>1 DEF Pending, Holding
  <2> QED
    BY <2>2, <2>4, <2>5
<1> QED
  BY <1>k, <1>2, <1>4, <1>5, <1>6, Finite DEF CountsMove
-----------------------------------------------------------------------------
(* What every step does to the calls that do not move. *)

Callings ==
  /\ \A d \in Callers : CallOK(call[d])
  /\ ~overlapped => \A d, e \in Busy : d = e
  /\ ~overlapped => \A d \in Callers : AloneOK(call[d])

\* No step takes back an overlap or a disturbance.
Monotone ==
  /\ overlapped => overlapped'
  /\ disturbed => disturbed'

LEMMA IdleOK ==
  ASSUME NEW k \in CallType, k.pc = "idle", CallOK(k)
  PROVE  AloneOK(k) /\ AloneOK(k)'
BY DEF CallOK, AloneOK

\* A step of caller c, which is alone if calls have never overlapped.
LEMMA CallingsStep ==
  ASSUME Callings, call \in [Callers -> CallType], Monotone, NEW c \in Callers, NEW n \in CallType,
         call' = [call EXCEPT ![c] = n], ~overlapped' => \A d \in Busy : d = c,
         CallOK(n)', ~overlapped' => AloneOK(n)'
  PROVE  Callings'
<1>1. call'[c] = n /\ \A d \in Callers : d # c => call'[d] = call[d] /\ call[d] \in CallType
  OBVIOUS
<1>2. ASSUME NEW d \in Callers
      PROVE  CallOK(call[d])' /\ (~overlapped' => AloneOK(call[d])')
  <2>1. CASE d = c
    BY <1>1, <2>1 DEF CallOK, AloneOK, Published, Live
  <2>2. CASE d # c
    <3>1. PICK k \in CallType : k = call[d] /\ k = call'[d]
      BY <1>1, <2>2
    <3>2. CallOK(k)'
      BY <3>1 DEF Callings, CallOK
    <3>3. ~overlapped' => AloneOK(k)'
      <4>1. ~overlapped' => k.pc = "idle"
        BY <2>2, <3>1 DEF Busy
      <4>2. CallOK(k)
        BY <3>1 DEF Callings
      <4> QED
        BY <4>1, <4>2, IdleOK
    <3>4. CallOK(call[d])'
      BY <3>1, <3>2 DEF CallOK
    <3>5. ~overlapped' => AloneOK(call[d])'
      BY <3>1, <3>3 DEF AloneOK, Live, Published
    <3> QED
      BY <3>4, <3>5
  <2> QED
    BY <2>1, <2>2
<1>3. ~overlapped' => \A d, e \in Busy' : d = e
  BY <1>1 DEF Busy
<1> QED
  BY <1>2, <1>3 DEF Callings

LEMMA InvParts ==
  /\ IInv <=> /\ TypeOK /\ Counted /\ RecordsMatchVendor /\ Intact /\ Callings
              /\ ~overlapped /\ ~disturbed => Once
BY DEF IInv, Callings

-----------------------------------------------------------------------------
(* Submits and retries begin. *)

LEMMA BeginStep ==
  ASSUME IInv, NEW c \in Callers, NEW k \in CallType, Begin(c, k), k.pc # "idle",
         \A i \in Items : k.got[i] = "none",
         k.todo # {} => k.pc = "publish", k.dry => k.pc = "load",
         k.pc \in {"publish", "load", "retry"},
         k.pc = "retry" => /\ k.batch = batch
                           /\ \E i \in Items : k.picked = {i} /\ item[i] = "publish_failed",
         k.todo \subseteq selected \cap Live,
         k.pc # "retry" => \A i \in selected \cap Live : item[i] \in Submittable
  PROVE  IInv' /\ UNCHANGED <<batch, item>>
<1>1. /\ TypeOK /\ Counted /\ RecordsMatchVendor /\ Intact /\ Callings
      /\ (~overlapped /\ ~disturbed => Once)
      /\ call \in [Callers -> CallType] /\ vendor \in [Items -> 0..MaxCalls]
      /\ posted \in [Items -> 0..MaxCalls] /\ calls \in 0..MaxCalls /\ overlapped \in BOOLEAN
  BY InvParts, Types
<1>2. /\ calls < MaxCalls /\ calls' = calls + 1 /\ call[c].pc = "idle"
      /\ call' = [call EXCEPT ![c] = k]
      /\ UNCHANGED <<batch, item, selected, posted, vendor, edits, faults, disturbed, doubtful, dropped>>
  BY DEF Begin, rowVars, lossVars
<1>3. overlapped' = (overlapped \/ Busy # {})
  BY DEF Begin
<1>4. overlapped' \in BOOLEAN /\ (overlapped => overlapped') /\ (~overlapped' => ~overlapped /\ Busy = {})
  BY <1>1, <1>3
<1>5. Monotone
  BY <1>1, <1>2, <1>4 DEF Monotone
<1>6. CallOK(k)' /\ AloneOK(k)'
  <2>1. k.pc # "write" /\ k.pc # "retried" /\ \A i \in Items : k.got[i] # "ok"
    OBVIOUS
  <2>2. CallOK(k)'
    <3>1. k.todo \subseteq Items
      BY DEF CallType
    <3> QED
      BY <2>1, <3>1 DEF CallOK
  <2>3. AloneOK(k)'
    <3>1. Published(k) = {}
      BY <2>1 DEF Published
    <3>2. UNCHANGED <<Live, Published(k)>>
      BY <1>2 DEF Live, Published
    <3> QED
      BY <1>2, <2>1, <3>1, <3>2 DEF AloneOK
  <2> QED
    BY <2>2, <2>3
<1>7. Callings'
  BY <1>1, <1>2, <1>4, <1>5, <1>6, CallingsStep
<1>8. PICK o : o = call[c]
  OBVIOUS
<1>9. /\ o.pc = "idle" /\ CallOK(o)
      /\ \A i \in Items : o.got[i] # "ok" /\ ~DueIn(o, i)
  BY <1>1, <1>2, <1>8 DEF Callings, CallOK, DueIn
<1>10. /\ Cardinality(Busy)' = Cardinality(Busy) + 1
       /\ \A i \in Items : /\ Pending(i)' = Pending(i)
                            /\ Cardinality(Due(i))' \in {Cardinality(Due(i)), Cardinality(Due(i)) + 1}
  <2>1. CountsMove(o, k)
    BY <1>1, <1>2, <1>8, Counting
  <2> QED
    BY <1>9, <2>1 DEF CountsMove
<1>11. Counted'
  <2>1. Cardinality(Busy) \in Nat /\ \A i \in Items : Cardinality(Due(i)) \in Nat
    BY Finite
  <2> QED
    BY <1>1, <1>2, <1>10, <2>1 DEF Counted
<1>12. RecordsMatchVendor'
  BY <1>1, <1>2, <1>10 DEF RecordsMatchVendor
<1>13. ~overlapped' /\ ~disturbed' => Once'
  <2>1. \A i \in Items : Holding(i)' = Holding(i)
    BY <1>2, <1>8, <1>9 DEF Holding
  <2> QED
    BY <1>1, <1>2, <1>4, <2>1 DEF Once
<1>14. TypeOK'
  <2>1. call' \in [Callers -> CallType] /\ calls' \in 0..MaxCalls
    BY <1>1, <1>2, BoundsAssumption
  <2> QED
    BY <1>1, <1>2, <1>4, <2>1 DEF TypeOK, CallType
<1>15. Intact'
  BY <1>1, <1>2 DEF Intact
<1> QED
  BY <1>2, <1>7, <1>11, <1>12, <1>13, <1>14, <1>15, InvParts DEF IInv, Callings

LEMMA SubmitStep ==
  ASSUME IInv, NEW c \in Callers, NEW dry \in BOOLEAN, Submit(c, dry)
  PROVE  IInv' /\ UNCHANGED <<batch, item>>
<1>1. PICK ticked \in SUBSET Items : ticked = selected \cap Live
  BY DEF Live
<1>2. PICK i : i = Idle
  OBVIOUS
<1>3. i \in CallType /\ i.pc = "idle" /\ i.dry = FALSE /\ i.todo = {} /\ \A j \in Items : i.got[j] = "none"
  BY <1>2, IdleTyped
<1>4. PICK k : k = [i EXCEPT !.pc = IF dry THEN "load" ELSE "publish", !.dry = dry,
                             !.todo = IF dry THEN {} ELSE ticked]
  OBVIOUS
<1>5. Begin(c, k) /\ \A j \in selected \cap Live : item[j] \in Submittable
  BY <1>1, <1>2, <1>4 DEF Submit
<1>6. CASE dry
  <2>1. k = [i EXCEPT !.pc = "load", !.dry = TRUE, !.todo = {}]
    BY <1>4, <1>6
  <2>2. k \in CallType /\ k.pc = "load" /\ k.todo = {} /\ k.got = i.got
    BY <1>3, <2>1 DEF CallType
  <2> QED
    BY <1>1, <1>3, <1>5, <2>2, BeginStep
<1>7. CASE ~dry
  <2>1. k = [i EXCEPT !.pc = "publish", !.dry = FALSE, !.todo = ticked]
    BY <1>4, <1>7
  <2>2. k \in CallType /\ k.pc = "publish" /\ k.todo = ticked /\ k.got = i.got /\ k.dry = FALSE
    BY <1>3, <2>1 DEF CallType
  <2> QED
    BY <1>1, <1>3, <1>5, <2>2, BeginStep
<1> QED
  BY <1>6, <1>7

LEMMA RetryStep ==
  ASSUME IInv, NEW c \in Callers, NEW i \in Items, Retry(c, i)
  PROVE  IInv' /\ UNCHANGED <<batch, item>>
<1>1. PICK o : o = Idle
  OBVIOUS
<1>2. o \in CallType /\ o.pc = "idle" /\ o.dry = FALSE /\ o.todo = {} /\ \A j \in Items : o.got[j] = "none"
  BY <1>1, IdleTyped
<1>3. PICK k : k = [o EXCEPT !.pc = "retry", !.batch = batch, !.picked = {i}]
  OBVIOUS
<1>4. Begin(c, k) /\ item[i] = "publish_failed" /\ batch \in BatchStates
  BY <1>1, <1>3, Types DEF Retry, IInv
<1>5. /\ k \in CallType /\ k.pc = "retry" /\ k.todo = {} /\ k.got = o.got /\ k.dry = FALSE
      /\ k.batch = batch /\ k.picked = {i}
  BY <1>2, <1>3, <1>4 DEF CallType
<1>6. \A j \in Items : k.got[j] = "none"
  BY <1>2, <1>5
<1> QED
  BY <1>4, <1>5, <1>6, BeginStep

-----------------------------------------------------------------------------
(* A call goes on. *)

\* A step of a call at work: types, counts and calls, from what it changes.
LEMMA Moves ==
  ASSUME IInv, NEW c \in Callers, NEW n \in CallType, call' = [call EXCEPT ![c] = n],
         call[c].pc # "idle", UNCHANGED <<selected, calls, edits, overlapped>>,
         faults' \in 0..MaxFaults, disturbed' \in BOOLEAN, disturbed => disturbed',
         doubtful' \in SUBSET Items, dropped' \in SUBSET Items,
         batch' \in BatchStates, item' \in [Items -> ItemStates],
         vendor' \in [Items -> Nat], posted' \in [Items -> Nat],
         \A i \in Items : /\ DueIn(n, i) => DueIn(call[c], i)
                          /\ \/ vendor'[i] = vendor[i]
                             \/ vendor'[i] = vendor[i] + 1 /\ DueIn(call[c], i) /\ ~DueIn(n, i)
                          /\ \/ posted'[i] = posted[i]
                             \/ posted'[i] = posted[i] + 1 /\ n.pc = "idle",
         CallOK(n)', ~overlapped => AloneOK(n)'
  PROVE  TypeOK' /\ Counted' /\ Callings'
<1>1. /\ TypeOK /\ Counted /\ Callings
      /\ call \in [Callers -> CallType] /\ vendor \in [Items -> 0..MaxCalls]
      /\ posted \in [Items -> 0..MaxCalls] /\ calls \in 0..MaxCalls
  BY InvParts, Types
<1>2. Monotone
  BY <1>1 DEF Monotone
<1>3. ~overlapped' => \A d \in Busy : d = c
  BY <1>1 DEF Callings, Busy
<1>4. Callings'
  BY <1>1, <1>2, <1>3, CallingsStep
<1>5. PICK o : o = call[c]
  OBVIOUS
<1>6. CountsMove(o, n)
  BY <1>1, <1>5, Counting
<1>7. Counted'
  <2>1. /\ Cardinality(Busy) \in Nat /\ Cardinality(Busy)' \in Nat
        /\ Cardinality(Busy)' <= Cardinality(Busy)
        /\ n.pc = "idle" => Cardinality(Busy) = Cardinality(Busy)' + 1
    BY <1>5, <1>6 DEF CountsMove
  <2>2. ASSUME NEW i \in Items
        PROVE  /\ Cardinality(Due(i)) \in Nat /\ Cardinality(Due(i))' \in Nat
               /\ Cardinality(Due(i))' <= Cardinality(Due(i))
               /\ vendor'[i] = vendor[i] + 1 => Cardinality(Due(i)) = Cardinality(Due(i))' + 1
    <3>1. DueIn(n, i) => DueIn(o, i)
      BY <1>5
    <3>2. vendor'[i] = vendor[i] + 1 => DueIn(o, i) /\ ~DueIn(n, i)
      BY <1>1, <1>5
    <3> QED
      BY <1>6, <3>1, <3>2 DEF CountsMove
  <2> QED
    BY <1>1, <2>1, <2>2 DEF Counted
<1>8. vendor' \in [Items -> 0..MaxCalls] /\ posted' \in [Items -> 0..MaxCalls]
  <2>1. Cardinality(Busy)' \in Nat /\ \A i \in Items : Cardinality(Due(i))' \in Nat
    BY <1>6 DEF CountsMove
  <2>2. \A i \in Items : vendor'[i] <= MaxCalls /\ posted'[i] <= MaxCalls
    BY <1>1, <1>7, <2>1, BoundsAssumption DEF Counted
  <2> QED
    BY <2>2, BoundsAssumption
<1>9. TypeOK'
  <2>1. call' \in [Callers -> CallType]
    BY <1>1
  <2> QED
    BY <1>1, <1>8, <2>1 DEF TypeOK, CallType
<1> QED
  BY <1>4, <1>7, <1>9

\* What the runner may do to the vendor's count of an item, and what it leaves in doubt.
RunnerDoes(i, res) ==
  /\ \/ vendor'[i] = vendor[i] /\ doubtful' = doubtful /\ res = "failed"
     \/ vendor'[i] = vendor[i] + 1 /\ doubtful' = doubtful /\ res = "ok"
     \/ vendor'[i] = vendor[i] + 1 /\ doubtful' = doubtful \cup {i} /\ res = "failed"
  /\ \A j \in Items : j # i => vendor'[j] = vendor[j]
  /\ vendor' \in [Items -> Nat] /\ doubtful' \in SUBSET Items
  /\ doubtful \subseteq doubtful' /\ doubtful' \subseteq doubtful \cup {i}

LEMMA RunnerEffect ==
  ASSUME TypeOK, NEW i \in Items, NEW res \in {"ok", "failed"}, Runner(i, res)
  PROVE  RunnerDoes(i, res)
<1>1. vendor \in [Items -> Nat] /\ doubtful \in SUBSET Items
  BY Types, BoundsAssumption
<1>2. CASE /\ vendor' = [vendor EXCEPT ![i] = @ + 1]
           /\ doubtful' = IF res = "ok" THEN doubtful ELSE doubtful \cup {i}
  <2>1. doubtful' \in SUBSET Items /\ doubtful \subseteq doubtful' /\ doubtful' \subseteq doubtful \cup {i}
    BY <1>1, <1>2
  <2> QED
    BY <1>1, <1>2, <2>1 DEF RunnerDoes
<1>3. CASE res = "failed" /\ UNCHANGED <<vendor, doubtful>>
  BY <1>1, <1>3 DEF RunnerDoes
<1> QED
  BY <1>2, <1>3 DEF Runner

\* What the invariant says of a call at work.
LEMMA AtWork ==
  ASSUME IInv, NEW c \in Callers
  PROVE  /\ call[c] \in CallType /\ CallOK(call[c]) /\ (~overlapped => AloneOK(call[c]))
         /\ TypeOK /\ Counted /\ RecordsMatchVendor /\ Intact
         /\ (~overlapped /\ ~disturbed => Once)
         /\ call \in [Callers -> CallType] /\ vendor \in [Items -> 0..MaxCalls]
         /\ posted \in [Items -> 0..MaxCalls]
         /\ batch \in BatchStates /\ item \in [Items -> ItemStates]
         /\ overlapped \in BOOLEAN /\ disturbed \in BOOLEAN /\ faults \in 0..MaxFaults
         /\ doubtful \in SUBSET Items /\ dropped \in SUBSET Items
BY InvParts, Types DEF Callings

\* As long as calls have never overlapped, what a call does not hold nobody holds.
LEMMA HeldAlone ==
  ASSUME IInv, NEW c \in Callers, call[c].pc # "idle", ~overlapped, NEW i \in Items
  PROVE  Holding(i) # {} => call[c].got[i] = "ok"
<1>1. ASSUME NEW d \in Holding(i)
      PROVE  d = c
  <2>1. d \in Callers /\ call[d].got[i] = "ok"
    BY DEF Holding
  <2>2. call[d].pc # "idle"
    BY <2>1 DEF IInv, CallOK
  <2> QED
    BY <2>1, <2>2 DEF IInv, Busy
<1> QED
  BY <1>1 DEF Holding

LEMMA PublishItemStep ==
  ASSUME IInv, NEW c \in Callers, NEW i \in Items, PublishItem(c, i)
  PROVE  IInv' /\ UNCHANGED <<batch, item>>
<1>k. PICK k : k = call[c]
  OBVIOUS
<1>1. /\ k \in CallType /\ CallOK(k) /\ (~overlapped => AloneOK(k)) /\ TypeOK
      /\ RecordsMatchVendor /\ Intact
      /\ (~overlapped /\ ~disturbed => Once) /\ call \in [Callers -> CallType]
      /\ vendor \in [Items -> 0..MaxCalls] /\ posted \in [Items -> 0..MaxCalls]
      /\ batch \in BatchStates /\ item \in [Items -> ItemStates]
      /\ disturbed \in BOOLEAN /\ faults \in 0..MaxFaults /\ dropped \in SUBSET Items
  BY <1>k, AtWork
<1>2. /\ k.pc = "publish" /\ i \in k.todo
      /\ UNCHANGED <<batch, item, selected, posted, calls, edits, faults, overlapped, disturbed, dropped>>
  BY <1>k DEF PublishItem, rowVars, counters
<1>3. PICK res \in {"ok", "failed"} :
        /\ Runner(i, res)
        /\ call' = [call EXCEPT ![c].got[i] = res, ![c].todo = @ \ {i},
                                ![c].pc = IF call[c].todo = {i} THEN "load" ELSE @]
  BY DEF PublishItem
<1>4. RunnerDoes(i, res)
  BY <1>1, <1>3, RunnerEffect
<1>5. PICK p \in {"publish", "load"} : p = IF k.todo = {i} THEN "load" ELSE k.pc
  BY <1>2
<1>6. PICK n : n = [k EXCEPT !.got[i] = res, !.todo = @ \ {i}, !.pc = p]
  OBVIOUS
<1>7. call' = [call EXCEPT ![c] = n]
  BY <1>k, <1>1, <1>3, <1>5, <1>6 DEF CallType
<1>8. /\ n \in CallType /\ n.pc = p /\ n.dry = k.dry /\ n.todo = k.todo \ {i}
      /\ n.got[i] = res /\ (\A j \in Items : j # i => n.got[j] = k.got[j]) /\ n.picked = k.picked
  BY <1>1, <1>6 DEF CallType, Outcomes
<1>9. k.dry = FALSE /\ n.pc \notin {"idle", "write", "retry", "retried"} /\ k.got[i] = "none"
  BY <1>1, <1>2, <1>5, <1>8 DEF CallOK, CallType
<1>10. \A j \in Items : DueIn(k, j) <=> j \in k.todo
  BY <1>2 DEF DueIn
<1>11. \A j \in Items : DueIn(n, j) <=> j \in k.todo \ {i}
  BY <1>8, <1>9 DEF DueIn
<1>12. CallOK(n)'
  <2>1. \A j \in n.todo : n.got[j] = "none"
    BY <1>1, <1>8 DEF CallOK, CallType
  <2>3. n.todo # {} => n.pc = "publish"
    BY <1>2, <1>5, <1>8
  <2>4. n.dry = FALSE
    BY <1>8, <1>9
  <2> QED
    BY <1>9, <2>1, <2>3, <2>4 DEF CallOK
<1>13. ~overlapped => AloneOK(n)'
  <2>1. n.todo \cup Published(n) \subseteq k.todo \cup Published(k)
    BY <1>1, <1>2, <1>8 DEF Published
  <2>2. UNCHANGED Live /\ Published(n)' = Published(n)
    BY <1>2 DEF Live, Published
  <2> QED
    BY <1>1, <1>2, <1>8, <1>9, <2>1, <2>2 DEF AloneOK
<1>14. TypeOK' /\ Counted' /\ Callings'
  <2>1. \A j \in Items : /\ DueIn(n, j) => DueIn(call[c], j)
                         /\ \/ vendor'[j] = vendor[j]
                            \/ vendor'[j] = vendor[j] + 1 /\ DueIn(call[c], j) /\ ~DueIn(n, j)
    BY <1>k, <1>2, <1>4, <1>10, <1>11 DEF RunnerDoes
  <2>2. posted' \in [Items -> Nat]
    BY <1>1, <1>2, BoundsAssumption
  <2> QED
    BY <1>k, <1>1, <1>2, <1>4, <1>7, <1>8, <1>12, <1>13, <2>1, <2>2, Moves DEF RunnerDoes
<1>15. RecordsMatchVendor'
  <2>1. CountsMove(k, n)
    BY <1>k, <1>1, <1>7, <1>8, Counting
  <2>2. ASSUME NEW j \in Items
        PROVE  /\ posted[j] + Pending(j)' <= vendor'[j]
               /\ vendor'[j] > posted[j] + Pending(j)' => j \in doubtful' \cup dropped \/ item[j] = "deleted"
    <3>1. /\ posted[j] + Pending(j) <= vendor[j]
          /\ vendor[j] > posted[j] + Pending(j) => j \in doubtful \cup dropped \/ item[j] = "deleted"
      BY <1>1 DEF RecordsMatchVendor
    <3>2. Pending(j) \in Nat /\ Pending(j)' = IF j = i /\ res = "ok" THEN Pending(j) + 1 ELSE Pending(j)
      BY <1>8, <1>9, <2>1 DEF CountsMove
    <3>3. posted[j] \in Nat /\ vendor[j] \in Nat
      BY <1>1, BoundsAssumption
    <3>4. doubtful \subseteq doubtful' /\ (vendor'[j] = vendor[j] + 1 /\ res = "failed" => i \in doubtful')
      BY <1>1, <1>4, <3>3 DEF RunnerDoes
    <3>5. \/ vendor'[j] = vendor[j] /\ (j = i => res = "failed")
          \/ vendor'[j] = vendor[j] + 1 /\ j = i
      BY <1>4 DEF RunnerDoes
    <3> QED
      BY <1>3, <3>1, <3>2, <3>3, <3>4, <3>5
  <2> QED
    BY <1>1, <1>2, <2>2 DEF RecordsMatchVendor
<1>16. ~overlapped' /\ ~disturbed' => Once'
  <2>1. SUFFICES ASSUME ~overlapped, ~disturbed, NEW j \in Items, j \notin doubtful' \cup dropped
                 PROVE  /\ vendor'[j] <= 1
                        /\ vendor'[j] = 1 => item[j] = "published" \/ Holding(j)' # {}
    BY <1>1, <1>2 DEF Once
  <2>o. j \notin doubtful \cup dropped
    BY <1>4, <2>1 DEF RunnerDoes
  <2>2. CASE j = i
    <3>1. i \in selected \cap Live /\ item[i] \in Submittable
      BY <1>1, <1>2, <2>1 DEF AloneOK
    <3>2. item[j] # "published" /\ Holding(j) = {}
      BY <1>k, <1>2, <1>9, <2>1, <2>2, <3>1, HeldAlone DEF Submittable
    <3>3. vendor[j] = 0
      BY <1>1, <2>1, <2>o, <3>2 DEF Once
    <3>4. res = "ok" => c \in Holding(j)'
      BY <1>1, <1>7, <1>8, <2>2 DEF Holding
    <3> QED
      BY <1>4, <2>1, <2>2, <3>3, <3>4 DEF RunnerDoes
  <2>3. CASE j # i
    <3>1. Holding(j)' = Holding(j)
      BY <1>k, <1>1, <1>7, <1>8, <2>3 DEF Holding
    <3> QED
      BY <1>1, <1>4, <2>1, <2>o, <2>3, <3>1 DEF Once, RunnerDoes
  <2> QED
    BY <2>2, <2>3
<1>17. Intact'
  BY <1>1, <1>2 DEF Intact
<1> QED
  BY <1>2, <1>14, <1>15, <1>16, <1>17 DEF IInv, Callings

LEMMA RetryPublishStep ==
  ASSUME IInv, NEW c \in Callers, RetryPublish(c)
  PROVE  IInv' /\ UNCHANGED <<batch, item>>
<1>k. PICK k : k = call[c]
  OBVIOUS
<1>1. /\ k \in CallType /\ CallOK(k) /\ (~overlapped => AloneOK(k)) /\ TypeOK
      /\ RecordsMatchVendor /\ Intact
      /\ (~overlapped /\ ~disturbed => Once) /\ call \in [Callers -> CallType]
      /\ vendor \in [Items -> 0..MaxCalls] /\ posted \in [Items -> 0..MaxCalls]
      /\ batch \in BatchStates /\ item \in [Items -> ItemStates]
      /\ disturbed \in BOOLEAN /\ faults \in 0..MaxFaults /\ dropped \in SUBSET Items
  BY <1>k, AtWork
<1>2. /\ k.pc = "retry"
      /\ UNCHANGED <<batch, item, selected, posted, calls, edits, faults, overlapped, disturbed, dropped>>
  BY <1>k DEF RetryPublish, rowVars, counters
<1>3. PICK i \in Items : k.picked = {i}
  BY <1>1, <1>2 DEF CallOK
<1>4. PICK res \in {"ok", "failed"} :
        /\ Runner(i, res)
        /\ IF res = "ok" THEN call' = [call EXCEPT ![c].pc = "retried", ![c].got[i] = "ok"]
                         ELSE End(c)
  BY <1>k, <1>3 DEF RetryPublish
<1>5. RunnerDoes(i, res)
  BY <1>1, <1>4, RunnerEffect
<1>6. PICK n : n = IF res = "ok" THEN [k EXCEPT !.pc = "retried", !.got[i] = "ok"] ELSE Idle
  OBVIOUS
<1>7. call' = [call EXCEPT ![c] = n]
  BY <1>k, <1>1, <1>4, <1>6 DEF CallType, End
<1>8. k.todo = {} /\ k.dry = FALSE /\ \A j \in Items : k.got[j] # "ok"
  BY <1>1, <1>2 DEF CallOK, CallType
<1>9. /\ n \in CallType /\ n.dry = FALSE /\ n.todo = {}
      /\ \A j \in Items : n.got[j] = "ok" <=> j = i /\ res = "ok"
      /\ \/ n.pc = "retried" /\ n.picked = {i} /\ n.batch = k.batch /\ res = "ok"
         \/ n.pc = "idle" /\ res = "failed"
  <2>1. CASE res = "ok"
    <3>1. n = [k EXCEPT !.pc = "retried", !.got[i] = "ok"]
      BY <1>6, <2>1
    <3>2. /\ n \in CallType /\ n.pc = "retried" /\ n.picked = {i} /\ n.dry = k.dry /\ n.todo = k.todo
          /\ n.batch = k.batch
          /\ n.got[i] = "ok" /\ \A j \in Items : j # i => n.got[j] = k.got[j]
      BY <1>1, <1>3, <3>1 DEF CallType, Outcomes
    <3> QED
      BY <1>8, <2>1, <3>2
  <2>2. CASE res = "failed"
    BY <1>6, <2>2, IdleTyped
  <2> QED
    BY <1>4, <2>1, <2>2
<1>10. (\A j \in Items : DueIn(k, j) <=> j = i) /\ \A j \in Items : ~DueIn(n, j)
  BY <1>2, <1>3, <1>8, <1>9 DEF DueIn
<1>11. CallOK(n)'
  BY <1>3, <1>9 DEF CallOK
<1>12. ~overlapped => AloneOK(n)'
  BY <1>1, <1>2, <1>3, <1>9 DEF AloneOK
<1>13. TypeOK' /\ Counted' /\ Callings'
  <2>1. \A j \in Items : /\ DueIn(n, j) => DueIn(call[c], j)
                         /\ \/ vendor'[j] = vendor[j]
                            \/ vendor'[j] = vendor[j] + 1 /\ DueIn(call[c], j) /\ ~DueIn(n, j)
    BY <1>k, <1>5, <1>10 DEF RunnerDoes
  <2>2. posted' \in [Items -> Nat]
    BY <1>1, <1>2, BoundsAssumption
  <2> QED
    BY <1>k, <1>1, <1>2, <1>5, <1>7, <1>9, <1>11, <1>12, <2>1, <2>2, Moves DEF RunnerDoes
<1>14. RecordsMatchVendor'
  <2>1. CountsMove(k, n)
    BY <1>k, <1>1, <1>7, <1>9, Counting
  <2>2. ASSUME NEW j \in Items
        PROVE  /\ posted[j] + Pending(j)' <= vendor'[j]
               /\ vendor'[j] > posted[j] + Pending(j)' => j \in doubtful' \cup dropped \/ item[j] = "deleted"
    <3>1. /\ posted[j] + Pending(j) <= vendor[j]
          /\ vendor[j] > posted[j] + Pending(j) => j \in doubtful \cup dropped \/ item[j] = "deleted"
      BY <1>1 DEF RecordsMatchVendor
    <3>2. Pending(j) \in Nat /\ Pending(j)' = IF j = i /\ res = "ok" THEN Pending(j) + 1 ELSE Pending(j)
      BY <1>8, <1>9, <2>1 DEF CountsMove
    <3>3. posted[j] \in Nat /\ vendor[j] \in Nat
      BY <1>1, BoundsAssumption
    <3>4. doubtful \subseteq doubtful' /\ (vendor'[j] = vendor[j] + 1 /\ res = "failed" => i \in doubtful')
      BY <1>1, <1>5, <3>3 DEF RunnerDoes
    <3>5. \/ vendor'[j] = vendor[j] /\ (j = i => res = "failed")
          \/ vendor'[j] = vendor[j] + 1 /\ j = i
      BY <1>5 DEF RunnerDoes
    <3> QED
      BY <1>4, <3>1, <3>2, <3>3, <3>4, <3>5
  <2> QED
    BY <1>1, <1>2, <2>2 DEF RecordsMatchVendor
<1>15. ~overlapped' /\ ~disturbed' => Once'
  <2>1. SUFFICES ASSUME ~overlapped, ~disturbed, NEW j \in Items, j \notin doubtful' \cup dropped
                 PROVE  /\ vendor'[j] <= 1
                        /\ vendor'[j] = 1 => item[j] = "published" \/ Holding(j)' # {}
    BY <1>1, <1>2 DEF Once
  <2>o. j \notin doubtful \cup dropped
    BY <1>5, <2>1 DEF RunnerDoes
  <2>2. Holding(j) = {}
    BY <1>k, <1>2, <1>8, <2>1, HeldAlone
  <2>3. CASE j = i
    <3>1. item[j] # "published"
      BY <1>1, <1>2, <1>3, <2>1, <2>3 DEF AloneOK
    <3>2. vendor[j] = 0
      BY <1>1, <2>1, <2>o, <2>2, <3>1 DEF Once
    <3>3. res = "ok" => c \in Holding(j)'
      BY <1>1, <1>7, <1>9, <2>3 DEF Holding
    <3> QED
      BY <1>5, <2>1, <2>3, <3>2, <3>3 DEF RunnerDoes
  <2>4. CASE j # i
    BY <1>1, <1>5, <2>1, <2>o, <2>2, <2>4 DEF Once, RunnerDoes
  <2> QED
    BY <2>3, <2>4
<1>16. Intact'
  BY <1>1, <1>2 DEF Intact
<1> QED
  BY <1>2, <1>13, <1>14, <1>15, <1>16 DEF IInv, Callings

\* A call ends: what it records as published it holds, and what it holds it records, but
\* for the items of S.  While calls have not overlapped it takes nothing back, and it
\* drops items only with the batch closed.
LEMMA EndsCall ==
  ASSUME IInv, NEW c \in Callers, call[c].pc # "idle", NEW S \in SUBSET Items, EndWithout(c, S),
         UNCHANGED <<selected, vendor, calls, edits, overlapped, doubtful>>,
         faults' \in 0..MaxFaults, disturbed' \in BOOLEAN, disturbed => disturbed',
         batch' \in BatchStates, item' \in [Items -> ItemStates], posted' \in [Items -> Nat],
         batch' = "deleted" => batch = "deleted",
         \A i \in Items :
           /\ posted'[i] = posted[i] \/ (posted'[i] = posted[i] + 1 /\ call[c].got[i] = "ok")
           /\ call[c].got[i] = "ok" => i \in S \/ posted'[i] = posted[i] + 1
           /\ item'[i] = "published" => item[i] = "published" \/ posted'[i] = posted[i] + 1
           /\ item'[i] = "deleted" <=> item[i] = "deleted",
         ~overlapped /\ ~disturbed' =>
           /\ \A i \in Items : item[i] = "published" \/ (call[c].got[i] = "ok" /\ i \notin S)
                                 => item'[i] = "published"
           /\ dropped # {} \/ S # {} => batch' \in Closed
  PROVE  IInv'
<1>k. PICK k : k = call[c]
  OBVIOUS
<1>1. /\ k \in CallType /\ CallOK(k) /\ TypeOK /\ RecordsMatchVendor /\ Intact
      /\ (~overlapped /\ ~disturbed => Once) /\ call \in [Callers -> CallType]
      /\ vendor \in [Items -> 0..MaxCalls] /\ posted \in [Items -> 0..MaxCalls]
      /\ doubtful \in SUBSET Items /\ dropped \in SUBSET Items
  BY <1>k, AtWork
<1>2. PICK n : n = Idle
  OBVIOUS
<1>3. /\ n \in CallType /\ n.pc = "idle" /\ n.todo = {} /\ n.dry = FALSE
      /\ \A i \in Items : n.got[i] = "none"
  BY <1>2, IdleTyped
<1>4. /\ call' = [call EXCEPT ![c] = n] /\ CallOK(n)' /\ AloneOK(n)'
      /\ dropped' = dropped \cup S /\ dropped' \in SUBSET Items
  <2>1. CallOK(n)' /\ AloneOK(n)'
    BY <1>3 DEF CallOK, AloneOK
  <2> QED
    BY <1>1, <1>2, <2>1 DEF End, EndWithout
<1>5. \A i \in Items : ~DueIn(n, i)
  BY <1>3 DEF DueIn
<1>6. TypeOK' /\ Counted' /\ Callings'
  <2>1. vendor' \in [Items -> Nat]
    BY <1>1, BoundsAssumption
  <2> QED
    BY <1>1, <1>3, <1>4, <1>5, <2>1, Moves
<1>7. CountsMove(k, n)
  BY <1>k, <1>1, <1>3, <1>4, Counting
<1>8. ASSUME NEW i \in Items
      PROVE  /\ item'[i] = "published" => posted'[i] >= 1
             /\ posted'[i] + Pending(i)' <= vendor[i]
             /\ vendor[i] > posted'[i] + Pending(i)'
                  => i \in doubtful \cup dropped' \/ item'[i] = "deleted"
  <2>1. /\ item[i] = "published" => posted[i] >= 1
        /\ posted[i] + Pending(i) <= vendor[i]
        /\ vendor[i] > posted[i] + Pending(i) => i \in doubtful \cup dropped \/ item[i] = "deleted"
    BY <1>1 DEF RecordsMatchVendor
  <2>2. posted[i] \in Nat /\ vendor[i] \in Nat
    BY <1>1, BoundsAssumption
  <2>3. Pending(i) \in Nat /\ Pending(i)' \in Nat
        /\ (k.got[i] = "ok" => Pending(i) = Pending(i)' + 1)
        /\ (k.got[i] # "ok" => Pending(i)' = Pending(i))
    BY <1>3, <1>7 DEF CountsMove
  <2>4. /\ posted'[i] = posted[i] \/ (posted'[i] = posted[i] + 1 /\ k.got[i] = "ok")
        /\ k.got[i] = "ok" => i \in S \/ posted'[i] = posted[i] + 1
        /\ item'[i] = "published" => item[i] = "published" \/ posted'[i] = posted[i] + 1
        /\ item'[i] = "deleted" <=> item[i] = "deleted"
    BY <1>k
  <2>5. dropped' = dropped \cup S
    BY <1>4
  <2> QED
    BY <2>1, <2>2, <2>3, <2>4, <2>5
<1>9. RecordsMatchVendor'
  BY <1>8 DEF RecordsMatchVendor
<1>10. Intact'
  BY <1>1 DEF Intact
<1>11. ~overlapped' /\ ~disturbed' => Once'
  <2>1. SUFFICES ASSUME ~overlapped, ~disturbed, ~disturbed'
                 PROVE  /\ dropped' # {} => batch' \in Closed
                        /\ \A i \in Items \ (doubtful \cup dropped') :
                             vendor[i] <= 1 /\ (vendor[i] = 1 => item'[i] = "published")
    BY DEF Once
  <2>2. dropped' # {} => batch' \in Closed
    BY <1>4, <2>1
  <2>3. ASSUME NEW i \in Items, i \notin doubtful \cup dropped'
        PROVE  vendor[i] <= 1 /\ (vendor[i] = 1 => item'[i] = "published")
    <3>1. Holding(i) # {} => k.got[i] = "ok"
      BY <1>k, <2>1, HeldAlone
    <3>2. i \notin dropped /\ i \notin S
      BY <1>4, <2>3
    <3>3. vendor[i] <= 1 /\ (vendor[i] = 1 => item[i] = "published" \/ k.got[i] = "ok")
      BY <1>1, <2>1, <2>3, <3>1, <3>2 DEF Once
    <3> QED
      BY <1>k, <2>1, <3>2, <3>3
  <2> QED
    BY <2>2, <2>3
<1> QED
  BY <1>6, <1>9, <1>10, <1>11 DEF IInv, Callings

\* A call ends and changes no row: it drops all it has published.
LEMMA EndStep ==
  ASSUME IInv, NEW c \in Callers, call[c].pc # "idle", EndWithout(c, Published(call[c])),
         UNCHANGED <<batch, item, selected, posted, vendor, calls, edits, overlapped, doubtful>>,
         faults' \in 0..MaxFaults, disturbed' \in BOOLEAN, disturbed => disturbed',
         ~overlapped /\ ~disturbed' /\ Published(call[c]) # {} => batch \in Closed
  PROVE  IInv'
<1>1. PICK S \in SUBSET Items : S = Published(call[c])
  BY DEF Published
<1>2. /\ batch' \in BatchStates /\ item' \in [Items -> ItemStates] /\ posted' \in [Items -> Nat]
      /\ \A i \in Items : call[c].got[i] = "ok" <=> i \in S
      /\ ~overlapped /\ ~disturbed' => Once
  <2>1. posted \in [Items -> Nat]
    BY AtWork, BoundsAssumption
  <2> QED
    BY <1>1, <2>1, AtWork DEF Published
<1>3. ~overlapped /\ ~disturbed' =>
        /\ \A i \in Items : item[i] = "published" \/ (call[c].got[i] = "ok" /\ i \notin S)
                              => item'[i] = "published"
        /\ dropped # {} \/ S # {} => batch' \in Closed
  BY <1>1, <1>2 DEF Once
<1> QED
  BY <1>1, <1>2, <1>3, EndsCall

\* What one step may do to the statuses.
MovesForward ==
  ~overlapped' =>
    /\ batch' \in {batch, "deleted"} \cup BatchMoves[batch]
    /\ \A i \in Items : item[i] = "published" => item'[i] \in {"published", "deleted"}
    /\ batch # "completed" /\ batch' = "completed" /\ ~disturbed'
         => \A i \in selected \cap Live : item'[i] = "published"

LEMMA StillForward == UNCHANGED <<batch, item>> => MovesForward
BY DEF MovesForward

LEMMA LoadStep ==
  ASSUME IInv, NEW c \in Callers, LoadOutcomeRows(c)
  PROVE  IInv' /\ UNCHANGED <<batch, item>>
<1>k. PICK k : k = call[c]
  OBVIOUS
<1>1. /\ k \in CallType /\ CallOK(k) /\ (~overlapped => AloneOK(k)) /\ TypeOK
      /\ RecordsMatchVendor /\ Intact
      /\ (~overlapped /\ ~disturbed => Once) /\ call \in [Callers -> CallType]
      /\ vendor \in [Items -> 0..MaxCalls] /\ posted \in [Items -> 0..MaxCalls]
      /\ batch \in BatchStates /\ item \in [Items -> ItemStates] /\ selected \in SUBSET Items
      /\ disturbed \in BOOLEAN /\ faults \in 0..MaxFaults
      /\ doubtful \in SUBSET Items /\ dropped \in SUBSET Items
  BY <1>k, AtWork, Types
<1>2. /\ k.pc = "load"
      /\ UNCHANGED <<batch, item, selected, posted, vendor, calls, edits, faults, overlapped,
                     disturbed, doubtful>>
  BY <1>k DEF LoadOutcomeRows, rowVars, counters
<1>3. CASE batch = "deleted"
  <2>1. EndWithout(c, Published(call[c])) /\ disturbed
    BY <1>1, <1>3 DEF LoadOutcomeRows, Intact
  <2> QED
    BY <1>k, <1>1, <1>2, <2>1, EndStep
<1>4. CASE batch # "deleted"
  <2>1. PICK ticked \in SUBSET Items : ticked = selected \cap Live
    BY <1>1
  <2>2. PICK n : n = [k EXCEPT !.pc = "write", !.batch = batch, !.item = item, !.picked = ticked]
    OBVIOUS
  <2>3. /\ n \in CallType /\ n.pc = "write" /\ n.batch = batch /\ n.item = item /\ n.picked = ticked
        /\ n.got = k.got /\ n.todo = k.todo /\ n.dry = k.dry
    BY <1>1, <2>2 DEF CallType
  <2>4. dropped' = dropped
    BY <1>4 DEF LoadOutcomeRows
  <2>5. call' = [call EXCEPT ![c] = n]
    <3>1. call' = [call EXCEPT ![c].pc = "write", ![c].batch = batch, ![c].item = item,
                              ![c].picked = selected \cap Live]
      BY <1>4 DEF LoadOutcomeRows
    <3> QED
      BY <1>k, <1>1, <2>1, <2>2, <3>1 DEF CallType
  <2>6. k.todo = {}
    BY <1>1, <1>2 DEF CallOK, CallType
  <2>7. CallOK(n)'
    BY <1>1, <1>2, <2>3, <2>6 DEF CallOK
  <2>8. ~overlapped => AloneOK(n)'
    <3>1. UNCHANGED Live /\ Published(n)' = Published(k)
      BY <1>2, <2>3 DEF Live, Published
    <3> QED
      BY <1>1, <1>2, <2>1, <2>3, <2>6, <3>1 DEF AloneOK
  <2>9. \A i \in Items : ~DueIn(n, i) /\ ~DueIn(k, i)
    BY <1>2, <2>3, <2>6 DEF DueIn
  <2>10. TypeOK' /\ Counted' /\ Callings'
    <3>1. vendor' \in [Items -> Nat] /\ posted' \in [Items -> Nat]
      BY <1>1, <1>2, BoundsAssumption
    <3> QED
      BY <1>k, <1>1, <1>2, <2>3, <2>4, <2>5, <2>7, <2>8, <2>9, <3>1, Moves
  <2>11. CountsMove(k, n)
    BY <1>k, <1>1, <2>3, <2>5, Counting
  <2>12. \A i \in Items : Pending(i)' = Pending(i)
    BY <2>3, <2>11 DEF CountsMove
  <2>13. \A i \in Items : Holding(i)' = Holding(i)
    BY <1>k, <1>1, <2>3, <2>5 DEF Holding
  <2>14. RecordsMatchVendor' /\ Intact' /\ (~overlapped' /\ ~disturbed' => Once')
    BY <1>1, <1>2, <2>4, <2>12, <2>13 DEF RecordsMatchVendor, Intact, Once
  <2> QED
    BY <1>2, <2>10, <2>14 DEF IInv, Callings
<1> QED
  BY <1>2, <1>3, <1>4

LEMMA WriteStep ==
  ASSUME IInv, NEW c \in Callers, WriteOutcomes(c)
  PROVE  IInv' /\ MovesForward
<1>k. PICK k : k = call[c]
  OBVIOUS
<1>1. /\ k \in CallType /\ CallOK(k) /\ (~overlapped => AloneOK(k))
      /\ (~overlapped /\ ~disturbed => Once)
      /\ posted \in [Items -> 0..MaxCalls] /\ batch \in BatchStates /\ item \in [Items -> ItemStates]
      /\ disturbed \in BOOLEAN /\ faults \in 0..MaxFaults /\ k.picked \subseteq Items
  BY <1>k, AtWork DEF CallType
<1>2. /\ k.pc = "write" /\ Legal(k) /\ ~RowsGone(k)
      /\ UNCHANGED <<selected, vendor, calls, edits, faults, overlapped, disturbed, doubtful>>
      /\ item' = [i \in Items |-> IF i \in k.picked /\ Target(k, i) # k.item[i]
                                  THEN Target(k, i) ELSE item[i]]
      /\ batch' \in {BatchTarget(k)} \cup (IF BatchTarget(k) = k.batch THEN {batch} ELSE {})
      /\ posted' = [i \in Items |-> IF i \in k.picked /\ ~k.dry /\ Target(k, i) = "published"
                                    THEN posted[i] + 1 ELSE posted[i]]
  BY <1>k DEF WriteOutcomes, counters
<1>3. PICK S \in SUBSET Items : S = Published(k) \ k.picked
  BY DEF Published
<1>4. EndWithout(c, S) /\ \A i \in Items : i \in S <=> k.got[i] = "ok" /\ i \notin k.picked
  BY <1>k, <1>3 DEF WriteOutcomes, Published
<1>5. \A i \in Items : /\ Target(k, i) \in {"review_ready", "published", "publish_failed"}
                       /\ Target(k, i) = "review_ready" <=> k.dry
                       /\ Target(k, i) = "published" <=> ~k.dry /\ k.got[i] = "ok"
  BY DEF Target
<1>6. BatchTarget(k) \in BatchStates \ {"deleted"}
  BY DEF BatchTarget, BatchStates
<1>7. /\ batch' \in BatchStates /\ item' \in [Items -> ItemStates] /\ posted' \in [Items -> Nat]
      /\ batch' = "deleted" => batch = "deleted"
  <2>1. \A i \in Items : Target(k, i) \in ItemStates
    BY <1>5 DEF ItemStates
  <2> QED
    BY <1>1, <1>2, <1>6, <2>1, BoundsAssumption
<1>8. \A i \in k.picked : k.item[i] # "published"
  BY <1>2 DEF Legal, Submittable
<1>9. ASSUME NEW i \in Items
      PROVE  /\ posted'[i] = posted[i] \/ (posted'[i] = posted[i] + 1 /\ k.got[i] = "ok")
             /\ k.got[i] = "ok" => i \in S \/ (posted'[i] = posted[i] + 1 /\ item'[i] = "published")
             /\ item'[i] = "published" => item[i] = "published" \/ posted'[i] = posted[i] + 1
             /\ item'[i] = "deleted" <=> item[i] = "deleted"
             /\ ~overlapped /\ item[i] = "published" => item'[i] = "published"
  <2>1. k.got[i] = "ok" => ~k.dry
    BY <1>1 DEF CallOK
  <2>2. ~overlapped /\ item[i] = "published" => i \notin k.picked
    BY <1>1, <1>2, <1>8 DEF AloneOK
  <2>3. /\ item'[i] = IF i \in k.picked /\ Target(k, i) # k.item[i] THEN Target(k, i) ELSE item[i]
        /\ posted'[i] = IF i \in k.picked /\ ~k.dry /\ Target(k, i) = "published"
                        THEN posted[i] + 1 ELSE posted[i]
    BY <1>2
  <2>4. posted'[i] = posted[i] \/ (posted'[i] = posted[i] + 1 /\ k.got[i] = "ok")
    BY <1>5, <2>3
  <2>5. k.got[i] = "ok" => i \in S \/ (posted'[i] = posted[i] + 1 /\ item'[i] = "published")
    BY <1>4, <1>5, <1>8, <2>1, <2>3
  <2>6. item'[i] = "published" => item[i] = "published" \/ posted'[i] = posted[i] + 1
    BY <1>5, <2>3
  <2>7. ~overlapped /\ item[i] = "published" => item'[i] = "published"
    BY <2>2, <2>3
  <2>8. item'[i] = "deleted" <=> item[i] = "deleted"
    BY <1>2, <1>5, <2>3 DEF RowsGone
  <2> QED
    BY <2>4, <2>5, <2>6, <2>7, <2>8
<1>10. ~overlapped /\ ~disturbed' => dropped = {} /\ S = {}
  <2>1. SUFFICES ASSUME ~overlapped, ~disturbed PROVE dropped = {} /\ S = {}
    BY <1>2
  <2>2. batch = k.batch
    BY <1>1, <1>2, <2>1 DEF AloneOK, RowsGone
  <2>3. batch \notin Closed
    BY <1>2, <2>2 DEF Legal, Closed
  <2>4. Published(k) \subseteq k.picked
    BY <1>1, <1>2, <2>1 DEF AloneOK
  <2> QED
    BY <1>1, <1>3, <2>1, <2>3, <2>4 DEF Once
<1>11. IInv'
  <2>1. ~overlapped /\ ~disturbed' =>
          /\ \A i \in Items : item[i] = "published" \/ (k.got[i] = "ok" /\ i \notin S)
                                => item'[i] = "published"
          /\ dropped # {} \/ S # {} => batch' \in Closed
    BY <1>9, <1>10
  <2>2. call[c].pc # "idle"
    BY <1>k, <1>2
  <2> QED
    BY <1>k, <1>1, <1>2, <1>4, <1>7, <1>9, <2>1, <2>2, EndsCall
<1>12. MovesForward
  <2>1. SUFFICES ASSUME ~overlapped
                 PROVE  /\ batch' \in {batch, "deleted"} \cup BatchMoves[batch]
                        /\ batch # "completed" /\ batch' = "completed" /\ ~disturbed'
                             => \A i \in selected \cap Live : item'[i] = "published"
    BY <1>2, <1>9 DEF MovesForward
  <2>2. batch = k.batch
    BY <1>1, <1>2, <2>1 DEF AloneOK, RowsGone
  <2>3. batch' = BatchTarget(k) \/ batch' = batch
    BY <1>2
  <2>4. IF k.dry THEN batch = "draft" /\ BatchTarget(k) = "review_ready"
        ELSE /\ batch \in {"draft", "review_ready", "partial_failed"}
             /\ BatchTarget(k) \in {"partial_failed", "completed"}
    BY <1>2, <2>2 DEF Legal, BatchTarget
  <2>5. batch' \in {batch, "deleted"} \cup BatchMoves[batch]
    BY <2>3, <2>4 DEF BatchMoves
  <2>6. ASSUME batch # "completed", batch' = "completed", ~disturbed', NEW i \in selected \cap Live
        PROVE  item'[i] = "published"
    <3>1. i \in k.picked /\ i \in Items
      BY <1>1, <1>2, <2>1, <2>6 DEF AloneOK, Live
    <3>2. BatchTarget(k) = "completed"
      BY <2>3, <2>6
    <3>3. Target(k, i) = "published"
      BY <1>5, <3>1, <3>2 DEF BatchTarget
    <3> QED
      BY <1>2, <1>8, <3>1, <3>3
  <2> QED
    BY <2>5, <2>6
<1> QED
  BY <1>11, <1>12

\* A refused write: nothing but the batch's status refuses a call that is alone.
LEMMA RefuseStep ==
  ASSUME IInv, NEW c \in Callers, Refuse(c)
  PROVE  IInv' /\ UNCHANGED <<batch, item>>
<1>k. PICK k : k = call[c]
  OBVIOUS
<1>1. /\ k.pc = "write" /\ (~Legal(k) \/ RowsGone(k)) /\ EndWithout(c, Published(call[c]))
      /\ UNCHANGED <<batch, item, selected, posted, vendor, calls, edits, faults, overlapped,
                     disturbed, doubtful>>
  BY <1>k DEF Refuse, rowVars, counters
<1>2. /\ k \in CallType /\ CallOK(k) /\ (~overlapped => AloneOK(k)) /\ Intact
      /\ batch \in BatchStates /\ disturbed \in BOOLEAN /\ faults \in 0..MaxFaults
  BY <1>k, AtWork
<1>3. ~overlapped /\ ~disturbed' /\ Published(k) # {} => batch \in Closed
  <2>1. SUFFICES ASSUME ~overlapped, ~disturbed, Published(k) # {} PROVE batch \in Closed
    BY <1>1
  <2>2. ~k.dry
    BY <1>2, <2>1 DEF CallOK, Published
  <2>3. /\ batch # "deleted" /\ (\A i \in Items : item[i] # "deleted")
        /\ k.picked = selected \cap Live /\ k.picked \subseteq Items
        /\ \A i \in k.picked : item[i] \in Submittable
    BY <1>1, <1>2, <2>1 DEF Intact, AloneOK, CallType
  <2>4. batch = k.batch /\ \A i \in k.picked : k.item[i] = item[i]
    BY <1>1, <1>2, <2>1, <2>3 DEF AloneOK
  <2>5. ~Legal(k)
    BY <1>1, <2>3 DEF RowsGone
  <2>6. batch \notin {"draft", "review_ready", "partial_failed"}
    BY <2>2, <2>3, <2>4, <2>5 DEF Legal
  <2> QED
    BY <1>2, <2>3, <2>6 DEF BatchStates, Closed
<1> QED
  BY <1>k, <1>1, <1>2, <1>3, EndStep

LEMMA CrashStep ==
  ASSUME IInv, NEW c \in Callers, Crash(c)
  PROVE  IInv' /\ UNCHANGED <<batch, item>>
<1>1. faults' \in 0..MaxFaults /\ call[c].pc # "idle"
  BY AtWork, BoundsAssumption DEF Crash, Fault, Busy
<1>2. EndWithout(c, Published(call[c])) /\ disturbed' = TRUE
      /\ UNCHANGED <<batch, item, selected, posted, vendor, calls, edits, overlapped, doubtful>>
  BY DEF Crash, rowVars
<1> QED
  BY <1>1, <1>2, EndStep

LEMMA RetryWriteStep ==
  ASSUME IInv, NEW c \in Callers, RetryWrite(c)
  PROVE  IInv' /\ MovesForward
<1>k. PICK k : k = call[c]
  OBVIOUS
<1>1. /\ k \in CallType /\ CallOK(k) /\ (~overlapped => AloneOK(k)) /\ Intact
      /\ (~overlapped /\ ~disturbed => Once)
      /\ posted \in [Items -> 0..MaxCalls] /\ batch \in BatchStates /\ item \in [Items -> ItemStates]
      /\ disturbed \in BOOLEAN /\ faults \in 0..MaxFaults
  BY <1>k, AtWork
<1>2. /\ k.pc = "retried"
      /\ UNCHANGED <<selected, vendor, calls, edits, faults, overlapped, disturbed, doubtful>>
  BY <1>k DEF RetryWrite, counters
<1>3. (\A i \in Items : k.got[i] = "ok" <=> i \in k.picked) /\ k.picked \subseteq Items
  BY <1>1, <1>2 DEF CallOK, CallType
<1>4. CASE RowsGone(k)
  <2>1. UNCHANGED <<batch, item, posted>> /\ EndWithout(c, Published(call[c]))
    BY <1>k, <1>4 DEF RetryWrite
  <2>2. disturbed
    BY <1>1, <1>3, <1>4 DEF Intact, RowsGone
  <2> QED
    BY <1>k, <1>1, <1>2, <2>1, <2>2, EndStep, StillForward
<1>5. CASE ~RowsGone(k)
  <2>1. /\ item' = [i \in Items |-> IF i \in k.picked THEN "published" ELSE item[i]]
        /\ posted' = [i \in Items |-> IF i \in k.picked THEN posted[i] + 1 ELSE posted[i]]
        /\ batch' = (IF RetriedBatch(k) = k.batch THEN batch ELSE RetriedBatch(k))
        /\ EndWithout(c, {})
    BY <1>k, <1>5 DEF RetryWrite
  <2>2. /\ k.batch \in BatchStates /\ RetriedBatch(k) \in BatchStates
        /\ RetriedBatch(k) = k.batch \/ RetriedBatch(k) \in Closed
    BY <1>1 DEF RetriedBatch, BatchStates, CallType, Closed
  <2>3. /\ batch' \in BatchStates /\ item' \in [Items -> ItemStates] /\ posted' \in [Items -> Nat]
        /\ batch' = batch \/ batch' \in Closed
    <3>1. "published" \in ItemStates
      BY DEF ItemStates
    <3> QED
      BY <1>1, <2>1, <2>2, <3>1, BoundsAssumption
  <2>4. IInv'
    <3>1. /\ call[c].pc # "idle" /\ {} \in SUBSET Items
          /\ batch' = "deleted" => batch = "deleted"
      BY <1>k, <1>2, <2>3 DEF Closed
    <3>2. ASSUME NEW i \in Items
          PROVE  /\ posted'[i] = posted[i] \/ (posted'[i] = posted[i] + 1 /\ k.got[i] = "ok")
                 /\ k.got[i] = "ok" => posted'[i] = posted[i] + 1 /\ item'[i] = "published"
                 /\ item'[i] = "published" => item[i] = "published" \/ posted'[i] = posted[i] + 1
                 /\ item'[i] = "deleted" <=> item[i] = "deleted"
                 /\ item[i] = "published" => item'[i] = "published"
      BY <1>3, <1>5, <2>1 DEF RowsGone
    <3>3. ~overlapped /\ ~disturbed' =>
            /\ \A i \in Items : item[i] = "published" \/ (k.got[i] = "ok" /\ i \notin {})
                                  => item'[i] = "published"
            /\ dropped # {} \/ {} # {} => batch' \in Closed
      BY <1>1, <1>2, <2>3, <3>2 DEF Once
    <3> QED
      BY <1>k, <1>1, <1>2, <2>1, <2>3, <3>1, <3>2, <3>3, EndsCall
  <2>5. MovesForward
    <3>1. SUFFICES ASSUME ~overlapped
                   PROVE  /\ batch' \in {batch, "deleted"} \cup BatchMoves[batch]
                          /\ batch # "completed" /\ batch' = "completed"
                               => \A i \in selected \cap Live : item'[i] = "published"
      BY <1>2, <2>1 DEF MovesForward
    <3>2. batch = k.batch
      BY <1>1, <1>2, <1>5, <3>1 DEF AloneOK, RowsGone
    <3>3. batch' = RetriedBatch(k)
      BY <2>1, <3>2
    <3>4. RetriedBatch(k) \in {batch} \cup BatchMoves[batch]
      BY <2>2, <3>2 DEF RetriedBatch, BatchMoves, BatchStates
    <3>5. ASSUME batch # "completed", RetriedBatch(k) = "completed", NEW i \in selected \cap Live
          PROVE  item'[i] = "published"
      <4>1. \A j \in Live \ k.picked : item[j] = "published"
        BY <3>2, <3>5 DEF RetriedBatch
      <4> QED
        BY <2>1, <3>5, <4>1 DEF Live
    <3> QED
      BY <3>3, <3>4, <3>5
  <2> QED
    BY <2>4, <2>5
<1> QED
  BY <1>4, <1>5

-----------------------------------------------------------------------------
(* The user's other requests. *)

\* A request changes rows and no call: a deletion disturbs every call, a tick those at
\* work.
LEMMA EditStep ==
  ASSUME IInv, UNCHANGED <<vendor, call, calls, faults, overlapped, doubtful, dropped>>,
         edits' \in 0..MaxEdits, disturbed' \in BOOLEAN, disturbed => disturbed',
         selected' \in SUBSET Items, posted' \in [Items -> 0..MaxCalls],
         item' \in [Items -> ItemStates], batch' \in {batch, "deleted"},
         \A i \in Items : \/ item'[i] = item[i] /\ posted'[i] = posted[i]
                          \/ item'[i] = "deleted" /\ posted'[i] = 0,
         \/ disturbed'
         \/ Busy = {} /\ UNCHANGED <<batch, item, posted>>
  PROVE  IInv' /\ MovesForward
<1>1. /\ TypeOK /\ Counted /\ RecordsMatchVendor /\ Intact /\ Callings
      /\ (~overlapped /\ ~disturbed => Once)
      /\ call \in [Callers -> CallType] /\ batch \in BatchStates /\ calls \in 0..MaxCalls
      /\ item \in [Items -> ItemStates] /\ posted \in [Items -> 0..MaxCalls]
  BY InvParts, Types
<1>2. TypeOK'
  <2>1. batch' \in BatchStates
    BY <1>1 DEF BatchStates
  <2> QED
    BY <1>1, <2>1 DEF TypeOK, CallType
<1>3. UNCHANGED Busy /\ \A i \in Items : UNCHANGED <<Due(i), Holding(i), Pending(i)>>
  BY DEF Busy, Due, Holding, Pending
<1>4. Counted'
  <2>1. PICK b : b = Cardinality(Busy)
    OBVIOUS
  <2>2. b \in Nat /\ \A i \in Items : posted'[i] + b <= calls
    <3>1. b \in Nat /\ \A i \in Items : posted[i] + b <= calls
      BY <1>1, <2>1, Finite DEF Counted
    <3> QED
      BY <1>1, <3>1, BoundsAssumption
  <2>3. Cardinality(Busy)' = b /\ \A i \in Items : UNCHANGED Cardinality(Due(i))
    BY <1>3, <2>1
  <2> QED
    BY <1>1, <2>2, <2>3 DEF Counted
<1>5. RecordsMatchVendor'
  <2>1. ASSUME NEW i \in Items
        PROVE  /\ item'[i] = "published" => posted'[i] >= 1
               /\ posted'[i] + Pending(i) <= vendor[i]
               /\ vendor[i] > posted'[i] + Pending(i)
                    => i \in doubtful \cup dropped \/ item'[i] = "deleted"
    <3>1. /\ item[i] = "published" => posted[i] >= 1
          /\ posted[i] + Pending(i) <= vendor[i]
          /\ vendor[i] > posted[i] + Pending(i) => i \in doubtful \cup dropped \/ item[i] = "deleted"
      BY <1>1 DEF RecordsMatchVendor
    <3>2. posted[i] \in Nat /\ vendor[i] \in Nat /\ Pending(i) \in Nat
      BY <1>1, Finite, Types, BoundsAssumption
    <3> QED
      BY <3>1, <3>2
  <2> QED
    BY <1>3, <2>1 DEF RecordsMatchVendor
<1>6. \A c \in Callers : CallOK(call[c])'
  BY <1>1 DEF Callings, CallOK
<1>7. ~overlapped => \A c \in Callers : AloneOK(call[c])'
  <2>1. SUFFICES ASSUME ~overlapped, NEW c \in Callers PROVE AloneOK(call[c])'
    OBVIOUS
  <2>2. PICK k \in CallType : k = call[c] /\ k = call'[c]
    BY <1>1
  <2>3. CallOK(k) /\ AloneOK(k)
    BY <1>1, <2>1, <2>2 DEF Callings
  <2>4. CASE disturbed'
    <3>1. AloneOK(k)'
      <4>1. \A i \in Items : item'[i] \in {item[i], "deleted"}
        OBVIOUS
      <4>2. k.picked \subseteq Items
        BY DEF CallType
      <4> QED
        BY <2>3, <2>4, <4>1, <4>2 DEF AloneOK
    <3> QED
      BY <2>2, <3>1 DEF AloneOK, Live, Published
  <2>5. CASE Busy = {}
    <3>1. k.pc = "idle" /\ k.todo = {}
      BY <2>2, <2>3, <2>5 DEF Busy, CallOK
    <3> QED
      BY <2>2, <3>1 DEF AloneOK
  <2> QED
    BY <2>4, <2>5
<1>8. Callings'
  BY <1>1, <1>3, <1>6, <1>7 DEF Callings
<1>9. Intact' /\ (~overlapped' /\ ~disturbed' => Once')
  <2>1. Intact'
    BY <1>1 DEF Intact
  <2>2. ~overlapped' /\ ~disturbed' => Once'
    BY <1>1, <1>3 DEF Once
  <2> QED
    BY <2>1, <2>2
<1>10. MovesForward
  BY <1>1 DEF MovesForward
<1> QED
  BY <1>2, <1>4, <1>5, <1>8, <1>9, <1>10 DEF IInv, Callings

LEMMA EditSteps ==
  ASSUME IInv, (\E i \in Items : PatchItem(i) \/ DeleteItem(i)) \/ DeleteBatch
  PROVE  IInv' /\ MovesForward
<1>1. /\ batch \in BatchStates /\ item \in [Items -> ItemStates] /\ selected \in SUBSET Items
      /\ posted \in [Items -> 0..MaxCalls] /\ edits \in 0..MaxEdits /\ disturbed \in BOOLEAN
  BY Types DEF IInv
<1>2. Edit => edits' \in 0..MaxEdits
  BY <1>1, BoundsAssumption DEF Edit
<1>3. ASSUME NEW i \in Items, PatchItem(i)
      PROVE  IInv' /\ MovesForward
  <2>1. selected' \in SUBSET Items /\ edits' \in 0..MaxEdits
        /\ UNCHANGED <<batch, item, posted, vendor, call, calls, faults, overlapped, doubtful, dropped>>
    BY <1>1, <1>2, <1>3 DEF PatchItem, lossVars
  <2>2. disturbed' = (disturbed \/ Busy # {})
    BY <1>3 DEF PatchItem
  <2>3. disturbed' \in BOOLEAN /\ (disturbed => disturbed') /\ (disturbed' \/ Busy = {})
    BY <1>1, <2>2
  <2> QED
    BY <1>1, <2>1, <2>3, EditStep
<1>4. ASSUME NEW i \in Items, DeleteItem(i)
      PROVE  IInv' /\ MovesForward
  <2>1. /\ item' = [item EXCEPT ![i] = "deleted"] /\ posted' = [posted EXCEPT ![i] = 0]
        /\ disturbed' = TRUE /\ edits' \in 0..MaxEdits
        /\ UNCHANGED <<batch, selected, vendor, call, calls, faults, overlapped, doubtful, dropped>>
    BY <1>2, <1>4 DEF DeleteItem, lossVars
  <2>2. item' \in [Items -> ItemStates] /\ posted' \in [Items -> 0..MaxCalls]
        /\ \A j \in Items : \/ item'[j] = item[j] /\ posted'[j] = posted[j]
                            \/ item'[j] = "deleted" /\ posted'[j] = 0
    <3>1. "deleted" \in ItemStates /\ 0 \in 0..MaxCalls
      BY BoundsAssumption DEF ItemStates
    <3> QED
      BY <1>1, <2>1, <3>1
  <2> QED
    BY <1>1, <2>1, <2>2, EditStep
<1>5. CASE DeleteBatch
  <2>1. /\ batch' = "deleted" /\ disturbed' = TRUE /\ edits' \in 0..MaxEdits
        /\ UNCHANGED <<item, selected, posted, vendor, call, calls, faults, overlapped, doubtful, dropped>>
    BY <1>2, <1>5 DEF DeleteBatch, lossVars
  <2> QED
    BY <1>1, <2>1, EditStep
<1> QED
  BY <1>3, <1>4, <1>5

LEMMA InitEstablishes == Init => IInv
<1> SUFFICES ASSUME Init PROVE IInv
  OBVIOUS
<1>1. 0 \in 0..MaxCalls /\ 0 \in 0..MaxEdits /\ 0 \in 0..MaxFaults
  BY BoundsAssumption
<1>2. call \in [Callers -> CallType] /\ \A c \in Callers : call[c] = Idle
  BY IdleTyped DEF Init
<1>3. Busy = {} /\ \A i \in Items : Due(i) = {} /\ Holding(i) = {} /\ Pending(i) = Cardinality({})
  <2>1. Busy = {}
    BY <1>2, IdleTyped DEF Busy
  <2>2. ASSUME NEW i \in Items PROVE Due(i) = {} /\ Holding(i) = {}
    BY <1>2, IdleTyped DEF Due, Holding
  <2>3. ASSUME NEW i \in Items PROVE Pending(i) = Cardinality({})
    BY <2>2 DEF Pending, Holding
  <2> QED
    BY <2>1, <2>2, <2>3
<1>4. Cardinality({}) = 0
  BY FS_EmptySet
<1>5. TypeOK
  <2>1. item \in [Items -> ItemStates] /\ batch \in BatchStates
    BY DEF Init, ItemStates, BatchStates
  <2>2. /\ selected \in SUBSET Items /\ overlapped \in BOOLEAN /\ disturbed \in BOOLEAN
        /\ doubtful \in SUBSET Items /\ dropped \in SUBSET Items
    BY DEF Init
  <2>3. /\ posted \in [Items -> 0..MaxCalls] /\ vendor \in [Items -> 0..MaxCalls]
        /\ calls \in 0..MaxCalls /\ edits \in 0..MaxEdits /\ faults \in 0..MaxFaults
    BY <1>1 DEF Init
  <2> QED
    BY <1>2, <2>1, <2>2, <2>3, Types
<1>6. Counted
  BY <1>3, <1>4 DEF Init, Counted
<1>7. RecordsMatchVendor
  <2>1. \A i \in Items : item[i] = "uploaded" /\ vendor[i] = 0 /\ posted[i] = 0 /\ Pending(i) = 0
    BY <1>3, <1>4 DEF Init
  <2> QED
    BY <2>1 DEF RecordsMatchVendor
<1>8. \A c \in Callers : CallOK(call[c]) /\ AloneOK(call[c])
  BY <1>2, IdleTyped DEF CallOK, AloneOK
<1>9. Once /\ Intact
  BY DEF Init, Once, Intact
<1> QED
  BY <1>3, <1>5, <1>6, <1>7, <1>8, <1>9 DEF IInv

LEMMA StepPreserves == IInv /\ [Next]_vars => IInv' /\ MovesForward
<1> SUFFICES ASSUME IInv, [Next]_vars PROVE IInv' /\ MovesForward
  OBVIOUS
<1>1. ASSUME NEW c \in Callers,
             \/ Submit(c, TRUE) \/ Submit(c, FALSE)
             \/ \E i \in Items : PublishItem(c, i) \/ Retry(c, i)
      PROVE  IInv' /\ MovesForward
  BY <1>1, SubmitStep, PublishItemStep, RetryStep, StillForward
<1>2. ASSUME NEW c \in Callers,
             \/ LoadOutcomeRows(c) \/ WriteOutcomes(c) \/ Refuse(c)
             \/ RetryPublish(c) \/ RetryWrite(c) \/ Crash(c)
      PROVE  IInv' /\ MovesForward
  BY <1>2, LoadStep, WriteStep, RefuseStep, RetryPublishStep, RetryWriteStep, CrashStep, StillForward
<1>3. CASE (\E i \in Items : PatchItem(i) \/ DeleteItem(i)) \/ DeleteBatch
  BY <1>3, EditSteps
<1>4. CASE UNCHANGED vars
  <2>1. UNCHANGED <<batch, item, selected, posted, vendor, call, calls, edits, faults, overlapped,
                    disturbed, doubtful, dropped>>
    BY <1>4 DEF vars, rowVars, counters, lossVars
  <2>2. TypeOK' /\ Intact'
    BY <2>1 DEF IInv, TypeOK, Intact
  <2>3. Counted' /\ RecordsMatchVendor'
    <3>1. UNCHANGED Busy /\ \A i \in Items : UNCHANGED <<Due(i), Pending(i)>>
      BY <2>1 DEF Busy, Due, Pending
    <3> QED
      BY <2>1, <3>1 DEF IInv, Counted, RecordsMatchVendor
  <2>4. \A c \in Callers : CallOK(call[c])' /\ (~overlapped => AloneOK(call[c])')
    BY <2>1 DEF IInv, CallOK, AloneOK, Live, Published
  <2>5. (~overlapped => \A c, d \in Busy' : c = d) /\ (~overlapped /\ ~disturbed => Once')
    BY <2>1 DEF IInv, Busy, Once, Holding
  <2> QED
    BY <2>1, <2>2, <2>3, <2>4, <2>5, StillForward DEF IInv
<1> QED
  BY <1>1, <1>2, <1>3, <1>4 DEF Next

-----------------------------------------------------------------------------
(* The theorems. *)

\* Always: the invariant.
THEOREM Invariance == Spec => []IInv
BY InitEstablishes, StepPreserves, PTL DEF Spec

\* Rows, calls and counts stay within their types.  That the counts do is a bound on what
\* the code does: no call publishes an item twice, and none records it twice.
THEOREM BatchTypes == Spec => []TypeOK
<1>1. IInv => TypeOK
  BY DEF IInv
<1> QED
  BY <1>1, Invariance, PTL

\* An item is published only with an attempt that records it; and however submits and
\* retries overlap and crash, every attempt and every success that a call holds has a
\* publication of its own, and every other publication is of an item that was deleted,
\* that went out in a call that was told it failed, or in one that could not write.
THEOREM RecordsAreTrue == Spec => []RecordsMatchVendor
<1>1. IInv => RecordsMatchVendor
  BY DEF IInv
<1> QED
  BY <1>1, Invariance, PTL

\* One call after the other, an item goes out twice only if it was told failed after the
\* vendor had it, or dropped by a write that was refused; and a write that drops anything
\* finds the batch publishing or completed.
THEOREM RepublicationHasCause == Spec => []RepublishedForCause
<1>1. IInv => RepublishedForCause
  <2>1. SUFFICES ASSUME IInv, ~disturbed, ~overlapped
                 PROVE  /\ \A i \in Items : vendor[i] > 1 => i \in doubtful \cup dropped
                        /\ dropped # {} => batch \in {"publishing", "completed"}
    BY DEF RepublishedForCause
  <2>2. Once /\ vendor \in [Items -> Nat]
    BY <2>1, Types, BoundsAssumption DEF IInv
  <2> QED
    BY <2>2 DEF Once, Closed
<1> QED
  BY <1>1, Invariance, PTL

\* One call after the other, batch and items follow their tables, although the writes
\* take their guards from what was read before the runner went out.
THEOREM TablesFollowed == Spec => StatusesMoveForward
<1>1. IInv /\ [Next]_vars =>
        [~overlapped' =>
           /\ batch' \in {batch, "deleted"} \cup BatchMoves[batch]
           /\ \A i \in Items : item[i] = "published" => item'[i] \in {"published", "deleted"}
           /\ batch # "completed" /\ batch' = "completed" /\ ~disturbed'
                => \A i \in selected \cap Live : item'[i] = "published"]_vars
  BY StepPreserves DEF MovesForward
<1> QED
  BY <1>1, Invariance, PTL DEF Spec, StatusesMoveForward
=============================================================================
