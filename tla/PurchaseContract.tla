------------------------- MODULE PurchaseContract --------------------------
(***************************************************************************)
(* What the gateway promises about money for one provider call of a job.   *)
(* Every intention to buy is an opening; the vendor accepts at most one    *)
(* task per opening, and a new opening needs the last one to be settled    *)
(* and a reason: another run drives the call, or the media it bought is    *)
(* gone.  Nothing else ever pays the vendor again.                         *)
(***************************************************************************)
EXTENDS Integers, Sequences

CONSTANT Runs

VARIABLE openings  \* per opening: its run, whether it is settled, whether its media
                   \* is gone, the tasks the vendor accepted

ContractInit == openings = <<>>

Justified(o, r) == o.settled /\ (o.run # r \/ o.lost)

Open ==
  \E r \in Runs :
    /\ openings = <<>> \/ Justified(openings[Len(openings)], r)
    /\ openings' = Append(openings, [run |-> r, settled |-> FALSE, lost |-> FALSE,
                                     bought |-> 0])

\* A slow submit may reach the vendor after its opening was given up.
Buy ==
  \E i \in DOMAIN openings :
    openings[i].bought = 0 /\ openings' = [openings EXCEPT ![i].bought = 1]

Settle == \E i \in DOMAIN openings : openings' = [openings EXCEPT ![i].settled = TRUE]

\* Only media that was paid for can be lost.
LoseMedia ==
  \E i \in DOMAIN openings :
    /\ openings[i].bought > 0 /\ openings[i].settled
    /\ openings' = [openings EXCEPT ![i].lost = TRUE]

ContractNext == Open \/ Buy \/ Settle \/ LoseMedia

ContractSpec == ContractInit /\ [][ContractNext]_openings
=============================================================================
