---------------------------- MODULE RunContract ----------------------------
(***************************************************************************)
(* What the rows of one run promise to everybody who reads them (the UI,   *)
(* the resume planner, the operator), whatever processes write them: nodes *)
(* commit in order, success is complete, an outcome is final, and from the *)
(* moment a cancellation is recorded nothing more commits.                 *)
(***************************************************************************)
EXTENDS Integers

CONSTANT N           \* number of nodes of the workflow template

VARIABLES
  state,  \* "absent", "active", "cancelling", "succeeded", "failed", "cancelled"
  mode,   \* how the cancellation was asked for
  done    \* the committed nodes

contractVars == <<state, mode, done>>

ContractInit == state = "absent" /\ mode = "none" /\ done = {}

Submit ==
  /\ state = "absent" /\ state' = "active"
  /\ UNCHANGED <<mode, done>>

\* More of the sequence commits; the same transaction may end the run.  A late
\* activity of a failed run may still commit, its run stays failed.
Commit ==
  /\ state \in {"active", "failed"}
  /\ \E k \in 0..N : done' = 1..k
  /\ done \subseteq done'
  /\ \/ state' = state
     \/ state = "active" /\ state' = "failed"
     \/ state = "active" /\ state' = "succeeded" /\ done' = 1..N
  /\ UNCHANGED mode

\* A run that has not started is cancelled at once, a running one must stop
\* first.  Force is never taken back.
AskCancel ==
  /\ state \in {"active", "cancelling"}
  /\ \/ state' = "cancelling"
     \/ state = "active" /\ state' = "cancelled"
  /\ mode' \in {"graceful", "force"}
  /\ mode = "force" => mode' = "force"
  /\ UNCHANGED done

Stopped ==
  /\ state = "cancelling" /\ state' = "cancelled"
  /\ UNCHANGED <<mode, done>>

ContractNext == Submit \/ Commit \/ AskCancel \/ Stopped

ContractSpec == ContractInit /\ [][ContractNext]_contractVars
=============================================================================
