-------------------------- MODULE MCCaseAdmission --------------------------
(***************************************************************************)
(* CaseAdmission for TLC: the symmetry of the attempts' threads.           *)
(***************************************************************************)
EXTENDS CaseAdmission, TLC

Symmetry == Permutations(Attempts)
=============================================================================
