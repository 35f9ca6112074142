-------------------------- MODULE MCRunLifecycle ---------------------------
(***************************************************************************)
(* RunLifecycle for TLC: the symmetry of its interchangeable processes.    *)
(***************************************************************************)
EXTENDS RunLifecycle, TLC

Symmetry == Permutations(Threads) \cup Permutations(Clients)
=============================================================================
