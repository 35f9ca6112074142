-------------------------- MODULE MCPublishBatch ---------------------------
(* PublishBatch for TLC: the requests are interchangeable. *)
EXTENDS PublishBatch, TLC

Symmetry == Permutations(Callers)
=============================================================================
