---------------------------- MODULE MCDurableJobs ----------------------------
(* DurableJobs for TLC: processes are interchangeable. *)
EXTENDS DurableJobs, TLC

Symmetry == Permutations(Workers)
=============================================================================
