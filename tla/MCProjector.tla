----------------------------- MODULE MCProjector -----------------------------
(* Projector for TLC: notes and paths are interchangeable. *)
EXTENDS Projector, TLC

Symmetry == Permutations(Notes) \cup Permutations(Paths)
=============================================================================
